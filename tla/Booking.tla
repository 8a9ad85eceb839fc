------------------------------- MODULE Booking -------------------------------
(***************************************************************************)
(* Seats and waitlist of one event (internal/booking, internal/waitlist,   *)
(* the holder's cancel of internal/tickets, sqlc/queries/bookings.sql and  *)
(* waitlist.sql).                                                          *)
(*                                                                         *)
(* Requests, clicks on claim links, admin actions, promotion goroutines    *)
(* and the sweeper run concurrently over one PostgreSQL database at READ   *)
(* COMMITTED: every statement sees the rows committed when it STARTED.  A  *)
(* transaction is split into the steps between which another commit makes  *)
(* a difference; its last step applies all its writes and commits.         *)
(*                                                                         *)
(* The event row lock (SELECT .. FOR UPDATE) is `lock' while a step        *)
(* boundary lies between taking it and the commit, and the guard LockFree  *)
(* otherwise.  Inserting a booking or a ticket needs it free too: their    *)
(* foreign key takes FOR KEY SHARE on the event row.                       *)
(***************************************************************************)
EXTENDS Allocation

CONSTANTS
    Requests,    \* booking submissions; each may become one waitlist row
    Need,        \* participants of each submission
    Copies,      \* bound: bookings made from one submission
    Handlers,    \* bound: HTTP handlers and promotion goroutines in flight
    Sweeper,     \* the goroutine of RunSweeper
    Null,        \* SQL NULL; no process
    Unlimited,   \* participant_limit IS NULL
    Settings,    \* what an organizer may set the event to
    Ops          \* what the environment does in this instance

Procs    == Handlers \cup {Sweeper}
Bookings == Requests \X (1..Copies)

TicketsOf(b) == {b} \X (1..Need[b[1]])
Tickets      == UNION {TicketsOf(b) : b \in Bookings}

EventRow == [limit: Nat \cup {Unlimited}, donation: BOOLEAN,
             test: BOOLEAN, atDoor: BOOLEAN]

ASSUME BookingAssumption ==
    /\ IsFiniteSet(Requests)
    /\ Need \in [Requests -> Nat \ {0}]
    /\ Copies \in Nat
    /\ Sweeper \notin Handlers
    /\ Null \notin Procs /\ Null \notin Bookings
    /\ Unlimited \notin Int
    /\ Settings \subseteq EventRow

VARIABLES
    event,       \* the events row: limit, pricing mode, payment mode
    booking,     \* bookings: status and payment method
    lapsed,      \* bookings whose reservation_expires_at has passed
    ticket,      \* tickets: status
    entry,       \* waitlist_entries: status
    fulfilledBy, \* waitlist_entries: fulfilled_booking_id
    stamp,       \* waitlist_entries: created_at, 0 before the transaction began
    clock,       \* the last stamp given out
    overdue,     \* rows whose claim_deadline has passed
    invited,     \* rows whose holder was mailed a claim link
    lock,        \* who holds the event row FOR UPDATE across a step boundary
    task,        \* what each process is doing and what it has read so far
    sweep        \* the sweeper's loop: where it is and the rows it listed

rows  == <<booking, lapsed, ticket>>
queue == <<entry, fulfilledBy, overdue, invited>>
time  == <<stamp, clock>>
vars  == <<event, rows, queue, time, lock, task, sweep>>
-----------------------------------------------------------------------------
BookingStatus == {"none", "booked", "paid", "canceled", "purged"}
Methods       == {"none", "test", "donation", "at_door", "bank_transfer"}
TicketStatus  == {"none", "booked", "paid", "checked_in", "canceled"}
EntryStatus   == {"none", "waiting", "promoted", "fulfilled", "expired", "removed"}

Idle == [op |-> "idle"]

BookTask  == [op: {"book"}, at: {"read", "begun", "counted"},
              req: Requests, ev: Settings, seats: Nat]
ClaimTask == [op: {"claim"}, at: {"read", "locked"},
              req: Requests, ev: Settings, seats: Nat]
PickTask     == [op: {"pick"}, req: Requests]
AdminTask    == [op: {"admin"}, req: Requests, ev: Settings]
RefundTask   == [op: {"refund"}, of: Bookings]
GiveBackTask == [op: {"giveback"}, of: Tickets]
PromoteTask  == [op: {"promote"}, at: {"start"}]
                \cup [op: {"promote"}, at: {"read"}, ev: Settings]
MailTask     == [op: {"mail"}, to: SUBSET Requests]

Task == {Idle} \cup BookTask \cup ClaimTask \cup PickTask \cup AdminTask
        \cup RefundTask \cup GiveBackTask \cup PromoteTask \cup MailTask

StartPromote == [op |-> "promote", at |-> "start"]

TypeOK ==
    /\ event \in Settings
    /\ booking \in [Bookings -> [status: BookingStatus, method: Methods]]
    /\ lapsed \subseteq Bookings
    /\ ticket \in [Tickets -> TicketStatus]
    /\ entry \in [Requests -> EntryStatus]
    /\ fulfilledBy \in [Requests -> Bookings \cup {Null}]
    /\ stamp \in [Requests -> Nat] /\ clock \in Nat
    /\ overdue \subseteq Requests /\ invited \subseteq Requests
    /\ lock \in Handlers \cup {Null}
    /\ task \in [Procs -> Task]
    /\ sweep \in [at: {"idle", "cancel", "promote", "entries", "expire", "repromote"},
                  bookings: SUBSET Bookings, entries: SUBSET Requests,
                  touched: BOOLEAN]

SweepIdle == [at |-> "idle", bookings |-> {}, entries |-> {}, touched |-> FALSE]

Init ==
    /\ event \in Settings
    /\ booking = [b \in Bookings |-> [status |-> "none", method |-> "none"]]
    /\ lapsed = {}
    /\ ticket = [t \in Tickets |-> "none"]
    /\ entry = [r \in Requests |-> "none"]
    /\ fulfilledBy = [r \in Requests |-> Null]
    /\ stamp = [r \in Requests |-> 0]
    /\ clock = 0
    /\ overdue = {}
    /\ invited = {}
    /\ lock = Null
    /\ task = [p \in Procs |-> Idle]
    /\ sweep = SweepIdle
-----------------------------------------------------------------------------
(* The SQL statements the handlers are made of.                            *)

SeatHolding == {"booked", "paid", "checked_in"}

ActiveTickets == {t \in Tickets : ticket[t] \in SeatHolding}

\* CountActiveSeatsForEvent
SeatsTaken == Cardinality(ActiveTickets)

LockFree == lock = Null

Limited(ev)   == ev.limit # Unlimited
Immediate(ev) == ev.test \/ ev.donation \/ ev.atDoor
\* Mutant: a method that no handler and no constraint knows.
MethodCash(ev) == IF ev.test THEN "test" ELSE "cash"

Method(ev)    == IF ev.test THEN "test"
                 ELSE IF ev.donation THEN "donation"
                 ELSE IF ev.atDoor THEN "at_door" ELSE "none"

Fresh(r)      == {b \in {r} \X (1..Copies) : booking[b].status = "none"}
NewBooking(r) == CHOOSE b \in Fresh(r) : TRUE

\* CreateBooking and CreateTicket for every participant, for the bookings B.
CreateBookings(B, status, method) ==
    /\ booking' = [b \in Bookings |->
                     IF b \in B THEN [status |-> status, method |-> method]
                     ELSE booking[b]]
    /\ ticket' = [t \in Tickets |-> IF t[1] \in B THEN status ELSE ticket[t]]

\* Mutant: only the tickets nobody paid for are canceled with the booking.
CancelBookingKeepPaid(b) ==
    IF booking[b].status \in {"booked", "paid"}
    THEN /\ booking' = [booking EXCEPT ![b].status = "canceled"]
         /\ ticket' = [t \in Tickets |->
                         IF t[1] = b /\ ticket[t] = "booked" THEN "canceled"
                         ELSE ticket[t]]
    ELSE UNCHANGED <<booking, ticket>>

\* CancelBookingAndTickets: WHERE status <> 'canceled'.
CancelBookingAndTickets(b) ==
    IF booking[b].status \in {"booked", "paid"}
    THEN /\ booking' = [booking EXCEPT ![b].status = "canceled"]
         /\ ticket' = [t \in Tickets |->
                         IF t[1] = b THEN "canceled" ELSE ticket[t]]
    ELSE UNCHANGED <<booking, ticket>>

\* Mutant: fulfilled_booking_id without its status condition.
MarkFulfilledAnyway(R) ==
    /\ entry' = [r \in Requests |->
                   IF r \in R /\ entry[r] \in {"waiting", "promoted"}
                   THEN "fulfilled" ELSE entry[r]]
    /\ fulfilledBy' = [r \in Requests |->
                   IF r \in R THEN NewBooking(r) ELSE fulfilledBy[r]]

\* MarkWaitlistFulfilled for the rows R: WHERE status IN ('waiting', 'promoted').
MarkFulfilled(R) ==
    LET F == {r \in R : entry[r] \in {"waiting", "promoted"}}
    IN  /\ entry' = [r \in Requests |->
                       IF r \in F THEN "fulfilled" ELSE entry[r]]
        /\ fulfilledBy' = [r \in Requests |->
                       IF r \in F THEN NewBooking(r) ELSE fulfilledBy[r]]

Goto(p, t) == task' = [task EXCEPT ![p] = t]
Free(h)    == task[h] = Idle
Doing(p, op) == task[p].op = op
-----------------------------------------------------------------------------
(* HandleBooking.                                                          *)

\* fetchPublicEvent, outside the transaction.
BookRead(h, r) ==
    /\ Free(h)
    /\ stamp[r] = 0
    /\ \A p \in Handlers : Doing(p, "book") => task[p].req # r
    /\ Goto(h, [op |-> "book", at |-> "read", req |-> r, ev |-> event, seats |-> 0])
    /\ UNCHANGED <<event, rows, queue, time, lock, sweep>>

\* BEGIN: from here on now() is fixed, and with it created_at.
BookBegin(h) ==
    /\ Doing(h, "book") /\ task[h].at = "read"
    /\ clock' = clock + 1
    /\ stamp' = [stamp EXCEPT ![task[h].req] = clock + 1]
    /\ Goto(h, [task[h] EXCEPT !.at = "begun"])
    /\ UNCHANGED <<event, rows, queue, lock, sweep>>

\* CountActiveSeatsForEventLocking starts: its snapshot is taken now, the
\* row lock in its CTE is granted later, and the count stays this one.
BookCount(h) ==
    /\ Doing(h, "book") /\ task[h].at = "begun" /\ Limited(task[h].ev)
    /\ Goto(h, [task[h] EXCEPT !.at = "counted", !.seats = SeatsTaken])
    /\ UNCHANGED <<event, rows, queue, time, lock, sweep>>

\* The transaction is past the capacity check, or has none to make.
Fits(t) == t.seats + Need[t.req] <= t.ev.limit

Admitted(t) == \/ t.at = "begun" /\ ~Limited(t.ev)
               \/ t.at = "counted" /\ Fits(t)

\* Mutant: the inserts do not wait for the event row.
BookSeatsUnlocked(h) ==
    /\ Doing(h, "book") /\ Admitted(task[h])
    /\ LET r == task[h].req
           ev == task[h].ev
       IN  /\ Fresh(r) # {}
           /\ CreateBookings({NewBooking(r)},
                             IF Immediate(ev) THEN "paid" ELSE "booked", Method(ev))
    /\ Goto(h, Idle)
    /\ UNCHANGED <<event, lapsed, queue, time, lock, sweep>>

BookSeats(h) ==
    /\ Doing(h, "book") /\ Admitted(task[h])
    /\ LockFree
    /\ LET r == task[h].req
           ev == task[h].ev
       IN  /\ Fresh(r) # {}
           /\ CreateBookings({NewBooking(r)},
                             IF Immediate(ev) THEN "paid" ELSE "booked", Method(ev))
    /\ Goto(h, Idle)
    /\ UNCHANGED <<event, lapsed, queue, time, lock, sweep>>

\* createWaitlistEntry
BookWaitlist(h) ==
    /\ Doing(h, "book") /\ task[h].at = "counted" /\ ~Fits(task[h])
    /\ LockFree
    /\ entry' = [entry EXCEPT ![task[h].req] = "waiting"]
    /\ Goto(h, Idle)
    /\ UNCHANGED <<event, rows, fulfilledBy, overdue, invited, time, lock, sweep>>
-----------------------------------------------------------------------------
(* PromoteAfterCancel, run by goroutines, by an admin request and inline   *)
(* by the sweeper.                                                         *)

\* Mutant: the short-circuit for unlimited events, inverted.
PromoteReadInverted(p) ==
    /\ task[p] = StartPromote
    /\ Goto(p, IF Limited(event) THEN Idle
               ELSE [op |-> "promote", at |-> "read", ev |-> event])
    /\ UNCHANGED <<event, rows, queue, time, lock, sweep>>

PromoteRead(p) ==
    /\ task[p] = StartPromote
    /\ Goto(p, IF Limited(event)
               THEN [op |-> "promote", at |-> "read", ev |-> event]
               ELSE Idle)
    /\ UNCHANGED <<event, rows, queue, time, lock, sweep>>

Remaining(ev) == ev.limit - SeatsTaken

\* ListWaitingForEventLocking
Waiting == {r \in Requests : entry[r] = "waiting"}

\* Mutant: everyone who fits alone is promoted.
PromotionsAllWhoFit(P, ev) ==
    /\ P = {r \in Waiting : Need[r] <= Remaining(ev)}
    /\ P # {}

\* Mutant: strict FIFO, the first one who does not fit blocks the queue.
PromotionsStrict(P, ev) ==
    /\ P \subseteq Waiting
    /\ \A r \in Waiting : r \in P <=>
          SeatCount({s \in Waiting : stamp[s] <= stamp[r]}, Need) <= Remaining(ev)
    /\ P # {}

Promotions(P, ev) ==
    /\ Remaining(ev) > 0
    /\ IsAllocation(P, Waiting, stamp, Need, Remaining(ev))
    /\ P # {}

InPromoteTx(p) ==
    /\ Doing(p, "promote") /\ task[p].at = "read"
    /\ LockFree

PromoteNobody(p) ==
    /\ InPromoteTx(p)
    /\ ~ \E P \in SUBSET Waiting : Promotions(P, task[p].ev)
    /\ Goto(p, Idle)
    /\ UNCHANGED <<event, rows, queue, time, lock, sweep>>

\* fulfillWaitlistDonation for each promotion.
PromoteDonation(p) ==
    /\ InPromoteTx(p) /\ task[p].ev.donation
    /\ \E P \in SUBSET Waiting :
         /\ Promotions(P, task[p].ev)
         /\ \A r \in P : Fresh(r) # {}
         /\ CreateBookings({NewBooking(r) : r \in P}, "paid", "donation")
         /\ MarkFulfilled(P)
    /\ Goto(p, Idle)
    /\ UNCHANGED <<event, lapsed, overdue, invited, time, lock, sweep>>

\* Paid events: no row changes, everyone who fits will be mailed.
PromoteInvite(p) ==
    /\ InPromoteTx(p) /\ ~task[p].ev.donation
    /\ \E P \in SUBSET Waiting : Promotions(P, task[p].ev)
    /\ Goto(p, [op |-> "mail",
                to |-> {r \in Waiting : Need[r] <= Remaining(task[p].ev)}])
    /\ UNCHANGED <<event, rows, queue, time, lock, sweep>>

\* sendWaitlistSpotOpened to each, after the transaction; a failed one is logged.
SendMail(p) ==
    /\ Doing(p, "mail")
    /\ \E failed \in IF "mail_failure" \in Ops THEN SUBSET task[p].to ELSE {{}} :
         invited' = invited \cup (task[p].to \ failed)
    /\ Goto(p, Idle)
    /\ UNCHANGED <<event, rows, entry, fulfilledBy, overdue, time, lock, sweep>>

\* HandleWaitlistPromote: POST /api/admin/events/{id}/waitlist/promote
RotateWaitlist(h) ==
    /\ Free(h)
    /\ Goto(h, StartPromote)
    /\ UNCHANGED <<event, rows, queue, time, lock, sweep>>
-----------------------------------------------------------------------------
(* HandleWaitlistClaim.                                                    *)

Claimable(r) == entry[r] \in {"waiting", "promoted"}

ClaimRead(h, r) ==
    /\ Free(h)
    /\ r \in invited /\ Claimable(r)
    /\ Goto(h, [op |-> "claim", at |-> "read", req |-> r, ev |-> event, seats |-> 0])
    /\ UNCHANGED <<event, rows, queue, time, lock, sweep>>

\* Mutant: the row is not read again under the lock.
ClaimHoldsStale(h) ==
    LET t == task[h]
    IN  Limited(t.ev) /\ Need[t.req] <= Remaining(t.ev)

\* Mutant: the seats are not counted again under the lock.
ClaimHoldsUncounted(h) ==
    LET t == task[h]
    IN  Limited(t.ev) /\ Claimable(t.req)

\* Lock, count, and the row read again: the claim goes ahead only if all hold.
\* On an unlimited event dereferencing the limit panics inside the transaction.
ClaimHolds(h) ==
    LET t == task[h]
    IN  /\ Limited(t.ev)
        /\ Need[t.req] <= Remaining(t.ev)
        /\ Claimable(t.req)

ClaimRefused(h) ==
    /\ Doing(h, "claim") /\ task[h].at = "read"
    /\ LockFree /\ ~ClaimHolds(h)
    /\ Goto(h, Idle)
    /\ UNCHANGED <<event, rows, queue, time, lock, sweep>>

ClaimLock(h) ==
    /\ Doing(h, "claim") /\ task[h].at = "read"
    /\ LockFree /\ ClaimHolds(h)
    /\ lock' = h
    /\ Goto(h, [task[h] EXCEPT !.at = "locked", !.seats = SeatsTaken])
    /\ UNCHANGED <<event, rows, queue, time, sweep>>

ClaimCommit(h) ==
    /\ Doing(h, "claim") /\ task[h].at = "locked"
    /\ LET r == task[h].req
       IN  /\ Fresh(r) # {}
           /\ CreateBookings({NewBooking(r)}, "booked", "none")
           /\ MarkFulfilled({r})
    /\ lock' = Null
    /\ Goto(h, Idle)
    /\ UNCHANGED <<event, lapsed, overdue, invited, time, sweep>>

\* HandleWaitlistRemove, HandleAdminWaitlistRemove.  The earlier read only
\* chooses the reply: MarkWaitlistRemoved repeats its condition.
RemoveEntry(r) ==
    /\ entry[r] \in {"waiting", "promoted", "expired"}
    /\ entry' = [entry EXCEPT ![r] = "removed"]
    /\ UNCHANGED <<event, rows, fulfilledBy, overdue, invited, time, lock, task, sweep>>
-----------------------------------------------------------------------------
(* HandleAdminWaitlistPromote: one row, out of turn.                       *)

PickRow(h, r) ==
    /\ Free(h)
    /\ entry[r] \in {"waiting", "expired"}
    /\ Goto(h, [op |-> "pick", req |-> r])
    /\ UNCHANGED <<event, rows, queue, time, lock, sweep>>

PickEvent(h) ==
    /\ Doing(h, "pick")
    /\ Goto(h, [op |-> "admin", req |-> task[h].req, ev |-> event])
    /\ UNCHANGED <<event, rows, queue, time, lock, sweep>>

\* Donation event: locks the event, then fulfils the row as it was read.
AdminFulfil(h) ==
    /\ Doing(h, "admin") /\ task[h].ev.donation
    /\ LockFree
    /\ LET r == task[h].req
       IN  /\ Fresh(r) # {}
           /\ CreateBookings({NewBooking(r)}, "paid", "donation")
           /\ MarkFulfilled({r})
    /\ Goto(h, Idle)
    /\ UNCHANGED <<event, lapsed, overdue, invited, time, lock, sweep>>

\* Mutant: MarkWaitlistPromoted without its status condition.
AdminPromoteAnyway(h) ==
    /\ Doing(h, "admin") /\ ~task[h].ev.donation
    /\ LET r == task[h].req
       IN  /\ entry' = [entry EXCEPT ![r] = "promoted"]
           /\ Goto(h, [op |-> "mail", to |-> {r}])
    /\ UNCHANGED <<event, rows, fulfilledBy, overdue, invited, time, lock, sweep>>

\* Paid event: MarkWaitlistPromoted WHERE status='waiting', then the mail.
AdminPromote(h) ==
    /\ Doing(h, "admin") /\ ~task[h].ev.donation
    /\ LET r == task[h].req
       IN  /\ entry' = [entry EXCEPT ![r] = IF @ = "waiting" THEN "promoted" ELSE @]
           /\ Goto(h, [op |-> "mail", to |-> {r}])
    /\ UNCHANGED <<event, rows, fulfilledBy, overdue, invited, time, lock, sweep>>
-----------------------------------------------------------------------------
(* Payment, cancellation, the door.                                        *)

\* Mutant: MarkBookingPaid without its status condition.
MarkPaidAnyway(b) ==
    /\ booking[b].status \in {"booked", "canceled"}
    /\ booking' = [booking EXCEPT ![b] =
                     [status |-> "paid",
                      method |-> IF @.method = "none" THEN "bank_transfer" ELSE @.method]]
    /\ ticket' = [t \in Tickets |->
                    IF t[1] = b /\ ticket[t] = "booked" THEN "paid" ELSE ticket[t]]
    /\ UNCHANGED <<event, lapsed, queue, time, lock, task, sweep>>

\* HandleMarkPaid, HandleBulkMarkPaid: both updates repeat the condition of
\* the read before them, in one transaction.
MarkPaid(b) ==
    /\ booking[b].status = "booked"
    /\ booking' = [booking EXCEPT ![b] =
                     [status |-> "paid",
                      method |-> IF @.method = "none" THEN "bank_transfer" ELSE @.method]]
    /\ ticket' = [t \in Tickets |->
                    IF t[1] = b /\ ticket[t] = "booked" THEN "paid" ELSE ticket[t]]
    /\ UNCHANGED <<event, lapsed, queue, time, lock, task, sweep>>

\* HandleRefund: read the booking, cancel it, go PromoteAfterCancel.
RefundRead(h, b) ==
    /\ Free(h)
    /\ booking[b].status \in {"booked", "paid"}
    /\ Goto(h, [op |-> "refund", of |-> b])
    /\ UNCHANGED <<event, rows, queue, time, lock, sweep>>

RefundCancel(h) ==
    /\ Doing(h, "refund")
    /\ CancelBookingAndTickets(task[h].of)
    /\ Goto(h, StartPromote)
    /\ UNCHANGED <<event, lapsed, queue, time, lock, sweep>>

\* HandleCancel of internal/tickets: read the ticket, CancelTicketByID, go onCancel.
Cancelable(t) == ticket[t] \in {"booked", "paid"}

GiveBackRead(h, t) ==
    /\ Free(h)
    /\ Cancelable(t)
    /\ Goto(h, [op |-> "giveback", of |-> t])
    /\ UNCHANGED <<event, rows, queue, time, lock, sweep>>

GiveBackCancel(h) ==
    /\ Doing(h, "giveback")
    /\ LET t == task[h].of
       IN  ticket' = [ticket EXCEPT ![t] = IF Cancelable(t) THEN "canceled" ELSE @]
    /\ Goto(h, StartPromote)
    /\ UNCHANGED <<event, booking, lapsed, queue, time, lock, sweep>>

\* CheckInTicket and UndoCheckInTicket, as far as the seat is concerned.
CheckIn(t) ==
    /\ ticket[t] = "paid"
    /\ ticket' = [ticket EXCEPT ![t] = "checked_in"]
    /\ UNCHANGED <<event, booking, lapsed, queue, time, lock, task, sweep>>

UndoCheckIn(t) ==
    /\ ticket[t] = "checked_in"
    /\ ticket' = [ticket EXCEPT ![t] = "paid"]
    /\ UNCHANGED <<event, booking, lapsed, queue, time, lock, task, sweep>>

\* HandlePurgeTestBookings: deletes the rows, tickets by cascade.
PurgeTest ==
    LET T == {b \in Bookings : /\ booking[b].method = "test"
                               /\ booking[b].status \notin {"none", "purged"}}
    IN  /\ T # {}
        /\ booking' = [b \in Bookings |->
                         IF b \in T THEN [booking[b] EXCEPT !.status = "purged"]
                         ELSE booking[b]]
        /\ ticket' = [t \in Tickets |-> IF t[1] \in T THEN "none" ELSE ticket[t]]
        /\ UNCHANGED <<event, lapsed, queue, time, lock, task, sweep>>

\* HandleUpdate of internal/events: the UPDATE waits for the row lock.
UpdateEvent(e) ==
    /\ LockFree
    /\ e # event
    /\ event' = e
    /\ UNCHANGED <<rows, queue, time, lock, task, sweep>>
-----------------------------------------------------------------------------
(* Time, and the sweeper that reacts to it.                                *)

Lapse(b) ==
    /\ booking[b].status = "booked" /\ b \notin lapsed
    /\ lapsed' = lapsed \cup {b}
    /\ UNCHANGED <<event, booking, ticket, queue, time, lock, task, sweep>>

DeadlinePasses(r) ==
    /\ entry[r] = "promoted" /\ r \notin overdue
    /\ overdue' = overdue \cup {r}
    /\ UNCHANGED <<event, rows, entry, fulfilledBy, invited, time, lock, task, sweep>>

\* Mutant: the listing asks for a payment method, which nothing unpaid has.
ExpiredWithMethod == {b \in lapsed : /\ booking[b].status = "booked"
                                     /\ booking[b].method # "none"}

\* ListExpiredUnpaidBookings
ExpiredUnpaid == {b \in lapsed : booking[b].status = "booked"}

SweepList ==
    /\ sweep.at = "idle"
    /\ sweep' = [sweep EXCEPT !.at = IF ExpiredUnpaid = {} THEN "entries" ELSE "cancel",
                              !.bookings = ExpiredUnpaid, !.touched = FALSE]
    /\ UNCHANGED <<event, rows, queue, time, lock, task>>

\* CancelBookingAndTickets of a listed booking, whatever became of it since.
SweepCancel(b) ==
    /\ sweep.at = "cancel" /\ b \in sweep.bookings
    /\ CancelBookingAndTickets(b)
    /\ sweep' = [sweep EXCEPT !.bookings = @ \ {b}, !.touched = TRUE]
    /\ UNCHANGED <<event, lapsed, queue, time, lock, task>>

\* PromoteAfterCancel runs inline, as the sweeper's task, if a row was touched.
SweepPromote ==
    /\ \/ sweep.at = "cancel" /\ sweep.bookings = {}
       \/ sweep.at = "expire" /\ sweep.entries = {}
    /\ sweep' = [sweep EXCEPT !.at = IF @ = "cancel" THEN "promote" ELSE "repromote"]
    /\ task' = IF sweep.touched THEN [task EXCEPT ![Sweeper] = StartPromote] ELSE task
    /\ UNCHANGED <<event, rows, queue, time, lock>>

SweepPromoted ==
    /\ sweep.at \in {"promote", "repromote"} /\ task[Sweeper] = Idle
    /\ sweep' = [sweep EXCEPT !.at = IF @ = "promote" THEN "entries" ELSE "idle"]
    /\ UNCHANGED <<event, rows, queue, time, lock, task>>

\* ListExpiredPromotedWaitlist
ExpiredPromoted == {r \in overdue : entry[r] = "promoted"}

SweepEntries ==
    /\ sweep.at = "entries"
    /\ sweep' = [sweep EXCEPT !.at = IF ExpiredPromoted = {} THEN "idle" ELSE "expire",
                              !.entries = ExpiredPromoted, !.touched = FALSE]
    /\ UNCHANGED <<event, rows, queue, time, lock, task>>

\* MarkWaitlistExpired: WHERE status = 'promoted'.
SweepExpire(r) ==
    /\ sweep.at = "expire" /\ r \in sweep.entries
    /\ entry' = [entry EXCEPT ![r] = IF @ = "promoted" THEN "expired" ELSE @]
    /\ sweep' = [sweep EXCEPT !.entries = @ \ {r}, !.touched = TRUE]
    /\ UNCHANGED <<event, rows, fulfilledBy, overdue, invited, time, lock, task>>

\* A statement fails: a warning, and on to the next row; a failed listing of
\* the waitlist rows ends the sweep, one of the bookings never starts it.
SweepSkip ==
    /\ \/ /\ sweep.at = "cancel"
          /\ \E b \in sweep.bookings : sweep' = [sweep EXCEPT !.bookings = @ \ {b}]
       \/ /\ sweep.at = "expire"
          /\ \E r \in sweep.entries : sweep' = [sweep EXCEPT !.entries = @ \ {r}]
       \/ /\ sweep.at = "entries"
          /\ sweep' = SweepIdle
    /\ UNCHANGED <<event, rows, queue, time, lock, task>>
-----------------------------------------------------------------------------
(* Failures.                                                               *)

\* Mutant: WithTx returns without the deferred Rollback.
DropWithoutRollback(p) ==
    /\ task[p] # Idle
    /\ Goto(p, Idle)
    /\ UNCHANGED <<event, rows, queue, time, lock, sweep>>

\* A statement fails, a client goes away, a handler panics: the transaction
\* is rolled back, and what the process had read is gone.
Drop(p) ==
    /\ task[p] # Idle
    /\ Goto(p, Idle)
    /\ lock' = IF lock = p THEN Null ELSE lock
    /\ UNCHANGED <<event, rows, queue, time, sweep>>

\* The server stops; started again, it sweeps first.
Crash ==
    /\ task' = [p \in Procs |-> Idle]
    /\ lock' = Null
    /\ sweep' = SweepIdle
    /\ UNCHANGED <<event, rows, queue, time>>
-----------------------------------------------------------------------------
Submit(h) ==
    \/ \E r \in Requests : BookRead(h, r)
    \/ BookBegin(h) \/ BookCount(h) \/ BookSeats(h) \/ BookWaitlist(h)

Claim(h) == ClaimRefused(h) \/ ClaimLock(h) \/ ClaimCommit(h)

PromoteAfterCancel(p) ==
    PromoteRead(p) \/ PromoteNobody(p) \/ PromoteDonation(p) \/ PromoteInvite(p)

Sweep ==
    \/ SweepList \/ SweepPromote \/ SweepPromoted \/ SweepEntries
    \/ \E b \in Bookings : SweepCancel(b)
    \/ \E r \in Requests : SweepExpire(r)

Admin(h) ==
    \/ \E r \in Requests : PickRow(h, r)
    \/ PickEvent(h) \/ AdminFulfil(h) \/ AdminPromote(h)

Next ==
    \/ \E h \in Handlers : Submit(h) \/ Claim(h)
    \/ \E p \in Procs : PromoteAfterCancel(p) \/ SendMail(p)
    \/ "rotate" \in Ops /\ \E h \in Handlers : RotateWaitlist(h)
    \/ "claim" \in Ops /\ \E h \in Handlers, r \in Requests : ClaimRead(h, r)
    \/ "remove" \in Ops /\ \E r \in Requests : RemoveEntry(r)
    \/ "admin" \in Ops /\ \E h \in Handlers : Admin(h)
    \/ "pay" \in Ops /\ \E b \in Bookings : MarkPaid(b)
    \/ "refund" \in Ops /\ \E h \in Handlers, b \in Bookings : RefundRead(h, b)
    \/ \E h \in Handlers : RefundCancel(h) \/ GiveBackCancel(h)
    \/ "giveback" \in Ops /\ \E h \in Handlers, t \in Tickets : GiveBackRead(h, t)
    \/ "door" \in Ops /\ \E t \in Tickets : CheckIn(t) \/ UndoCheckIn(t)
    \/ "purge" \in Ops /\ PurgeTest
    \/ "update" \in Ops /\ \E e \in Settings : UpdateEvent(e)
    \/ "sweep" \in Ops /\ Sweep
    \/ "sweep" \in Ops /\ \E b \in Bookings : Lapse(b)
    \/ "sweep" \in Ops /\ \E r \in Requests : DeadlinePasses(r)
    \/ "sweep" \in Ops /\ "failure" \in Ops /\ SweepSkip
    \/ "failure" \in Ops /\ \E p \in Procs : Drop(p)
    \/ "crash" \in Ops /\ Crash

Spec == Init /\ [][Next]_vars

(***************************************************************************)
(* Fairness: a goroutine that can run is run, and a transaction that waits *)
(* for the row lock gets it (PostgreSQL queues the waiters).  Nobody has   *)
(* to submit, click, cancel or pay.                                        *)
(***************************************************************************)
InFlight(h) ==
    \/ BookBegin(h) \/ BookCount(h) \/ BookSeats(h) \/ BookWaitlist(h)
    \/ Claim(h) \/ RefundCancel(h) \/ GiveBackCancel(h)
    \/ PickEvent(h) \/ AdminFulfil(h) \/ AdminPromote(h)

Fairness ==
    /\ \A h \in Handlers : SF_vars(InFlight(h))
    /\ \A p \in Procs : SF_vars(PromoteAfterCancel(p)) /\ WF_vars(SendMail(p))
    /\ WF_vars("sweep" \in Ops /\ Sweep)

FairSpec == Spec /\ Fairness
-----------------------------------------------------------------------------
(* Safety.                                                                 *)

(***************************************************************************)
(* The pairing LockEventForCapacity + CountActiveSeatsForEvent that        *)
(* waitlist.sql asks for ("so capacity reads are stable"): from the count  *)
(* to the commit of a claim, no transaction of any kind takes a seat, so   *)
(* the seats it was given are still there.                                 *)
(***************************************************************************)
Claiming(h) == Doing(h, "claim") /\ task[h].at = "locked"

LockedCountIsStable ==
    \A h \in Handlers : Claiming(h) =>
        /\ lock = h
        /\ SeatsTaken <= task[h].seats
        /\ task[h].seats + Need[task[h].req] <= task[h].ev.limit

(***************************************************************************)
(* The event row is locked across steps by a claim inside its transaction  *)
(* and by nobody else: whatever fails, panics or crashes, WithTx's         *)
(* deferred Rollback leaves no lock behind that would stop all bookings.   *)
(***************************************************************************)
LockIsReleased == lock # Null => Claiming(lock)

(***************************************************************************)
(* The waitlist never oversells: when a claim, or a promotion of any number *)
(* of waiters at once, takes seats, the event ends up within the limit that *)
(* the transaction went by.                                                 *)
(***************************************************************************)
SeatsWithinLimit(p) ==
    (/\ task[p].op \in {"claim", "promote"} /\ task'[p] # task[p]
     /\ SeatsTaken' > SeatsTaken)
    => SeatsTaken' <= task[p].ev.limit

WaitlistNeverOversells == [][\A p \in Procs : SeatsWithinLimit(p)]_vars

(***************************************************************************)
(* A submission yields at most one booking, however its claim link, the    *)
(* promotions after cancels and the removal of its row race ("exactly one  *)
(* wins", ROADMAP phase 10, Tests).                                        *)
(***************************************************************************)
OneBookingPerRequest ==
    \A r \in Requests :
        Cardinality({b \in {r} \X (1..Copies) : booking[b].status # "none"}) <= 1

(***************************************************************************)
(* A waitlist row is fulfilled exactly when it names a booking, and the    *)
(* booking it names was made from it.                                      *)
(***************************************************************************)
FulfilledNamesBooking ==
    \A r \in Requests :
        /\ entry[r] = "fulfilled" <=> fulfilledBy[r] # Null
        /\ fulfilledBy[r] # Null =>
              /\ fulfilledBy[r][1] = r
              /\ booking[fulfilledBy[r]].status # "none"

(***************************************************************************)
(* Tickets follow their booking through payments, refunds, holder cancels, *)
(* the door and the sweeper: a canceled booking holds no seat, a paid one  *)
(* no unpaid ticket, an unpaid one no ticket the door would let in.        *)
(***************************************************************************)
TicketsFollowBooking ==
    \A b \in Bookings :
        /\ booking[b].status \in {"none", "purged"} =>
              \A t \in TicketsOf(b) : ticket[t] = "none"
        /\ booking[b].status = "canceled" =>
              \A t \in TicketsOf(b) : ticket[t] = "canceled"
        /\ booking[b].status = "booked" =>
              \A t \in TicketsOf(b) : ticket[t] \in {"booked", "canceled"}
        /\ booking[b].status = "paid" =>
              \A t \in TicketsOf(b) : ticket[t] \in {"paid", "checked_in", "canceled"}

(***************************************************************************)
(* What is final stays final: no step revives a canceled booking or        *)
(* ticket, a fulfilled or removed waitlist row, or moves a row back to     *)
(* waiting, and a row keeps its place in the queue.                        *)
(***************************************************************************)
FinalStaysFinal ==
    [][/\ \A b \in Bookings : booking[b].status = "canceled" =>
             booking'[b].status \in {"canceled", "purged"}
       /\ \A t \in Tickets : ticket[t] = "canceled" => ticket'[t] \in {"canceled", "none"}
       /\ \A r \in Requests :
             /\ entry[r] \in {"fulfilled", "removed"} => entry'[r] = entry[r]
             /\ entry[r] # "none" => entry'[r] \in EntryStatus \ {"none"}
             /\ entry[r] \in {"promoted", "expired"} => entry'[r] # "waiting"
             /\ entry[r] # "none" => stamp'[r] = stamp[r]]_vars

(***************************************************************************)
(* A promotion that commits on a donation event leaves nobody behind who   *)
(* still fits, and lets a row overtake an older one only if it asked for   *)
(* fewer seats.                                                            *)
(***************************************************************************)
PromotionIsFairAndFull ==
    [][\A p \in Procs :
         (PromoteNobody(p) /\ task[p].ev.donation) \/ PromoteDonation(p)
         => \A r \in Requests : (entry[r] = "waiting" /\ entry'[r] = "waiting") =>
               /\ SeatsTaken' + Need[r] > task[p].ev.limit
               /\ \A s \in Requests :
                     (/\ entry[s] = "waiting" /\ entry'[s] = "fulfilled"
                      /\ stamp[r] < stamp[s])
                     => Need[s] < Need[r]]_vars

-----------------------------------------------------------------------------
(* Liveness.                                                               *)

(***************************************************************************)
(* The sweeper frees what nobody paid for: a reservation past its expiry   *)
(* does not stay booked (it is paid or canceled).                          *)
(***************************************************************************)
LapsedReservationEnds ==
    \A b \in Bookings :
        (b \in lapsed /\ booking[b].status = "booked") ~> (booking[b].status # "booked")

(***************************************************************************)
(* A promotion that has been started serves the waitlist: a waiter that    *)
(* fits at that moment on a donation event gets its seats, or they are     *)
(* taken by others.                                                        *)
(***************************************************************************)
FitsNow(r) == /\ entry[r] = "waiting" /\ Limited(event)
              /\ Need[r] <= Remaining(event)

PendingPromotionServes ==
    \A r \in Requests :
        ((\E p \in Procs : task[p] = StartPromote) /\ FitsNow(r) /\ event.donation)
            ~> ~FitsNow(r)
-----------------------------------------------------------------------------
(* A statement of the code's comments that it does not keep.               *)

(***************************************************************************)
(* bookings.sql: the locking count is there to "serialize concurrent       *)
(* bookings", or "two parallel bookings could both succeed past the limit".*)
(***************************************************************************)
NoOverselling == Limited(event) => SeatsTaken <= event.limit
=============================================================================
