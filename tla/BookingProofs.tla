---------------------------- MODULE BookingProofs ----------------------------
(***************************************************************************)
(* Theorems about Booking for any submissions, handlers and settings.      *)
(***************************************************************************)
EXTENDS Booking, AllocationProofs

(* Finiteness.                                                             *)

(***************************************************************************)
(* A booking has as many tickets as its submission has participants.       *)
(***************************************************************************)
LEMMA TicketsOfCount ==
    ASSUME NEW b \in Bookings
    PROVE  IsFiniteSet(TicketsOf(b)) /\ Cardinality(TicketsOf(b)) = Need[b[1]]
<1>1. Need[b[1]] \in Nat
  BY BookingAssumption DEF Bookings
<1>2. IsFiniteSet({b}) /\ Cardinality({b}) = 1
  BY FS_Singleton
<1>3. IsFiniteSet(1..Need[b[1]]) /\ Cardinality(1..Need[b[1]]) = Need[b[1]]
  <2>1. 1 \in Int /\ Need[b[1]] \in Int
    BY <1>1
  <2>2. /\ IsFiniteSet(1..Need[b[1]])
        /\ Cardinality(1..Need[b[1]])
             = IF 1 > Need[b[1]] THEN 0 ELSE Need[b[1]] - 1 + 1
    BY <2>1, FS_Interval
  <2> QED BY <1>1, <2>2
<1>4. IsFiniteSet(TicketsOf(b)) /\ Cardinality(TicketsOf(b)) = 1 * Need[b[1]]
  <2> DEFINE S == {b}
             T == 1..Need[b[1]]
  <2>1. IsFiniteSet(S) /\ IsFiniteSet(T)
    BY <1>2, <1>3
  <2>2. IsFiniteSet(S \X T) /\ Cardinality(S \X T) = Cardinality(S) * Cardinality(T)
    <3> HIDE DEF S, T
    <3> QED BY <2>1, FS_Product
  <2>3. TicketsOf(b) = S \X T
    BY DEF TicketsOf
  <2> HIDE DEF S, T
  <2> QED BY <1>2, <1>3, <2>2, <2>3 DEF S, T
<1> QED BY <1>1, <1>4

(***************************************************************************)
(* There are finitely many bookings and tickets, so seats can be counted.  *)
(***************************************************************************)
LEMMA TicketsFinite == IsFiniteSet(Bookings) /\ IsFiniteSet(Tickets)
<1> DEFINE of == [b \in Bookings |-> TicketsOf(b)]
           S  == {TicketsOf(b) : b \in Bookings}
<1>1. IsFiniteSet(Bookings)
  <2>1. IsFiniteSet(Requests) /\ IsFiniteSet(1..Copies)
    BY BookingAssumption, FS_Interval
  <2> QED BY <2>1, FS_Product DEF Bookings
<1>2. IsFiniteSet(S)
  <2>1. of \in Surjection(Bookings, S)
    BY DEF Surjection
  <2> QED BY <1>1, <2>1, FS_Surjection
<1>3. \A s \in S : IsFiniteSet(s)
  BY TicketsOfCount
<1> QED BY <1>1, <1>2, <1>3, FS_UNION DEF Tickets

(***************************************************************************)
(* CountActiveSeatsForEvent is a natural number.                           *)
(***************************************************************************)
LEMMA SeatsTakenType == IsFiniteSet(ActiveTickets) /\ SeatsTaken \in Nat
<1>1. ActiveTickets \subseteq Tickets
  BY DEF ActiveTickets
<1>2. IsFiniteSet(ActiveTickets)
  BY <1>1, TicketsFinite, FS_Subset
<1> QED BY <1>2, FS_CardinalityType DEF SeatsTaken
-----------------------------------------------------------------------------
(* Type correctness.                                                       *)

(***************************************************************************)
(* What a process is doing tells what it has read.                         *)
(***************************************************************************)
LEMMA TaskKinds ==
    ASSUME NEW t \in Task
    PROVE  /\ t.op = "book" => t \in BookTask
           /\ t.op = "claim" => t \in ClaimTask
           /\ t.op = "pick" => t \in PickTask
           /\ t.op = "admin" => t \in AdminTask
           /\ t.op = "refund" => t \in RefundTask
           /\ t.op = "giveback" => t \in GiveBackTask
           /\ t.op = "promote" => t \in PromoteTask
           /\ t.op = "mail" => t \in MailTask
BY DEF Task, Idle, BookTask, ClaimTask, PickTask, AdminTask, RefundTask,
       GiveBackTask, PromoteTask, MailTask

(***************************************************************************)
(* A process that goes on to a task leaves every task well typed.          *)
(***************************************************************************)
LEMMA GotoType ==
    ASSUME task \in [Procs -> Task], NEW p \in Procs, NEW t \in Task, Goto(p, t)
    PROVE  task' \in [Procs -> Task]
BY DEF Goto

(***************************************************************************)
(* HTTP handlers and promotion goroutines are processes.                   *)
(***************************************************************************)
LEMMA HandlersAreProcs == Handlers \subseteq Procs
BY DEF Procs

(***************************************************************************)
(* CreateBooking makes a row that did not exist, of the submission it is for.*)
(***************************************************************************)
LEMMA FreshBooking ==
    ASSUME NEW r \in Requests, Fresh(r) # {}
    PROVE  /\ NewBooking(r) \in Bookings
           /\ NewBooking(r)[1] = r
           /\ booking[NewBooking(r)].status = "none"
<1>1. NewBooking(r) \in Fresh(r)
  BY DEF NewBooking
<1> QED BY <1>1 DEF Fresh, Bookings

(***************************************************************************)
(* CreateBooking and CreateTicket keep the types of their tables.          *)
(***************************************************************************)
LEMMA CreateBookingsType ==
    ASSUME TypeOK, NEW B, NEW status \in {"booked", "paid"}, NEW method \in Methods,
           CreateBookings(B, status, method)
    PROVE  /\ booking' \in [Bookings -> [status: BookingStatus, method: Methods]]
           /\ ticket' \in [Tickets -> TicketStatus]
BY DEF TypeOK, CreateBookings, BookingStatus, TicketStatus

(***************************************************************************)
(* CancelBookingAndTickets keeps the types of its tables.                  *)
(***************************************************************************)
LEMMA CancelType ==
    ASSUME TypeOK, NEW b \in Bookings, CancelBookingAndTickets(b)
    PROVE  /\ booking' \in [Bookings -> [status: BookingStatus, method: Methods]]
           /\ ticket' \in [Tickets -> TicketStatus]
BY DEF TypeOK, CancelBookingAndTickets, BookingStatus, TicketStatus

(***************************************************************************)
(* MarkWaitlistFulfilled keeps the types of the waitlist.                  *)
(***************************************************************************)
LEMMA MarkFulfilledType ==
    ASSUME TypeOK, NEW R \in SUBSET Requests, \A r \in R : Fresh(r) # {},
           MarkFulfilled(R)
    PROVE  /\ entry' \in [Requests -> EntryStatus]
           /\ fulfilledBy' \in [Requests -> Bookings \cup {Null}]
BY FreshBooking DEF TypeOK, MarkFulfilled, EntryStatus

(***************************************************************************)
(* HandleBooking keeps the types.                                          *)
(***************************************************************************)
LEMMA SubmitType ==
    ASSUME TypeOK, NEW h \in Handlers, Submit(h)
    PROVE  TypeOK'
<1> USE HandlersAreProcs DEF rows, queue, time
<1>1. ASSUME NEW r \in Requests, BookRead(h, r) PROVE TypeOK'
  <2>1. [op |-> "book", at |-> "read", req |-> r, ev |-> event, seats |-> 0] \in Task
    BY DEF TypeOK, Task, BookTask
  <2>2. task' \in [Procs -> Task]
    BY <1>1, <2>1, GotoType DEF BookRead, TypeOK
  <2> QED BY <1>1, <2>2 DEF BookRead, TypeOK
<1>2. CASE BookBegin(h)
  <2>1. task[h] \in BookTask
    BY <1>2, TaskKinds DEF BookBegin, Doing, TypeOK
  <2>2. [task[h] EXCEPT !.at = "begun"] \in Task
    BY <2>1 DEF BookTask, Task
  <2>3. task' \in [Procs -> Task]
    BY <1>2, <2>2, GotoType DEF BookBegin, TypeOK
  <2>4. /\ stamp' = [stamp EXCEPT ![task[h].req] = clock + 1]
        /\ clock' = clock + 1
    BY <1>2 DEF BookBegin
  <2>5. stamp' \in [Requests -> Nat] /\ clock' \in Nat
    <3>1. clock + 1 \in Nat /\ stamp \in [Requests -> Nat]
      BY DEF TypeOK
    <3> HIDE DEF time
    <3> QED BY <2>4, <3>1, Zenon
  <2> QED BY <1>2, <2>3, <2>5 DEF BookBegin, TypeOK
<1>3. CASE BookCount(h)
  <2>1. task[h] \in BookTask
    BY <1>3, TaskKinds DEF BookCount, Doing, TypeOK
  <2>2. [task[h] EXCEPT !.at = "counted", !.seats = SeatsTaken] \in Task
    BY <2>1, SeatsTakenType DEF BookTask, Task
  <2>3. task' \in [Procs -> Task]
    BY <1>3, <2>2, GotoType DEF BookCount, TypeOK
  <2> QED BY <1>3, <2>3 DEF BookCount, TypeOK
<1>4. CASE BookSeats(h)
  <2> DEFINE r  == task[h].req
             ev == task[h].ev
             status == IF Immediate(ev) THEN "paid" ELSE "booked"
  <2>1. /\ CreateBookings({NewBooking(r)}, status, Method(ev))
        /\ status \in {"booked", "paid"} /\ Method(ev) \in Methods
    BY <1>4 DEF BookSeats, Method, Methods
  <2>2. /\ booking' \in [Bookings -> [status: BookingStatus, method: Methods]]
        /\ ticket' \in [Tickets -> TicketStatus]
    BY <2>1, CreateBookingsType
  <2>3. task' \in [Procs -> Task]
    BY <1>4, GotoType DEF BookSeats, TypeOK, Task
  <2> QED BY <1>4, <2>2, <2>3 DEF BookSeats, TypeOK
<1>5. CASE BookWaitlist(h)
  <2>1. task' \in [Procs -> Task]
    BY <1>5, GotoType DEF BookWaitlist, TypeOK, Task
  <2>2. entry' \in [Requests -> EntryStatus]
    BY <1>5 DEF BookWaitlist, TypeOK, EntryStatus
  <2> QED BY <1>5, <2>1, <2>2 DEF BookWaitlist, TypeOK
<1> QED BY <1>1, <1>2, <1>3, <1>4, <1>5 DEF Submit

(***************************************************************************)
(* HandleWaitlistClaim keeps the types.                                    *)
(***************************************************************************)
LEMMA ClaimType ==
    ASSUME TypeOK, NEW h \in Handlers,
           Claim(h) \/ \E r \in Requests : ClaimRead(h, r)
    PROVE  TypeOK'
<1> USE HandlersAreProcs DEF rows, queue, time
<1>1. ASSUME NEW r \in Requests, ClaimRead(h, r) PROVE TypeOK'
  <2>1. [op |-> "claim", at |-> "read", req |-> r, ev |-> event, seats |-> 0] \in Task
    BY DEF TypeOK, Task, ClaimTask
  <2>2. task' \in [Procs -> Task]
    BY <1>1, <2>1, GotoType DEF ClaimRead, TypeOK
  <2> QED BY <1>1, <2>2 DEF ClaimRead, TypeOK
<1>2. CASE ClaimRefused(h)
  <2>1. task' \in [Procs -> Task]
    BY <1>2, GotoType DEF ClaimRefused, TypeOK, Task
  <2> QED BY <1>2, <2>1 DEF ClaimRefused, TypeOK
<1>3. CASE ClaimLock(h)
  <2>1. task[h] \in ClaimTask
    BY <1>3, TaskKinds DEF ClaimLock, Doing, TypeOK
  <2>2. [task[h] EXCEPT !.at = "locked", !.seats = SeatsTaken] \in Task
    BY <2>1, SeatsTakenType DEF ClaimTask, Task
  <2>3. task' \in [Procs -> Task]
    BY <1>3, <2>2, GotoType DEF ClaimLock, TypeOK
  <2> QED BY <1>3, <2>3 DEF ClaimLock, TypeOK
<1>4. CASE ClaimCommit(h)
  <2> DEFINE r == task[h].req
  <2>1. r \in Requests
    BY <1>4, TaskKinds DEF ClaimCommit, Doing, TypeOK, ClaimTask
  <2>2. /\ booking' \in [Bookings -> [status: BookingStatus, method: Methods]]
        /\ ticket' \in [Tickets -> TicketStatus]
    BY <1>4, CreateBookingsType DEF ClaimCommit, Methods
  <2>3. /\ entry' \in [Requests -> EntryStatus]
        /\ fulfilledBy' \in [Requests -> Bookings \cup {Null}]
    BY <1>4, <2>1, MarkFulfilledType DEF ClaimCommit
  <2>4. task' \in [Procs -> Task]
    BY <1>4, GotoType DEF ClaimCommit, TypeOK, Task
  <2> QED BY <1>4, <2>2, <2>3, <2>4 DEF ClaimCommit, TypeOK
<1> QED BY <1>1, <1>2, <1>3, <1>4 DEF Claim

(***************************************************************************)
(* PromoteAfterCancel and its mails keep the types.                        *)
(***************************************************************************)
LEMMA PromoteType ==
    ASSUME TypeOK, NEW p \in Procs, PromoteAfterCancel(p) \/ SendMail(p)
    PROVE  TypeOK'
<1> USE DEF rows, queue, time
<1>1. CASE PromoteRead(p)
  <2>1. [op |-> "promote", at |-> "read", ev |-> event] \in Task /\ Idle \in Task
    BY DEF TypeOK, Task, PromoteTask
  <2>2. task' \in [Procs -> Task]
    BY <1>1, <2>1, GotoType DEF PromoteRead, TypeOK
  <2> QED BY <1>1, <2>2 DEF PromoteRead, TypeOK
<1>2. CASE PromoteNobody(p)
  <2>1. task' \in [Procs -> Task]
    BY <1>2, GotoType DEF PromoteNobody, TypeOK, Task
  <2> QED BY <1>2, <2>1 DEF PromoteNobody, TypeOK
<1>3. CASE PromoteDonation(p)
  <2>1. PICK P \in SUBSET Waiting :
            /\ \A r \in P : Fresh(r) # {}
            /\ CreateBookings({NewBooking(r) : r \in P}, "paid", "donation")
            /\ MarkFulfilled(P)
    BY <1>3 DEF PromoteDonation
  <2>2. P \in SUBSET Requests
    BY DEF Waiting
  <2>3. /\ booking' \in [Bookings -> [status: BookingStatus, method: Methods]]
        /\ ticket' \in [Tickets -> TicketStatus]
    BY <2>1, CreateBookingsType DEF Methods
  <2>4. /\ entry' \in [Requests -> EntryStatus]
        /\ fulfilledBy' \in [Requests -> Bookings \cup {Null}]
    BY <2>1, <2>2, MarkFulfilledType
  <2>5. task' \in [Procs -> Task]
    BY <1>3, GotoType DEF PromoteDonation, TypeOK, Task
  <2> QED BY <1>3, <2>3, <2>4, <2>5 DEF PromoteDonation, TypeOK
<1>4. CASE PromoteInvite(p)
  <2> DEFINE t == [op |-> "mail",
                   to |-> {r \in Waiting : Need[r] <= Remaining(task[p].ev)}]
  <2>1. t \in Task
    BY DEF Task, MailTask, Waiting
  <2>2. Goto(p, t)
    BY <1>4 DEF PromoteInvite
  <2>3. task' \in [Procs -> Task]
    BY <2>1, <2>2, GotoType DEF TypeOK
  <2> QED BY <1>4, <2>3 DEF PromoteInvite, TypeOK
<1>5. CASE SendMail(p)
  <2>1. task[p].to \in SUBSET Requests
    BY <1>5, TaskKinds DEF SendMail, Doing, TypeOK, MailTask
  <2>2. invited' \subseteq Requests
    BY <1>5, <2>1 DEF SendMail, TypeOK
  <2>3. task' \in [Procs -> Task]
    BY <1>5, GotoType DEF SendMail, TypeOK, Task
  <2> QED BY <1>5, <2>2, <2>3 DEF SendMail, TypeOK
<1> QED BY <1>1, <1>2, <1>3, <1>4, <1>5 DEF PromoteAfterCancel

(***************************************************************************)
(* The admin's promotion of one row keeps the types.                       *)
(***************************************************************************)
LEMMA AdminType ==
    ASSUME TypeOK, NEW h \in Handlers, Admin(h)
    PROVE  TypeOK'
<1> USE HandlersAreProcs DEF rows, queue, time
<1>1. ASSUME NEW r \in Requests, PickRow(h, r) PROVE TypeOK'
  <2>1. [op |-> "pick", req |-> r] \in Task
    BY DEF Task, PickTask
  <2>2. task' \in [Procs -> Task]
    BY <1>1, <2>1, GotoType DEF PickRow, TypeOK
  <2> QED BY <1>1, <2>2 DEF PickRow, TypeOK
<1>2. CASE PickEvent(h)
  <2>1. task[h].req \in Requests
    BY <1>2, TaskKinds DEF PickEvent, Doing, TypeOK, PickTask
  <2>2. [op |-> "admin", req |-> task[h].req, ev |-> event] \in Task
    BY <2>1 DEF TypeOK, Task, AdminTask
  <2>3. task' \in [Procs -> Task]
    BY <1>2, <2>2, GotoType DEF PickEvent, TypeOK
  <2> QED BY <1>2, <2>3 DEF PickEvent, TypeOK
<1>3. CASE AdminFulfil(h)
  <2>1. task[h].req \in Requests
    BY <1>3, TaskKinds DEF AdminFulfil, Doing, TypeOK, AdminTask
  <2>2. /\ booking' \in [Bookings -> [status: BookingStatus, method: Methods]]
        /\ ticket' \in [Tickets -> TicketStatus]
    BY <1>3, CreateBookingsType DEF AdminFulfil, Methods
  <2>3. /\ entry' \in [Requests -> EntryStatus]
        /\ fulfilledBy' \in [Requests -> Bookings \cup {Null}]
    BY <1>3, <2>1, MarkFulfilledType DEF AdminFulfil
  <2>4. task' \in [Procs -> Task]
    BY <1>3, GotoType DEF AdminFulfil, TypeOK, Task
  <2> QED BY <1>3, <2>2, <2>3, <2>4 DEF AdminFulfil, TypeOK
<1>4. CASE AdminPromote(h)
  <2>1. task[h].req \in Requests
    BY <1>4, TaskKinds DEF AdminPromote, Doing, TypeOK, AdminTask
  <2>2. [op |-> "mail", to |-> {task[h].req}] \in Task
    BY <2>1 DEF Task, MailTask
  <2>3. task' \in [Procs -> Task]
    BY <1>4, <2>2, GotoType DEF AdminPromote, TypeOK
  <2>4. entry' \in [Requests -> EntryStatus]
    BY <1>4 DEF AdminPromote, TypeOK, EntryStatus
  <2> QED BY <1>4, <2>3, <2>4 DEF AdminPromote, TypeOK
<1> QED BY <1>1, <1>2, <1>3, <1>4 DEF Admin

(***************************************************************************)
(* Payments, refunds and cancels keep the types.                           *)
(***************************************************************************)
LEMMA PaymentType ==
    ASSUME TypeOK,
           \/ \E b \in Bookings : MarkPaid(b)
           \/ \E h \in Handlers : \/ \E b \in Bookings : RefundRead(h, b)
                                  \/ \E t \in Tickets : GiveBackRead(h, t)
                                  \/ RefundCancel(h) \/ GiveBackCancel(h)
    PROVE  TypeOK'
<1> USE HandlersAreProcs DEF rows, queue, time
<1> StartPromote \in Task
  BY DEF StartPromote, Task, PromoteTask
<1>1. ASSUME NEW b \in Bookings, MarkPaid(b) PROVE TypeOK'
  <2>1. booking' \in [Bookings -> [status: BookingStatus, method: Methods]]
    BY <1>1 DEF MarkPaid, TypeOK, BookingStatus, Methods
  <2>2. ticket' \in [Tickets -> TicketStatus]
    BY <1>1 DEF MarkPaid, TypeOK, TicketStatus
  <2> QED BY <1>1, <2>1, <2>2 DEF MarkPaid, TypeOK
<1>2. ASSUME NEW h \in Handlers, NEW b \in Bookings, RefundRead(h, b) PROVE TypeOK'
  <2>1. [op |-> "refund", of |-> b] \in Task
    BY DEF Task, RefundTask
  <2>2. task' \in [Procs -> Task]
    BY <1>2, <2>1, GotoType DEF RefundRead, TypeOK
  <2> QED BY <1>2, <2>2 DEF RefundRead, TypeOK
<1>3. ASSUME NEW h \in Handlers, NEW t \in Tickets, GiveBackRead(h, t) PROVE TypeOK'
  <2>1. [op |-> "giveback", of |-> t] \in Task
    BY DEF Task, GiveBackTask
  <2>2. task' \in [Procs -> Task]
    BY <1>3, <2>1, GotoType DEF GiveBackRead, TypeOK
  <2> QED BY <1>3, <2>2 DEF GiveBackRead, TypeOK
<1>4. ASSUME NEW h \in Handlers, RefundCancel(h) PROVE TypeOK'
  <2>1. task[h].of \in Bookings
    BY <1>4, TaskKinds DEF RefundCancel, Doing, TypeOK, RefundTask
  <2>2. /\ booking' \in [Bookings -> [status: BookingStatus, method: Methods]]
        /\ ticket' \in [Tickets -> TicketStatus]
    BY <1>4, <2>1, CancelType DEF RefundCancel
  <2>3. task' \in [Procs -> Task]
    BY <1>4, GotoType DEF RefundCancel, TypeOK
  <2> QED BY <1>4, <2>2, <2>3 DEF RefundCancel, TypeOK
<1>5. ASSUME NEW h \in Handlers, GiveBackCancel(h) PROVE TypeOK'
  <2>1. ticket' \in [Tickets -> TicketStatus]
    BY <1>5 DEF GiveBackCancel, TypeOK, TicketStatus
  <2>2. task' \in [Procs -> Task]
    BY <1>5, GotoType DEF GiveBackCancel, TypeOK
  <2> QED BY <1>5, <2>1, <2>2 DEF GiveBackCancel, TypeOK
<1> QED BY <1>1, <1>2, <1>3, <1>4, <1>5

(***************************************************************************)
(* So do the door, the organizer and the passing of time.                  *)
(***************************************************************************)
LEMMA EnvironmentType ==
    ASSUME TypeOK,
           \/ \E h \in Handlers : RotateWaitlist(h)
           \/ \E r \in Requests : RemoveEntry(r) \/ DeadlinePasses(r)
           \/ \E t \in Tickets : CheckIn(t) \/ UndoCheckIn(t)
           \/ PurgeTest
           \/ \E e \in Settings : UpdateEvent(e)
           \/ \E b \in Bookings : Lapse(b)
    PROVE  TypeOK'
<1> USE HandlersAreProcs DEF rows, queue, time
<1>1. ASSUME NEW h \in Handlers, RotateWaitlist(h) PROVE TypeOK'
  <2>1. StartPromote \in Task
    BY DEF StartPromote, Task, PromoteTask
  <2>2. task' \in [Procs -> Task]
    BY <1>1, <2>1, GotoType DEF RotateWaitlist, TypeOK
  <2> QED BY <1>1, <2>2 DEF RotateWaitlist, TypeOK
<1>2. ASSUME NEW r \in Requests, RemoveEntry(r) PROVE TypeOK'
  BY <1>2 DEF RemoveEntry, TypeOK, EntryStatus
<1>3. ASSUME NEW r \in Requests, DeadlinePasses(r) PROVE TypeOK'
  BY <1>3 DEF DeadlinePasses, TypeOK
<1>4. ASSUME NEW t \in Tickets, CheckIn(t) \/ UndoCheckIn(t) PROVE TypeOK'
  BY <1>4 DEF CheckIn, UndoCheckIn, TypeOK, TicketStatus
<1>5. CASE PurgeTest
  <2>1. booking' \in [Bookings -> [status: BookingStatus, method: Methods]]
    BY <1>5 DEF PurgeTest, TypeOK, BookingStatus
  <2>2. ticket' \in [Tickets -> TicketStatus]
    BY <1>5 DEF PurgeTest, TypeOK, TicketStatus
  <2> QED BY <1>5, <2>1, <2>2 DEF PurgeTest, TypeOK
<1>6. ASSUME NEW e \in Settings, UpdateEvent(e) PROVE TypeOK'
  BY <1>6 DEF UpdateEvent, TypeOK
<1>7. ASSUME NEW b \in Bookings, Lapse(b) PROVE TypeOK'
  BY <1>7 DEF Lapse, TypeOK
<1> QED BY <1>1, <1>2, <1>3, <1>4, <1>5, <1>6, <1>7

(***************************************************************************)
(* The sweeper keeps the types, whatever fails on its way.                 *)
(***************************************************************************)
LEMMA SweepType ==
    ASSUME TypeOK, Sweep \/ SweepSkip
    PROVE  TypeOK'
<1> USE DEF rows, queue, time
<1>1. CASE SweepList
  <2>1. ExpiredUnpaid \subseteq Bookings
    BY DEF ExpiredUnpaid, TypeOK
  <2> QED BY <1>1, <2>1 DEF SweepList, TypeOK
<1>2. CASE SweepPromote
  <2>1. StartPromote \in Task
    BY DEF StartPromote, Task, PromoteTask
  <2>2. task' \in [Procs -> Task]
    BY <1>2, <2>1 DEF SweepPromote, TypeOK, Procs
  <2> QED BY <1>2, <2>2 DEF SweepPromote, TypeOK
<1>3. CASE SweepPromoted
  BY <1>3 DEF SweepPromoted, TypeOK
<1>4. CASE SweepEntries
  <2>1. ExpiredPromoted \subseteq Requests
    BY DEF ExpiredPromoted, TypeOK
  <2> QED BY <1>4, <2>1 DEF SweepEntries, TypeOK
<1>5. ASSUME NEW b \in Bookings, SweepCancel(b) PROVE TypeOK'
  <2>1. /\ booking' \in [Bookings -> [status: BookingStatus, method: Methods]]
        /\ ticket' \in [Tickets -> TicketStatus]
    BY <1>5, CancelType DEF SweepCancel
  <2> QED BY <1>5, <2>1 DEF SweepCancel, TypeOK
<1>6. ASSUME NEW r \in Requests, SweepExpire(r) PROVE TypeOK'
  BY <1>6 DEF SweepExpire, TypeOK, EntryStatus
<1>7. CASE SweepSkip
  <2> DEFINE T == [at: {"idle", "cancel", "promote", "entries", "expire", "repromote"},
                   bookings: SUBSET Bookings, entries: SUBSET Requests,
                   touched: BOOLEAN]
  <2>1. SweepIdle \in T
    BY DEF SweepIdle
  <2>2. ASSUME NEW b, sweep' = [sweep EXCEPT !.bookings = @ \ {b}] PROVE sweep' \in T
    BY <2>2 DEF TypeOK
  <2>3. ASSUME NEW r, sweep' = [sweep EXCEPT !.entries = @ \ {r}] PROVE sweep' \in T
    BY <2>3 DEF TypeOK
  <2>4. sweep' \in T
    <3> HIDE DEF T
    <3> QED BY <1>7, <2>1, <2>2, <2>3 DEF SweepSkip
  <2> QED BY <1>7, <2>4 DEF SweepSkip, TypeOK
<1> QED BY <1>1, <1>2, <1>3, <1>4, <1>5, <1>6, <1>7 DEF Sweep

(***************************************************************************)
(* So do rollbacks and crashes.                                            *)
(***************************************************************************)
LEMMA FailureType ==
    ASSUME TypeOK, Crash \/ \E p \in Procs : Drop(p)
    PROVE  TypeOK'
<1> USE DEF rows, queue, time
<1> Idle \in Task
  BY DEF Task
<1>1. CASE Crash
  BY <1>1 DEF Crash, SweepIdle, TypeOK
<1>2. ASSUME NEW p \in Procs, Drop(p) PROVE TypeOK'
  <2>1. task' \in [Procs -> Task]
    BY <1>2, GotoType DEF Drop, TypeOK
  <2> QED BY <1>2, <2>1 DEF Drop, TypeOK
<1> QED BY <1>1, <1>2

(***************************************************************************)
(* Every step keeps the types.                                             *)
(***************************************************************************)
LEMMA TypeStep == TypeOK /\ [Next]_vars => TypeOK'
<1> SUFFICES ASSUME TypeOK, [Next]_vars PROVE TypeOK'
  OBVIOUS
<1>1. CASE UNCHANGED vars
  BY <1>1 DEF TypeOK, vars, rows, queue, time
<1>2. CASE Next
  BY <1>2, SubmitType, ClaimType, PromoteType, AdminType, PaymentType,
     EnvironmentType, SweepType, FailureType DEF Next
<1> QED BY <1>1, <1>2

(***************************************************************************)
(* In every reachable state every row, every process and the sweeper's     *)
(* loop are in one of the states the code has for them.                    *)
(***************************************************************************)
THEOREM TypeCorrect == Spec => []TypeOK
<1>1. Init => TypeOK
  BY DEF Init, TypeOK, BookingStatus, Methods, TicketStatus, EntryStatus,
         Task, SweepIdle
<1> QED BY <1>1, TypeStep, PTL DEF Spec
-----------------------------------------------------------------------------
(* The inductive invariant behind the seat properties.                     *)

\* A transaction that goes by the limit has seen one.
LimitSeen(t) ==
    (t.op = "claim" /\ t.at = "locked") \/ (t.op = "promote" /\ t.at = "read")
        => Limited(t.ev)

LimitsSeen == \A p \in Procs : LimitSeen(task[p])

\* No two rows were created at the same time, and no row before its transaction.
StampOrder ==
    /\ \A r, s \in Requests : (stamp[r] = stamp[s] /\ stamp[r] # 0) => r = s
    /\ \A r \in Requests : stamp[r] <= clock
    /\ \A r \in Requests : entry[r] # "none" => stamp[r] # 0
    /\ \A h \in Handlers :
          (Doing(h, "book") /\ task[h].at # "read") => stamp[task[h].req] # 0

SeatInv == /\ TypeOK /\ LimitsSeen /\ StampOrder
           /\ LockIsReleased /\ LockedCountIsStable

(***************************************************************************)
(* Seats are counted by tickets: fewer active tickets, fewer seats taken.  *)
(***************************************************************************)
LEMMA FewerSeats ==
    ASSUME ActiveTickets' \subseteq ActiveTickets
    PROVE  SeatsTaken' <= SeatsTaken
<1>1. Cardinality(ActiveTickets') <= Cardinality(ActiveTickets)
  BY SeatsTakenType, FS_Subset
<1> QED BY <1>1 DEF SeatsTaken

(***************************************************************************)
(* A step that adds tickets for S at most takes as many seats as S has.    *)
(***************************************************************************)
LEMMA MoreSeats ==
    ASSUME NEW S, IsFiniteSet(S), ActiveTickets' \subseteq ActiveTickets \cup S
    PROVE  SeatsTaken' <= SeatsTaken + Cardinality(S)
<1> DEFINE A == ActiveTickets
           B == ActiveTickets'
<1>1. IsFiniteSet(A) /\ Cardinality(A) \in Nat /\ Cardinality(S) \in Nat
  BY SeatsTakenType, FS_CardinalityType DEF SeatsTaken
<1>2. B \subseteq A \cup S
  OBVIOUS
<1>3. SeatsTaken = Cardinality(A) /\ SeatsTaken' = Cardinality(B)
  BY DEF SeatsTaken
<1> HIDE DEF A, B
<1>4. /\ IsFiniteSet(A \cup S)
      /\ Cardinality(A \cup S) = Cardinality(A) + Cardinality(S) - Cardinality(A \cap S)
  BY <1>1, FS_Union
<1>5. Cardinality(A \cap S) \in Nat
  BY <1>1, FS_Intersection, FS_CardinalityType
<1>6. Cardinality(B) <= Cardinality(A \cup S) /\ Cardinality(B) \in Nat
  BY <1>2, <1>4, FS_Subset, FS_CardinalityType
<1> QED BY <1>1, <1>3, <1>4, <1>5, <1>6

(***************************************************************************)
(* CreateBooking takes the seats of its own tickets and no others.         *)
(***************************************************************************)
LEMMA CreateBookingsSeats ==
    ASSUME NEW B \in SUBSET Bookings, NEW status, NEW method,
           CreateBookings(B, status, method)
    PROVE  ActiveTickets' \subseteq ActiveTickets \cup UNION {TicketsOf(b) : b \in B}
<1> SUFFICES ASSUME NEW t \in Tickets, ticket'[t] \in SeatHolding, t \notin ActiveTickets
             PROVE  \E b \in B : t \in TicketsOf(b)
  BY DEF ActiveTickets
<1>1. PICK b \in Bookings : t \in TicketsOf(b)
  BY DEF Tickets
<1>2. t[1] = b
  BY <1>1 DEF TicketsOf
<1>3. ticket'[t] # ticket[t]
  BY DEF ActiveTickets
<1>4. t[1] \in B
  BY <1>3 DEF CreateBookings
<1> QED BY <1>1, <1>2, <1>4

(***************************************************************************)
(* CancelBookingAndTickets takes no seat.                                  *)
(***************************************************************************)
LEMMA CancelSeats ==
    ASSUME NEW b, CancelBookingAndTickets(b)
    PROVE  ActiveTickets' \subseteq ActiveTickets
BY DEF CancelBookingAndTickets, ActiveTickets, SeatHolding
-----------------------------------------------------------------------------
(* The lock.                                                               *)

(***************************************************************************)
(* A step that leaves the lock and the claims holding it alone, and takes  *)
(* a seat only if the event row is free, keeps the lock discipline.        *)
(***************************************************************************)
LEMMA LockKept ==
    ASSUME TypeOK, LockIsReleased, LockedCountIsStable,
           lock' = lock,
           ActiveTickets' \subseteq ActiveTickets \/ LockFree,
           \A h \in Handlers : /\ Claiming(h)' <=> Claiming(h)
                               /\ Claiming(h) => task'[h] = task[h]
    PROVE  LockIsReleased' /\ LockedCountIsStable'
<1>1. LockIsReleased'
  BY DEF LockIsReleased, TypeOK
<1>2. ASSUME NEW h \in Handlers, Claiming(h)'
      PROVE  (/\ lock = h
              /\ SeatsTaken <= task[h].seats
              /\ task[h].seats + Need[task[h].req] <= task[h].ev.limit)'
  <2>1. /\ Claiming(h) /\ task'[h] = task[h] /\ lock = h
        /\ SeatsTaken <= task[h].seats
        /\ task[h].seats + Need[task[h].req] <= task[h].ev.limit
    BY <1>2 DEF LockedCountIsStable
  <2>2. lock # Null
    BY <2>1, HandlersAreProcs, BookingAssumption
  <2>3. SeatsTaken' <= SeatsTaken
    BY <2>2, FewerSeats DEF LockFree
  <2>4. SeatsTaken \in Nat /\ SeatsTaken' \in Nat
    <3>1. ActiveTickets' \subseteq ActiveTickets
      BY <2>2 DEF LockFree
    <3> QED BY <3>1, SeatsTakenType, FS_Subset, FS_CardinalityType DEF SeatsTaken
  <2>5. task[h].seats \in Nat
    BY <2>1, HandlersAreProcs, TaskKinds DEF Claiming, Doing, TypeOK, ClaimTask
  <2> QED BY <2>1, <2>3, <2>4, <2>5
<1>3. LockedCountIsStable'
  BY <1>2 DEF LockedCountIsStable
<1> QED BY <1>1, <1>3

(***************************************************************************)
(* Going on to a task that is no claim under the lock, from one that is    *)
(* none either, leaves the other processes' claims alone.                  *)
(***************************************************************************)
LEMMA GotoKeepsClaims ==
    ASSUME task \in [Procs -> Task], NEW p \in Procs, NEW t, Goto(p, t),
           ~ Claiming(p), ~ (t.op = "claim" /\ t.at = "locked")
    PROVE  \A h \in Handlers : /\ Claiming(h)' <=> Claiming(h)
                               /\ Claiming(h) => task'[h] = task[h]
BY HandlersAreProcs DEF Goto, Claiming, Doing

(***************************************************************************)
(* A step that changes no task leaves the claims under the lock alone.     *)
(***************************************************************************)
LEMMA TasksKeepClaims ==
    ASSUME task' = task
    PROVE  \A h \in Handlers : /\ Claiming(h)' <=> Claiming(h)
                               /\ Claiming(h) => task'[h] = task[h]
BY DEF Claiming, Doing

(***************************************************************************)
(* The steps of HandleBooking.                                             *)
(***************************************************************************)
LEMMA SubmitLock ==
    ASSUME TypeOK, LockIsReleased, LockedCountIsStable, NEW h \in Handlers, Submit(h)
    PROVE  LockIsReleased' /\ LockedCountIsStable'
<1> USE HandlersAreProcs DEF rows, queue, time
<1> task \in [Procs -> Task]
  BY DEF TypeOK
<1>1. ASSUME NEW r \in Requests, BookRead(h, r)
      PROVE  LockIsReleased' /\ LockedCountIsStable'
  <2>1. \A g \in Handlers : /\ Claiming(g)' <=> Claiming(g)
                            /\ Claiming(g) => task'[g] = task[g]
    BY <1>1, GotoKeepsClaims DEF BookRead, Free, Idle, Claiming, Doing
  <2> QED BY <1>1, <2>1, LockKept DEF BookRead, ActiveTickets
<1>2. CASE BookBegin(h)
  <2>1. [task[h] EXCEPT !.at = "begun"].op = "book"
    BY <1>2, TaskKinds DEF BookBegin, Doing, BookTask
  <2>2. \A g \in Handlers : /\ Claiming(g)' <=> Claiming(g)
                            /\ Claiming(g) => task'[g] = task[g]
    BY <1>2, <2>1, GotoKeepsClaims DEF BookBegin, Claiming, Doing
  <2> QED BY <1>2, <2>2, LockKept DEF BookBegin, ActiveTickets
<1>3. CASE BookCount(h)
  <2>1. [task[h] EXCEPT !.at = "counted", !.seats = SeatsTaken].op = "book"
    BY <1>3, TaskKinds DEF BookCount, Doing, BookTask
  <2>2. \A g \in Handlers : /\ Claiming(g)' <=> Claiming(g)
                            /\ Claiming(g) => task'[g] = task[g]
    BY <1>3, <2>1, GotoKeepsClaims DEF BookCount, Claiming, Doing
  <2> QED BY <1>3, <2>2, LockKept DEF BookCount, ActiveTickets
<1>4. CASE BookSeats(h) \/ BookWaitlist(h)
  <2>1. \A g \in Handlers : /\ Claiming(g)' <=> Claiming(g)
                            /\ Claiming(g) => task'[g] = task[g]
    BY <1>4, GotoKeepsClaims DEF BookSeats, BookWaitlist, Idle, Claiming, Doing
  <2> QED BY <1>4, <2>1, LockKept DEF BookSeats, BookWaitlist
<1> QED BY <1>1, <1>2, <1>3, <1>4 DEF Submit

(***************************************************************************)
(* The steps of HandleWaitlistClaim: taking the lock, counting under it,   *)
(* giving it back with the seats taken.                                    *)
(***************************************************************************)
LEMMA ClaimLocks ==
    ASSUME TypeOK, LockIsReleased, LockedCountIsStable, NEW h \in Handlers,
           Claim(h) \/ \E r \in Requests : ClaimRead(h, r)
    PROVE  LockIsReleased' /\ LockedCountIsStable'
<1> USE HandlersAreProcs DEF rows, queue, time
<1> task \in [Procs -> Task]
  BY DEF TypeOK
<1>1. ASSUME NEW r \in Requests, ClaimRead(h, r)
      PROVE  LockIsReleased' /\ LockedCountIsStable'
  <2>1. \A g \in Handlers : /\ Claiming(g)' <=> Claiming(g)
                            /\ Claiming(g) => task'[g] = task[g]
    BY <1>1, GotoKeepsClaims DEF ClaimRead, Free, Idle, Claiming, Doing
  <2> QED BY <1>1, <2>1, LockKept DEF ClaimRead, ActiveTickets
<1>2. CASE ClaimRefused(h)
  <2>1. \A g \in Handlers : /\ Claiming(g)' <=> Claiming(g)
                            /\ Claiming(g) => task'[g] = task[g]
    BY <1>2, GotoKeepsClaims DEF ClaimRefused, Idle, Claiming, Doing
  <2> QED BY <1>2, <2>1, LockKept DEF ClaimRefused, ActiveTickets
<1>3. CASE ClaimLock(h)
  <2>1. \A g \in Handlers : ~ Claiming(g)
    BY <1>3, BookingAssumption DEF ClaimLock, LockFree, LockedCountIsStable
  <2>2. /\ task' = [task EXCEPT ![h] = [task[h] EXCEPT !.at = "locked",
                                                       !.seats = SeatsTaken]]
        /\ lock' = h
    BY <1>3 DEF ClaimLock, Goto
  <2>3. /\ task[h] \in ClaimTask
        /\ task'[h] = [task[h] EXCEPT !.at = "locked", !.seats = SeatsTaken]
    BY <1>3, <2>2, TaskKinds DEF ClaimLock, Doing
  <2>4. /\ task'[h].op = "claim" /\ task'[h].at = "locked"
        /\ task'[h].seats = SeatsTaken
        /\ task'[h].req = task[h].req /\ task'[h].ev = task[h].ev
    BY <2>3 DEF ClaimTask
  <2>5. Need[task[h].req] <= task[h].ev.limit - SeatsTaken /\ Limited(task[h].ev)
    BY <1>3 DEF ClaimLock, ClaimHolds, Remaining
  <2>6. /\ Need[task[h].req] \in Nat /\ task[h].ev.limit \in Nat
        /\ SeatsTaken \in Nat
    BY <2>3, <2>5, SeatsTakenType, BookingAssumption DEF ClaimTask, EventRow, Limited
  <2>7. SeatsTaken' = SeatsTaken
    BY <1>3 DEF ClaimLock, SeatsTaken, ActiveTickets
  <2>8. \A g \in Handlers : Claiming(g)' => g = h
    BY <2>1, <2>2 DEF Claiming, Doing
  <2>9. /\ SeatsTaken' <= task'[h].seats
        /\ task'[h].seats + Need[task'[h].req] <= task'[h].ev.limit
    BY <2>4, <2>5, <2>6, <2>7
  <2>10. LockedCountIsStable'
    BY <2>2, <2>8, <2>9 DEF LockedCountIsStable
  <2>11. LockIsReleased'
    BY <2>2, <2>4 DEF LockIsReleased, Claiming, Doing
  <2> QED BY <2>10, <2>11
<1>4. CASE ClaimCommit(h)
  <2>1. Claiming(h)
    BY <1>4 DEF ClaimCommit, Claiming
  <2>2. \A g \in Handlers : Claiming(g) => g = h
    BY <2>1 DEF LockedCountIsStable
  <2>3. task' = [task EXCEPT ![h] = Idle] /\ lock' = Null
    BY <1>4 DEF ClaimCommit, Goto
  <2>4. \A g \in Handlers : ~ Claiming(g)'
    BY <2>2, <2>3 DEF Claiming, Doing, Idle
  <2> QED BY <2>3, <2>4 DEF LockIsReleased, LockedCountIsStable
<1> QED BY <1>1, <1>2, <1>3, <1>4 DEF Claim

(***************************************************************************)
(* The steps of PromoteAfterCancel.                                        *)
(***************************************************************************)
LEMMA PromoteLock ==
    ASSUME TypeOK, LockIsReleased, LockedCountIsStable, NEW p \in Procs,
           PromoteAfterCancel(p) \/ SendMail(p)
    PROVE  LockIsReleased' /\ LockedCountIsStable'
<1> USE DEF rows, queue, time
<1> task \in [Procs -> Task]
  BY DEF TypeOK
<1>1. CASE PromoteRead(p)
  <2>1. \A g \in Handlers : /\ Claiming(g)' <=> Claiming(g)
                            /\ Claiming(g) => task'[g] = task[g]
    BY <1>1, GotoKeepsClaims DEF PromoteRead, StartPromote, Idle, Claiming, Doing
  <2> QED BY <1>1, <2>1, LockKept DEF PromoteRead, ActiveTickets
<1>2. CASE PromoteNobody(p) \/ PromoteDonation(p)
  <2>1. \A g \in Handlers : /\ Claiming(g)' <=> Claiming(g)
                            /\ Claiming(g) => task'[g] = task[g]
    BY <1>2, GotoKeepsClaims
       DEF PromoteNobody, PromoteDonation, InPromoteTx, Idle, Claiming, Doing
  <2> QED BY <1>2, <2>1, LockKept DEF PromoteNobody, PromoteDonation, InPromoteTx
<1>3. CASE PromoteInvite(p)
  <2>1. \A g \in Handlers : /\ Claiming(g)' <=> Claiming(g)
                            /\ Claiming(g) => task'[g] = task[g]
    BY <1>3, GotoKeepsClaims DEF PromoteInvite, InPromoteTx, Claiming, Doing
  <2> QED BY <1>3, <2>1, LockKept DEF PromoteInvite, ActiveTickets
<1>4. CASE SendMail(p)
  <2>1. \A g \in Handlers : /\ Claiming(g)' <=> Claiming(g)
                            /\ Claiming(g) => task'[g] = task[g]
    BY <1>4, GotoKeepsClaims DEF SendMail, Idle, Claiming, Doing
  <2> QED BY <1>4, <2>1, LockKept DEF SendMail, ActiveTickets
<1> QED BY <1>1, <1>2, <1>3, <1>4 DEF PromoteAfterCancel

(***************************************************************************)
(* The admin's promotion of one row.                                       *)
(***************************************************************************)
LEMMA AdminLock ==
    ASSUME TypeOK, LockIsReleased, LockedCountIsStable, NEW h \in Handlers, Admin(h)
    PROVE  LockIsReleased' /\ LockedCountIsStable'
<1> USE HandlersAreProcs DEF rows, queue, time
<1> task \in [Procs -> Task]
  BY DEF TypeOK
<1>1. ASSUME NEW r \in Requests, PickRow(h, r)
      PROVE  LockIsReleased' /\ LockedCountIsStable'
  <2>1. \A g \in Handlers : /\ Claiming(g)' <=> Claiming(g)
                            /\ Claiming(g) => task'[g] = task[g]
    BY <1>1, GotoKeepsClaims DEF PickRow, Free, Idle, Claiming, Doing
  <2> QED BY <1>1, <2>1, LockKept DEF PickRow, ActiveTickets
<1>2. CASE PickEvent(h)
  <2>1. \A g \in Handlers : /\ Claiming(g)' <=> Claiming(g)
                            /\ Claiming(g) => task'[g] = task[g]
    BY <1>2, GotoKeepsClaims DEF PickEvent, Claiming, Doing
  <2> QED BY <1>2, <2>1, LockKept DEF PickEvent, ActiveTickets
<1>3. CASE AdminFulfil(h)
  <2>1. \A g \in Handlers : /\ Claiming(g)' <=> Claiming(g)
                            /\ Claiming(g) => task'[g] = task[g]
    BY <1>3, GotoKeepsClaims DEF AdminFulfil, Idle, Claiming, Doing
  <2> QED BY <1>3, <2>1, LockKept DEF AdminFulfil
<1>4. CASE AdminPromote(h)
  <2>1. \A g \in Handlers : /\ Claiming(g)' <=> Claiming(g)
                            /\ Claiming(g) => task'[g] = task[g]
    BY <1>4, GotoKeepsClaims DEF AdminPromote, Claiming, Doing
  <2> QED BY <1>4, <2>1, LockKept DEF AdminPromote, ActiveTickets
<1> QED BY <1>1, <1>2, <1>3, <1>4 DEF Admin

(***************************************************************************)
(* Payments keep the seats, refunds and cancels free some.                 *)
(***************************************************************************)
LEMMA PaymentLock ==
    ASSUME TypeOK, LockIsReleased, LockedCountIsStable,
           \/ \E b \in Bookings : MarkPaid(b)
           \/ \E h \in Handlers : \/ \E b \in Bookings : RefundRead(h, b)
                                  \/ \E t \in Tickets : GiveBackRead(h, t)
                                  \/ RefundCancel(h) \/ GiveBackCancel(h)
    PROVE  LockIsReleased' /\ LockedCountIsStable'
<1> USE HandlersAreProcs DEF rows, queue, time
<1> task \in [Procs -> Task]
  BY DEF TypeOK
<1>1. ASSUME NEW b \in Bookings, MarkPaid(b)
      PROVE  LockIsReleased' /\ LockedCountIsStable'
  <2>1. ActiveTickets' \subseteq ActiveTickets
    BY <1>1 DEF MarkPaid, ActiveTickets, SeatHolding
  <2> QED BY <1>1, <2>1, TasksKeepClaims, LockKept DEF MarkPaid
<1>2. ASSUME NEW h \in Handlers, NEW b \in Bookings, RefundRead(h, b)
      PROVE  LockIsReleased' /\ LockedCountIsStable'
  <2>1. \A g \in Handlers : /\ Claiming(g)' <=> Claiming(g)
                            /\ Claiming(g) => task'[g] = task[g]
    BY <1>2, GotoKeepsClaims DEF RefundRead, Free, Idle, Claiming, Doing
  <2> QED BY <1>2, <2>1, LockKept DEF RefundRead, ActiveTickets
<1>3. ASSUME NEW h \in Handlers, NEW t \in Tickets, GiveBackRead(h, t)
      PROVE  LockIsReleased' /\ LockedCountIsStable'
  <2>1. \A g \in Handlers : /\ Claiming(g)' <=> Claiming(g)
                            /\ Claiming(g) => task'[g] = task[g]
    BY <1>3, GotoKeepsClaims DEF GiveBackRead, Free, Idle, Claiming, Doing
  <2> QED BY <1>3, <2>1, LockKept DEF GiveBackRead, ActiveTickets
<1>4. ASSUME NEW h \in Handlers, RefundCancel(h)
      PROVE  LockIsReleased' /\ LockedCountIsStable'
  <2>1. \A g \in Handlers : /\ Claiming(g)' <=> Claiming(g)
                            /\ Claiming(g) => task'[g] = task[g]
    BY <1>4, GotoKeepsClaims DEF RefundCancel, StartPromote, Claiming, Doing
  <2>2. ActiveTickets' \subseteq ActiveTickets
    BY <1>4, CancelSeats DEF RefundCancel
  <2> QED BY <1>4, <2>1, <2>2, LockKept DEF RefundCancel
<1>5. ASSUME NEW h \in Handlers, GiveBackCancel(h)
      PROVE  LockIsReleased' /\ LockedCountIsStable'
  <2>1. \A g \in Handlers : /\ Claiming(g)' <=> Claiming(g)
                            /\ Claiming(g) => task'[g] = task[g]
    BY <1>5, GotoKeepsClaims DEF GiveBackCancel, StartPromote, Claiming, Doing
  <2>2. ActiveTickets' \subseteq ActiveTickets
    <3>1. \A t \in Tickets : ticket'[t] = ticket[t] \/ ticket'[t] = "canceled"
      BY <1>5 DEF GiveBackCancel, TypeOK
    <3> QED BY <3>1 DEF ActiveTickets, SeatHolding
  <2> QED BY <1>5, <2>1, <2>2, LockKept DEF GiveBackCancel
<1> QED BY <1>1, <1>2, <1>3, <1>4, <1>5

(***************************************************************************)
(* The door, the organizer and time take no seat.                          *)
(***************************************************************************)
LEMMA EnvironmentLock ==
    ASSUME TypeOK, LockIsReleased, LockedCountIsStable,
           \/ \E h \in Handlers : RotateWaitlist(h)
           \/ \E r \in Requests : RemoveEntry(r) \/ DeadlinePasses(r)
           \/ \E t \in Tickets : CheckIn(t) \/ UndoCheckIn(t)
           \/ PurgeTest
           \/ \E e \in Settings : UpdateEvent(e)
           \/ \E b \in Bookings : Lapse(b)
    PROVE  LockIsReleased' /\ LockedCountIsStable'
<1> USE HandlersAreProcs DEF rows, queue, time
<1>1. ASSUME NEW h \in Handlers, RotateWaitlist(h)
      PROVE  LockIsReleased' /\ LockedCountIsStable'
  <2>1. \A g \in Handlers : /\ Claiming(g)' <=> Claiming(g)
                            /\ Claiming(g) => task'[g] = task[g]
    BY <1>1, GotoKeepsClaims
       DEF RotateWaitlist, StartPromote, Free, Idle, Claiming, Doing, TypeOK
  <2> QED BY <1>1, <2>1, LockKept DEF RotateWaitlist, ActiveTickets
<1>2. ASSUME NEW t \in Tickets, CheckIn(t) \/ UndoCheckIn(t)
      PROVE  LockIsReleased' /\ LockedCountIsStable'
  <2>1. ActiveTickets' \subseteq ActiveTickets
    <3>1. ticket[t] \in {"paid", "checked_in"}
      BY <1>2 DEF CheckIn, UndoCheckIn
    <3>2. \A u \in Tickets : u # t => ticket'[u] = ticket[u]
      BY <1>2 DEF CheckIn, UndoCheckIn, TypeOK
    <3> QED BY <3>1, <3>2 DEF ActiveTickets, SeatHolding
  <2> QED BY <1>2, <2>1, TasksKeepClaims, LockKept DEF CheckIn, UndoCheckIn
<1>3. CASE PurgeTest
  <2>1. ActiveTickets' \subseteq ActiveTickets
    BY <1>3 DEF PurgeTest, ActiveTickets, SeatHolding
  <2> QED BY <1>3, <2>1, TasksKeepClaims, LockKept DEF PurgeTest
<1>4. CASE \/ \E r \in Requests : RemoveEntry(r) \/ DeadlinePasses(r)
           \/ \E e \in Settings : UpdateEvent(e)
           \/ \E b \in Bookings : Lapse(b)
  <2>1. task' = task /\ lock' = lock /\ ticket' = ticket
    BY <1>4 DEF RemoveEntry, DeadlinePasses, UpdateEvent, Lapse
  <2> QED BY <2>1, TasksKeepClaims, LockKept DEF ActiveTickets
<1> QED BY <1>1, <1>2, <1>3, <1>4

(***************************************************************************)
(* The sweeper takes no seat by itself; the promotion it runs inline is a  *)
(* step of PromoteAfterCancel.                                             *)
(***************************************************************************)
LEMMA SweepLock ==
    ASSUME TypeOK, LockIsReleased, LockedCountIsStable, Sweep \/ SweepSkip
    PROVE  LockIsReleased' /\ LockedCountIsStable'
<1> USE DEF rows, queue, time
<1>1. CASE SweepPromote
  <2>1. \A g \in Handlers : task'[g] = task[g]
    BY <1>1, BookingAssumption, HandlersAreProcs DEF SweepPromote, TypeOK
  <2>2. \A g \in Handlers : /\ Claiming(g)' <=> Claiming(g)
                            /\ Claiming(g) => task'[g] = task[g]
    BY <2>1 DEF Claiming, Doing
  <2> QED BY <1>1, <2>2, LockKept DEF SweepPromote, ActiveTickets
<1>2. ASSUME NEW b \in Bookings, SweepCancel(b)
      PROVE  LockIsReleased' /\ LockedCountIsStable'
  <2>1. ActiveTickets' \subseteq ActiveTickets
    BY <1>2, CancelSeats DEF SweepCancel
  <2> QED BY <1>2, <2>1, TasksKeepClaims, LockKept DEF SweepCancel
<1>3. CASE \/ SweepList \/ SweepPromoted \/ SweepEntries \/ SweepSkip
           \/ \E r \in Requests : SweepExpire(r)
  <2>1. task' = task /\ lock' = lock /\ ticket' = ticket
    BY <1>3 DEF SweepList, SweepPromoted, SweepEntries, SweepSkip, SweepExpire
  <2> QED BY <2>1, TasksKeepClaims, LockKept DEF ActiveTickets
<1> QED BY <1>1, <1>2, <1>3 DEF Sweep

(***************************************************************************)
(* A rollback or a crash gives the lock back.                              *)
(***************************************************************************)
LEMMA FailureLock ==
    ASSUME TypeOK, LockIsReleased, LockedCountIsStable, Crash \/ \E p \in Procs : Drop(p)
    PROVE  LockIsReleased' /\ LockedCountIsStable'
<1> USE DEF rows, queue, time
<1>1. CASE Crash
  <2>1. lock' = Null /\ \A g \in Handlers : task'[g] = Idle
    BY <1>1, HandlersAreProcs DEF Crash
  <2>2. \A g \in Handlers : ~ Claiming(g)'
    BY <2>1 DEF Claiming, Doing, Idle
  <2> QED BY <2>1, <2>2 DEF LockIsReleased, LockedCountIsStable
<1>2. ASSUME NEW p \in Procs, Drop(p)
      PROVE  LockIsReleased' /\ LockedCountIsStable'
  <2>1. CASE Claiming(p) /\ p \in Handlers
    <3>1. lock = p /\ \A g \in Handlers : Claiming(g) => g = p
      BY <2>1 DEF LockedCountIsStable
    <3>2. lock' = Null /\ task' = [task EXCEPT ![p] = Idle]
      BY <1>2, <3>1 DEF Drop, Goto
    <3>3. \A g \in Handlers : ~ Claiming(g)'
      BY <3>1, <3>2, HandlersAreProcs DEF Claiming, Doing, Idle, TypeOK
    <3> QED BY <3>2, <3>3 DEF LockIsReleased, LockedCountIsStable
  <2>2. CASE ~ (Claiming(p) /\ p \in Handlers)
    <3>1. lock # p
      BY <2>2, BookingAssumption DEF LockIsReleased, TypeOK
    <3>2. lock' = lock /\ ticket' = ticket /\ task' = [task EXCEPT ![p] = Idle]
      BY <1>2, <3>1 DEF Drop, Goto
    <3>3. \A g \in Handlers : /\ Claiming(g)' <=> Claiming(g)
                              /\ Claiming(g) => task'[g] = task[g]
      BY <2>2, <3>2, HandlersAreProcs DEF Claiming, Doing, Idle, TypeOK
    <3> QED BY <3>2, <3>3, LockKept DEF ActiveTickets
  <2> QED BY <2>1, <2>2
<1> QED BY <1>1, <1>2

(***************************************************************************)
(* Every step keeps the lock discipline.                                   *)
(***************************************************************************)
LEMMA LockStep ==
    TypeOK /\ LockIsReleased /\ LockedCountIsStable /\ [Next]_vars
        => LockIsReleased' /\ LockedCountIsStable'
<1> SUFFICES ASSUME TypeOK, LockIsReleased, LockedCountIsStable, [Next]_vars
             PROVE  LockIsReleased' /\ LockedCountIsStable'
  OBVIOUS
<1>1. CASE UNCHANGED vars
  <2>1. task' = task /\ lock' = lock /\ ticket' = ticket
    BY <1>1 DEF vars, rows
  <2> QED BY <2>1, TasksKeepClaims, LockKept DEF ActiveTickets
<1>2. CASE Next
  BY <1>2, SubmitLock, ClaimLocks, PromoteLock, AdminLock, PaymentLock,
     EnvironmentLock, SweepLock, FailureLock DEF Next
<1> QED BY <1>1, <1>2
-----------------------------------------------------------------------------
(* Limits and places in the queue.                                         *)

\* Rows come from transactions that have a time: no step but BookWaitlist
\* makes a row.
NoNewRow == \A r \in Requests : entry'[r] # "none" => entry[r] # "none"

(***************************************************************************)
(* A task that has seen no unlimited event and is no booking transaction   *)
(* keeps the limits seen and the order of the queue.                       *)
(***************************************************************************)
LEMMA GotoKeepsOrder ==
    ASSUME task \in [Procs -> Task], LimitsSeen, StampOrder,
           NEW p \in Procs, NEW t, Goto(p, t), LimitSeen(t),
           ~ (t.op = "book" /\ t.at # "read"), UNCHANGED time, NoNewRow
    PROVE  LimitsSeen' /\ StampOrder'
<1>1. \A q \in Procs : task'[q] = IF q = p THEN t ELSE task[q]
  BY DEF Goto
<1>2. LimitsSeen'
  BY <1>1 DEF LimitsSeen
<1>3. stamp' = stamp /\ clock' = clock
  BY DEF time
<1>4. \A h \in Handlers : (Doing(h, "book") /\ task[h].at # "read")'
                              => task'[h] = task[h]
  BY <1>1, HandlersAreProcs DEF Doing
<1>5. StampOrder'
  BY <1>3, <1>4 DEF StampOrder, NoNewRow, Doing
<1> QED BY <1>2, <1>5

(***************************************************************************)
(* So does a step that changes no task and makes no row.                   *)
(***************************************************************************)
LEMMA TasksKeepOrder ==
    ASSUME LimitsSeen, StampOrder, task' = task, UNCHANGED time, NoNewRow
    PROVE  LimitsSeen' /\ StampOrder'
BY DEF LimitsSeen, StampOrder, NoNewRow, Doing, time

(***************************************************************************)
(* MarkWaitlistFulfilled updates rows, it makes none.                      *)
(***************************************************************************)
LEMMA MarkFulfilledRows ==
    ASSUME NEW R, MarkFulfilled(R)
    PROVE  NoNewRow
BY DEF MarkFulfilled, NoNewRow

(***************************************************************************)
(* HandleBooking: a transaction's time is later than all before it, and    *)
(* its row, if it makes one, has that time.                                *)
(***************************************************************************)
LEMMA SubmitOrder ==
    ASSUME TypeOK, LimitsSeen, StampOrder, NEW h \in Handlers, Submit(h)
    PROVE  LimitsSeen' /\ StampOrder'
<1> USE HandlersAreProcs DEF queue, time
<1> task \in [Procs -> Task]
  BY DEF TypeOK
<1>1. ASSUME NEW r \in Requests, BookRead(h, r)
      PROVE  LimitsSeen' /\ StampOrder'
  <2> DEFINE t == [op |-> "book", at |-> "read", req |-> r, ev |-> event, seats |-> 0]
  <2>1. Goto(h, t) /\ LimitSeen(t) /\ t.at = "read" /\ UNCHANGED time /\ NoNewRow
    BY <1>1 DEF BookRead, LimitSeen, NoNewRow
  <2> HIDE DEF t
  <2> QED BY <2>1, GotoKeepsOrder
<1>2. CASE BookBegin(h)
  <2> DEFINE r == task[h].req
             t == [task[h] EXCEPT !.at = "begun"]
  <2>1. /\ task[h] \in BookTask
        /\ clock' = clock + 1 /\ stamp' = [stamp EXCEPT ![r] = clock + 1]
        /\ Goto(h, t) /\ entry' = entry
    BY <1>2, TaskKinds DEF BookBegin, Doing
  <2>2. t.op = "book" /\ t.req = r /\ r \in Requests
    BY <2>1 DEF BookTask
  <2> HIDE DEF t
  <2>3. /\ \A q \in Procs : task'[q] = IF q = h THEN t ELSE task[q]
        /\ clock \in Nat /\ stamp \in [Requests -> Nat]
    BY <2>1 DEF Goto, TypeOK
  <2>4. LimitsSeen'
    BY <2>2, <2>3 DEF LimitsSeen, LimitSeen
  <2>5. \A s \in Requests : stamp'[s] = IF s = r THEN clock + 1 ELSE stamp[s]
    BY <2>1, <2>2, <2>3
  <2>6. /\ \A s, v \in Requests : (stamp'[s] = stamp'[v] /\ stamp'[s] # 0) => s = v
        /\ \A s \in Requests : stamp'[s] <= clock'
        /\ \A s \in Requests : entry'[s] # "none" => stamp'[s] # 0
    BY <2>1, <2>3, <2>5 DEF StampOrder
  <2>7. \A g \in Handlers :
           (Doing(g, "book") /\ task[g].at # "read")' => stamp'[task'[g].req] # 0
    <3> SUFFICES ASSUME NEW g \in Handlers, (Doing(g, "book") /\ task[g].at # "read")'
                 PROVE  stamp'[task'[g].req] # 0
      OBVIOUS
    <3>1. CASE g = h
      <4>1. task'[g].req = r
        BY <2>2, <2>3, <3>1
      <4>2. stamp'[r] # 0
        BY <2>2, <2>3, <2>5
      <4> QED BY <4>1, <4>2
    <3>2. CASE g # h
      <4>1. task'[g] = task[g] /\ Doing(g, "book") /\ task[g].at # "read"
        BY <2>3, <3>2 DEF Doing
      <4>2. task[g].req \in Requests /\ stamp[task[g].req] # 0
        BY <4>1, TaskKinds DEF StampOrder, Doing, BookTask
      <4> QED BY <2>3, <2>5, <4>1, <4>2
    <3> QED BY <3>1, <3>2
  <2> QED BY <2>4, <2>6, <2>7 DEF StampOrder
<1>3. CASE BookCount(h)
  <2> DEFINE t == [task[h] EXCEPT !.at = "counted", !.seats = SeatsTaken]
  <2>1. /\ task[h] \in BookTask /\ Doing(h, "book") /\ task[h].at = "begun"
        /\ Goto(h, t) /\ UNCHANGED time /\ entry' = entry
    BY <1>3, TaskKinds DEF BookCount, Doing
  <2>2. t.op = "book" /\ t.req = task[h].req
    BY <2>1 DEF BookTask
  <2> HIDE DEF t
  <2>3. \A q \in Procs : task'[q] = IF q = h THEN t ELSE task[q]
    BY <2>1 DEF Goto
  <2>4. LimitsSeen'
    BY <2>2, <2>3 DEF LimitsSeen, LimitSeen
  <2>5. stamp[task[h].req] # 0
    BY <2>1 DEF StampOrder
  <2>6. \A g \in Handlers :
           (Doing(g, "book") /\ task[g].at # "read")' => stamp'[task'[g].req] # 0
    BY <2>1, <2>2, <2>3, <2>5 DEF StampOrder, Doing
  <2> QED BY <2>1, <2>4, <2>6 DEF StampOrder
<1>4. CASE BookSeats(h)
  <2>1. Goto(h, Idle) /\ LimitSeen(Idle) /\ Idle.op # "book" /\ UNCHANGED time /\ NoNewRow
    BY <1>4 DEF BookSeats, LimitSeen, Idle, NoNewRow
  <2> QED BY <2>1, GotoKeepsOrder
<1>5. CASE BookWaitlist(h)
  <2> DEFINE r == task[h].req
  <2>1. /\ Doing(h, "book") /\ task[h].at = "counted" /\ Goto(h, Idle)
        /\ entry' = [entry EXCEPT ![r] = "waiting"] /\ UNCHANGED time
    BY <1>5 DEF BookWaitlist
  <2>2. stamp[r] # 0
    BY <2>1 DEF StampOrder
  <2>3. \A s \in Requests : entry'[s] # "none" => stamp'[s] # 0
    BY <2>1, <2>2 DEF StampOrder, TypeOK
  <2>4. \A q \in Procs : task'[q] = IF q = h THEN Idle ELSE task[q]
    BY <2>1 DEF Goto
  <2>5. LimitsSeen'
    BY <2>4 DEF LimitsSeen, LimitSeen, Idle
  <2>6. \A g \in Handlers :
           (Doing(g, "book") /\ task[g].at # "read")' => stamp'[task'[g].req] # 0
    BY <2>1, <2>4 DEF StampOrder, Doing, Idle
  <2> QED BY <2>1, <2>3, <2>5, <2>6 DEF StampOrder
<1> QED BY <1>1, <1>2, <1>3, <1>4, <1>5 DEF Submit

(***************************************************************************)
(* HandleWaitlistClaim: the lock is taken by claims that saw a limit.      *)
(***************************************************************************)
LEMMA ClaimOrder ==
    ASSUME TypeOK, LimitsSeen, StampOrder, NEW h \in Handlers,
           Claim(h) \/ \E r \in Requests : ClaimRead(h, r)
    PROVE  LimitsSeen' /\ StampOrder'
<1> USE HandlersAreProcs DEF queue, time
<1> task \in [Procs -> Task]
  BY DEF TypeOK
<1>1. ASSUME NEW r \in Requests, ClaimRead(h, r)
      PROVE  LimitsSeen' /\ StampOrder'
  <2> DEFINE t == [op |-> "claim", at |-> "read", req |-> r, ev |-> event, seats |-> 0]
  <2>1. Goto(h, t) /\ LimitSeen(t) /\ t.op = "claim" /\ UNCHANGED time /\ NoNewRow
    BY <1>1 DEF ClaimRead, LimitSeen, NoNewRow
  <2> HIDE DEF t
  <2> QED BY <2>1, GotoKeepsOrder
<1>2. CASE ClaimRefused(h) \/ ClaimCommit(h)
  <2>1. Goto(h, Idle) /\ LimitSeen(Idle) /\ Idle.op # "book" /\ UNCHANGED time /\ NoNewRow
    BY <1>2, MarkFulfilledRows DEF ClaimRefused, ClaimCommit, LimitSeen, Idle, NoNewRow
  <2> QED BY <2>1, GotoKeepsOrder
<1>3. CASE ClaimLock(h)
  <2> DEFINE t == [task[h] EXCEPT !.at = "locked", !.seats = SeatsTaken]
  <2>1. task[h] \in ClaimTask /\ Limited(task[h].ev)
    BY <1>3, TaskKinds DEF ClaimLock, ClaimHolds, Doing
  <2>2. t.op = "claim" /\ t.ev = task[h].ev
    BY <2>1 DEF ClaimTask
  <2>3. Goto(h, t) /\ UNCHANGED time /\ NoNewRow
    BY <1>3 DEF ClaimLock, NoNewRow
  <2> HIDE DEF t
  <2>4. LimitSeen(t)
    BY <2>1, <2>2 DEF LimitSeen
  <2> QED BY <2>2, <2>3, <2>4, GotoKeepsOrder
<1> QED BY <1>1, <1>2, <1>3 DEF Claim

(***************************************************************************)
(* PromoteAfterCancel goes on only if the event it read is limited.        *)
(***************************************************************************)
LEMMA PromoteOrder ==
    ASSUME TypeOK, LimitsSeen, StampOrder, NEW p \in Procs,
           PromoteAfterCancel(p) \/ SendMail(p)
    PROVE  LimitsSeen' /\ StampOrder'
<1> USE DEF queue, time
<1> task \in [Procs -> Task]
  BY DEF TypeOK
<1>1. CASE PromoteRead(p)
  <2> DEFINE t == IF Limited(event)
                  THEN [op |-> "promote", at |-> "read", ev |-> event] ELSE Idle
  <2>1. Goto(p, t) /\ LimitSeen(t) /\ t.op # "book" /\ UNCHANGED time /\ NoNewRow
    BY <1>1 DEF PromoteRead, LimitSeen, Idle, NoNewRow
  <2> HIDE DEF t
  <2> QED BY <2>1, GotoKeepsOrder
<1>2. CASE PromoteNobody(p) \/ PromoteDonation(p) \/ SendMail(p)
  <2>1. Goto(p, Idle) /\ LimitSeen(Idle) /\ Idle.op # "book" /\ UNCHANGED time /\ NoNewRow
    BY <1>2, MarkFulfilledRows
       DEF PromoteNobody, PromoteDonation, SendMail, LimitSeen, Idle, NoNewRow
  <2> QED BY <2>1, GotoKeepsOrder
<1>3. CASE PromoteInvite(p)
  <2> DEFINE t == [op |-> "mail",
                   to |-> {r \in Waiting : Need[r] <= Remaining(task[p].ev)}]
  <2>1. Goto(p, t) /\ LimitSeen(t) /\ t.op # "book" /\ UNCHANGED time /\ NoNewRow
    BY <1>3 DEF PromoteInvite, LimitSeen, NoNewRow
  <2> HIDE DEF t
  <2> QED BY <2>1, GotoKeepsOrder
<1> QED BY <1>1, <1>2, <1>3 DEF PromoteAfterCancel

(***************************************************************************)
(* The admin's promotion, payments, cancels, the environment, the sweeper  *)
(* and failures make no row and give no time.                              *)
(***************************************************************************)
LEMMA OtherOrder ==
    ASSUME TypeOK, LimitsSeen, StampOrder,
           \/ \E h \in Handlers : Admin(h)
           \/ \E b \in Bookings : MarkPaid(b) \/ Lapse(b)
           \/ \E h \in Handlers : \/ \E b \in Bookings : RefundRead(h, b)
                                  \/ \E t \in Tickets : GiveBackRead(h, t)
                                  \/ RefundCancel(h) \/ GiveBackCancel(h)
                                  \/ RotateWaitlist(h)
           \/ \E r \in Requests : RemoveEntry(r) \/ DeadlinePasses(r)
           \/ \E t \in Tickets : CheckIn(t) \/ UndoCheckIn(t)
           \/ PurgeTest
           \/ \E e \in Settings : UpdateEvent(e)
           \/ Sweep \/ SweepSkip
           \/ Crash \/ \E p \in Procs : Drop(p)
    PROVE  LimitsSeen' /\ StampOrder'
<1> USE HandlersAreProcs DEF queue, time
<1> task \in [Procs -> Task]
  BY DEF TypeOK
<1>1. ASSUME NEW h \in Handlers, Admin(h) PROVE LimitsSeen' /\ StampOrder'
  <2>1. \E t : Goto(h, t) /\ LimitSeen(t) /\ t.op # "book" /\ UNCHANGED time /\ NoNewRow
    <3>1. CASE \E r \in Requests : PickRow(h, r)
      BY <3>1 DEF PickRow, LimitSeen, NoNewRow
    <3>2. CASE PickEvent(h)
      BY <3>2 DEF PickEvent, LimitSeen, NoNewRow
    <3>3. CASE AdminFulfil(h)
      BY <3>3, MarkFulfilledRows DEF AdminFulfil, LimitSeen, Idle
    <3>4. CASE AdminPromote(h)
      <4>1. NoNewRow
        BY <3>4 DEF AdminPromote, NoNewRow, TypeOK
      <4> QED BY <3>4, <4>1 DEF AdminPromote, LimitSeen
    <3> QED BY <1>1, <3>1, <3>2, <3>3, <3>4 DEF Admin
  <2> QED BY <2>1, GotoKeepsOrder
<1>2. ASSUME NEW h \in Handlers,
             \/ \E b \in Bookings : RefundRead(h, b)
             \/ \E t \in Tickets : GiveBackRead(h, t)
             \/ RefundCancel(h) \/ GiveBackCancel(h) \/ RotateWaitlist(h)
      PROVE  LimitsSeen' /\ StampOrder'
  <2>1. \E t : Goto(h, t) /\ LimitSeen(t) /\ t.op # "book" /\ UNCHANGED time /\ NoNewRow
    BY <1>2 DEF RefundRead, GiveBackRead, RefundCancel, GiveBackCancel,
                RotateWaitlist, StartPromote, LimitSeen, NoNewRow
  <2> QED BY <2>1, GotoKeepsOrder
<1>3. ASSUME NEW r \in Requests, RemoveEntry(r) PROVE LimitsSeen' /\ StampOrder'
  <2>1. NoNewRow
    BY <1>3 DEF RemoveEntry, NoNewRow, TypeOK
  <2> QED BY <1>3, <2>1, TasksKeepOrder DEF RemoveEntry
<1>4. ASSUME NEW r \in Requests, SweepExpire(r) PROVE LimitsSeen' /\ StampOrder'
  <2>1. NoNewRow
    BY <1>4 DEF SweepExpire, NoNewRow, TypeOK
  <2> QED BY <1>4, <2>1, TasksKeepOrder DEF SweepExpire
<1>5. CASE \/ \E b \in Bookings : MarkPaid(b) \/ Lapse(b) \/ SweepCancel(b)
           \/ \E r \in Requests : DeadlinePasses(r)
           \/ \E t \in Tickets : CheckIn(t) \/ UndoCheckIn(t)
           \/ PurgeTest
           \/ \E e \in Settings : UpdateEvent(e)
           \/ SweepList \/ SweepPromoted \/ SweepEntries \/ SweepSkip
  <2>1. task' = task /\ UNCHANGED time /\ entry' = entry
    BY <1>5 DEF MarkPaid, Lapse, SweepCancel, DeadlinePasses, CheckIn, UndoCheckIn,
                PurgeTest, UpdateEvent, SweepList, SweepPromoted, SweepEntries,
                SweepSkip
  <2> QED BY <2>1, TasksKeepOrder DEF NoNewRow
<1>6. CASE SweepPromote
  <2>1. UNCHANGED time /\ entry' = entry
    BY <1>6 DEF SweepPromote
  <2>2. CASE task' = task
    BY <2>1, <2>2, TasksKeepOrder DEF NoNewRow
  <2>3. CASE task' = [task EXCEPT ![Sweeper] = StartPromote]
    <3>1. /\ Sweeper \in Procs /\ Goto(Sweeper, StartPromote)
          /\ LimitSeen(StartPromote) /\ StartPromote.op # "book" /\ NoNewRow
      BY <2>1, <2>3 DEF Procs, Goto, LimitSeen, StartPromote, NoNewRow
    <3> QED BY <2>1, <3>1, GotoKeepsOrder
  <2> QED BY <1>6, <2>2, <2>3 DEF SweepPromote
<1>7. ASSUME NEW p \in Procs, Drop(p) PROVE LimitsSeen' /\ StampOrder'
  <2>1. Goto(p, Idle) /\ LimitSeen(Idle) /\ Idle.op # "book" /\ UNCHANGED time /\ NoNewRow
    BY <1>7 DEF Drop, LimitSeen, Idle, NoNewRow
  <2> QED BY <2>1, GotoKeepsOrder
<1>8. CASE Crash
  <2>1. /\ \A q \in Procs : task'[q] = Idle
        /\ stamp' = stamp /\ clock' = clock /\ entry' = entry
    BY <1>8 DEF Crash
  <2>2. LimitsSeen'
    BY <2>1 DEF LimitsSeen, LimitSeen, Idle
  <2>3. \A h \in Handlers : ~ Doing(h, "book")'
    BY <2>1 DEF Doing, Idle
  <2> QED BY <2>1, <2>2, <2>3 DEF StampOrder
<1> QED BY <1>1, <1>2, <1>3, <1>4, <1>5, <1>6, <1>7, <1>8 DEF Sweep

(***************************************************************************)
(* Every step keeps the limits seen and the order of the queue.            *)
(***************************************************************************)
LEMMA OrderStep ==
    TypeOK /\ LimitsSeen /\ StampOrder /\ [Next]_vars => LimitsSeen' /\ StampOrder'
<1> SUFFICES ASSUME TypeOK, LimitsSeen, StampOrder, [Next]_vars
             PROVE  LimitsSeen' /\ StampOrder'
  OBVIOUS
<1>1. CASE UNCHANGED vars
  <2>1. task' = task /\ UNCHANGED time /\ entry' = entry
    BY <1>1 DEF vars, queue
  <2> QED BY <2>1, TasksKeepOrder DEF NoNewRow
<1>2. CASE Next
  BY <1>2, SubmitOrder, ClaimOrder, PromoteOrder, OtherOrder DEF Next
<1> QED BY <1>1, <1>2
-----------------------------------------------------------------------------
(***************************************************************************)
(* The invariant is inductive.                                             *)
(***************************************************************************)
THEOREM SeatInvariance == Spec => []SeatInv
<1>1. Init => SeatInv
  <2> SUFFICES ASSUME Init PROVE SeatInv
    OBVIOUS
  <2>1. TypeOK
    BY DEF Init, TypeOK, BookingStatus, Methods, TicketStatus, EntryStatus,
           Task, SweepIdle
  <2>2. \A p \in Procs : task[p] = Idle
    BY DEF Init
  <2>3. LimitsSeen
    BY <2>2 DEF LimitsSeen, LimitSeen, Idle
  <2>4. \A h \in Handlers : ~ Doing(h, "book") /\ ~ Claiming(h)
    BY <2>2, HandlersAreProcs DEF Doing, Claiming, Idle
  <2>5. StampOrder
    BY <2>4 DEF Init, StampOrder
  <2>6. LockIsReleased /\ LockedCountIsStable
    BY <2>4 DEF Init, LockIsReleased, LockedCountIsStable
  <2> QED BY <2>1, <2>3, <2>5, <2>6 DEF SeatInv
<1>2. SeatInv /\ [Next]_vars => SeatInv'
  BY TypeStep, LockStep, OrderStep DEF SeatInv
<1> QED BY <1>1, <1>2, PTL DEF Spec

(***************************************************************************)
(* In every reachable state the event row is locked by a claim in its      *)
(* transaction or by nobody, so no failure leaves it locked.               *)
(***************************************************************************)
THEOREM LockAlwaysReleased == Spec => []LockIsReleased
<1>1. SeatInv => LockIsReleased
  BY DEF SeatInv
<1> QED BY <1>1, SeatInvariance, PTL

(***************************************************************************)
(* The count a claim makes under the row lock stays true until it commits. *)
(***************************************************************************)
THEOREM LockedCountAlwaysStable == Spec => []LockedCountIsStable
<1>1. SeatInv => LockedCountIsStable
  BY DEF SeatInv
<1> QED BY <1>1, SeatInvariance, PTL
-----------------------------------------------------------------------------
(* The waitlist never oversells.                                           *)

(***************************************************************************)
(* Only four steps of the whole system take seats.                         *)
(***************************************************************************)
LEMMA WhoTakesSeats ==
    ASSUME TypeOK, Next
    PROVE  \/ ActiveTickets' \subseteq ActiveTickets
           \/ \E h \in Handlers : \/ BookSeats(h) \/ ClaimCommit(h)
                                  \/ "admin" \in Ops /\ AdminFulfil(h)
           \/ \E p \in Procs : PromoteDonation(p)
<1> USE DEF rows
<1>1. CASE \E h \in Handlers : Submit(h)
  BY <1>1 DEF Submit, BookRead, BookBegin, BookCount, BookWaitlist, ActiveTickets
<1>2. CASE \E h \in Handlers : Claim(h) \/ \E r \in Requests : ClaimRead(h, r)
  BY <1>2 DEF Claim, ClaimRead, ClaimRefused, ClaimLock, ActiveTickets
<1>3. CASE \E p \in Procs : PromoteAfterCancel(p) \/ SendMail(p)
  BY <1>3 DEF PromoteAfterCancel, PromoteRead, PromoteNobody, PromoteInvite,
              SendMail, ActiveTickets
<1>4. CASE "admin" \in Ops /\ \E h \in Handlers : Admin(h)
  BY <1>4 DEF Admin, PickRow, PickEvent, AdminPromote, ActiveTickets
<1>5. CASE \E b \in Bookings : MarkPaid(b)
  BY <1>5 DEF MarkPaid, ActiveTickets, SeatHolding
<1>6. CASE \E h \in Handlers : RefundCancel(h)
  BY <1>6, CancelSeats DEF RefundCancel
<1>7. ASSUME NEW h \in Handlers, GiveBackCancel(h)
      PROVE  ActiveTickets' \subseteq ActiveTickets
  <2>1. \A t \in Tickets : ticket'[t] = ticket[t] \/ ticket'[t] = "canceled"
    BY <1>7 DEF GiveBackCancel, TypeOK
  <2> QED BY <2>1 DEF ActiveTickets, SeatHolding
<1>8. ASSUME NEW t \in Tickets, CheckIn(t) \/ UndoCheckIn(t)
      PROVE  ActiveTickets' \subseteq ActiveTickets
  <2>1. ticket[t] \in {"paid", "checked_in"}
    BY <1>8 DEF CheckIn, UndoCheckIn
  <2>2. \A u \in Tickets : u # t => ticket'[u] = ticket[u]
    BY <1>8 DEF CheckIn, UndoCheckIn, TypeOK
  <2> QED BY <2>1, <2>2 DEF ActiveTickets, SeatHolding
<1>9. CASE PurgeTest
  BY <1>9 DEF PurgeTest, ActiveTickets, SeatHolding
<1>10. CASE \E b \in Bookings : SweepCancel(b)
  BY <1>10, CancelSeats DEF SweepCancel
<1>11. CASE \/ \E h \in Handlers : \/ \E b \in Bookings : RefundRead(h, b)
                                   \/ \E t \in Tickets : GiveBackRead(h, t)
                                   \/ RotateWaitlist(h)
            \/ \E r \in Requests : RemoveEntry(r) \/ DeadlinePasses(r) \/ SweepExpire(r)
            \/ \E b \in Bookings : Lapse(b)
            \/ \E e \in Settings : UpdateEvent(e)
            \/ SweepList \/ SweepPromote \/ SweepPromoted \/ SweepEntries \/ SweepSkip
            \/ Crash \/ \E p \in Procs : Drop(p)
  <2>1. ticket' = ticket
    BY <1>11 DEF RefundRead, GiveBackRead, RotateWaitlist, RemoveEntry,
                 DeadlinePasses, SweepExpire, Lapse, UpdateEvent, SweepList,
                 SweepPromote, SweepPromoted, SweepEntries, SweepSkip, Crash, Drop
  <2> QED BY <2>1 DEF ActiveTickets
<1> QED BY <1>1, <1>2, <1>3, <1>4, <1>5, <1>6, <1>7, <1>8, <1>9, <1>10, <1>11
        DEF Next, Sweep

(***************************************************************************)
(* A step that takes no seat oversells nothing.                            *)
(***************************************************************************)
LEMMA NoSeatTaken ==
    ASSUME ActiveTickets' \subseteq ActiveTickets
    PROVE  \A p \in Procs : SeatsWithinLimit(p)
<1>1. SeatsTaken' <= SeatsTaken
  BY FewerSeats
<1>2. SeatsTaken \in Nat /\ SeatsTaken' \in Nat
  BY SeatsTakenType, FS_Subset, FS_CardinalityType DEF SeatsTaken
<1> QED BY <1>1, <1>2 DEF SeatsWithinLimit

(***************************************************************************)
(* A claim takes as many seats as its row asked for.                       *)
(***************************************************************************)
LEMMA ClaimWithinLimit ==
    ASSUME SeatInv, NEW h \in Handlers, ClaimCommit(h)
    PROVE  SeatsTaken' <= task[h].ev.limit
<1> DEFINE r == task[h].req
           b == NewBooking(r)
<1>1. Claiming(h) /\ task[h] \in ClaimTask
  BY HandlersAreProcs, TaskKinds DEF ClaimCommit, Claiming, Doing, SeatInv, TypeOK
<1>2. b \in Bookings /\ b[1] = r
  BY <1>1, FreshBooking DEF ClaimCommit, ClaimTask
<1>3. ActiveTickets' \subseteq ActiveTickets \cup TicketsOf(b)
  <2>1. CreateBookings({b}, "booked", "none")
    BY DEF ClaimCommit
  <2>2. UNION {TicketsOf(c) : c \in {b}} = TicketsOf(b)
    OBVIOUS
  <2> HIDE DEF b
  <2> QED BY <1>2, <2>1, <2>2, CreateBookingsSeats
<1>4. SeatsTaken' <= SeatsTaken + Need[r]
  <2>1. IsFiniteSet(TicketsOf(b)) /\ Cardinality(TicketsOf(b)) = Need[r]
    BY <1>2, TicketsOfCount
  <2> HIDE DEF b, r
  <2> QED BY <1>3, <2>1, MoreSeats
<1>5. SeatsTaken <= task[h].seats /\ task[h].seats + Need[r] <= task[h].ev.limit
  BY <1>1 DEF SeatInv, LockedCountIsStable
<1>6. /\ SeatsTaken \in Nat /\ task[h].seats \in Nat /\ Need[r] \in Nat
      /\ task[h].ev.limit \in Nat
  <2>1. Limited(task[h].ev)
    BY <1>1, HandlersAreProcs DEF SeatInv, LimitsSeen, LimitSeen, Claiming, Doing
  <2> QED BY <1>1, <2>1, SeatsTakenType, BookingAssumption DEF ClaimTask, EventRow, Limited
<1>7. SeatsTaken' \in Nat
  <2>1. IsFiniteSet(ActiveTickets \cup TicketsOf(b))
    BY <1>2, SeatsTakenType, TicketsOfCount, FS_Union
  <2>2. IsFiniteSet(ActiveTickets')
    BY <1>3, <2>1, FS_Subset
  <2> QED BY <2>2, FS_CardinalityType DEF SeatsTaken
<1> QED BY <1>4, <1>5, <1>6, <1>7

(***************************************************************************)
(* A promotion takes as many seats as the rows it picked asked for, which  *)
(* is no more than remained (AllocationFits).                              *)
(***************************************************************************)
LEMMA PromotionWithinLimit ==
    ASSUME SeatInv, NEW p \in Procs, PromoteDonation(p)
    PROVE  SeatsTaken' <= task[p].ev.limit
<1> DEFINE rem == Remaining(task[p].ev)
<1>1. /\ task[p] \in PromoteTask /\ Doing(p, "promote") /\ task[p].at = "read"
  BY TaskKinds DEF PromoteDonation, InPromoteTx, Doing, SeatInv, TypeOK
<1>2. task[p].ev.limit \in Nat /\ SeatsTaken \in Nat
  <2>1. Limited(task[p].ev) /\ task[p].ev \in Settings
    BY <1>1 DEF SeatInv, LimitsSeen, LimitSeen, Doing, PromoteTask
  <2> QED BY <2>1, SeatsTakenType, BookingAssumption DEF EventRow, Limited
<1>3. PICK P \in SUBSET Waiting :
          /\ Promotions(P, task[p].ev)
          /\ \A r \in P : Fresh(r) # {}
          /\ CreateBookings({NewBooking(r) : r \in P}, "paid", "donation")
  BY DEF PromoteDonation
<1>4. P \subseteq Requests /\ Waiting \subseteq Requests
      /\ IsFiniteSet(Waiting) /\ IsFiniteSet(P)
  BY BookingAssumption, FS_Subset DEF Waiting
<1>5. rem \in Nat
  BY <1>2, <1>3 DEF Promotions, Remaining
<1>6. SeatCount(P, Need) <= rem
  <2>1. \A r \in Waiting : Need[r] \in Nat /\ stamp[r] \in Int
    BY <1>4, BookingAssumption DEF SeatInv, TypeOK
  <2>2. \A r, s \in Waiting : stamp[r] = stamp[s] => r = s
    BY <1>4 DEF Waiting, SeatInv, StampOrder
  <2>3. IsAllocation(P, Waiting, stamp, Need, rem)
    BY <1>3 DEF Promotions
  <2> HIDE DEF rem
  <2> QED BY <1>4, <1>5, <2>1, <2>2, <2>3, AllocationFits
<1> DEFINE new == UNION {TicketsOf(b) : b \in {NewBooking(r) : r \in P}}
           seats == SeatsOf(P, Need)
           of == [s \in seats |-> <<NewBooking(s[1]), s[2]>>]
<1>7. IsFiniteSet(new) /\ Cardinality(new) <= SeatCount(P, Need)
  <2>1. IsFiniteSet(seats)
    BY <1>4, SeatsOfFinite, BookingAssumption
  <2>2. of \in Surjection(seats, new)
    <3>1. ASSUME NEW s \in seats PROVE of[s] \in new
      <4>1. PICK r \in P : s \in {r} \X (1..Need[r])
        BY DEF SeatsOf
      <4>2. NewBooking(r) \in {NewBooking(q) : q \in P} /\ NewBooking(r)[1] = r
        BY <1>3, <1>4, FreshBooking
      <4>3. of[s] = <<NewBooking(r), s[2]>> /\ s[2] \in 1..Need[r]
        BY <4>1
      <4>4. of[s] \in TicketsOf(NewBooking(r))
        BY <4>2, <4>3 DEF TicketsOf
      <4> QED BY <4>2, <4>4
    <3>2. ASSUME NEW t \in new PROVE \E s \in seats : of[s] = t
      <4>1. PICK r \in P : t \in TicketsOf(NewBooking(r))
        OBVIOUS
      <4>2. NewBooking(r)[1] = r
        BY <1>3, <1>4, FreshBooking
      <4>3. t = <<NewBooking(r), t[2]>> /\ t[2] \in 1..Need[r]
        BY <4>1, <4>2 DEF TicketsOf
      <4>4. <<r, t[2]>> \in seats
        BY <4>3 DEF SeatsOf
      <4>5. of[<<r, t[2]>>] = t
        BY <4>3, <4>4
      <4> QED BY <4>4, <4>5
    <3> HIDE DEF new, seats
    <3> QED BY <3>1, <3>2 DEF Surjection
  <2> HIDE DEF new, of
  <2> QED BY <2>1, <2>2, FS_Surjection DEF SeatCount
<1>8. ActiveTickets' \subseteq ActiveTickets \cup new
  <2> DEFINE B == {NewBooking(r) : r \in P}
  <2>1. B \in SUBSET Bookings
    BY <1>3, <1>4, FreshBooking
  <2>2. CreateBookings(B, "paid", "donation")
    BY <1>3
  <2> HIDE DEF B
  <2>3. ActiveTickets' \subseteq ActiveTickets \cup UNION {TicketsOf(b) : b \in B}
    BY <2>1, <2>2, CreateBookingsSeats
  <2> QED BY <2>3 DEF B
<1> HIDE DEF new
<1>9. SeatsTaken' <= SeatsTaken + Cardinality(new)
  BY <1>7, <1>8, MoreSeats
<1>10. SeatsTaken' \in Nat /\ Cardinality(new) \in Nat
  <2>1. IsFiniteSet(ActiveTickets \cup new)
    BY <1>7, SeatsTakenType, FS_Union
  <2>2. IsFiniteSet(ActiveTickets')
    BY <1>8, <2>1, FS_Subset
  <2> QED BY <1>7, <2>2, FS_CardinalityType DEF SeatsTaken
<1>11. SeatCount(P, Need) \in Nat
  BY <1>4, SeatsOfFinite, BookingAssumption
<1> QED BY <1>2, <1>6, <1>7, <1>9, <1>10, <1>11 DEF Remaining

(***************************************************************************)
(* When a claim or a promotion takes seats, the event ends up within the   *)
(* limit it went by: for any number of submissions, rows, seats, handlers  *)
(* and settings, and whatever else happens meanwhile.                      *)
(***************************************************************************)
THEOREM NeverOversells == Spec => WaitlistNeverOversells
<1>1. SeatInv /\ [Next]_vars => [\A p \in Procs : SeatsWithinLimit(p)]_vars
  <2> SUFFICES ASSUME SeatInv, Next PROVE \A p \in Procs : SeatsWithinLimit(p)
    OBVIOUS
  <2> task \in [Procs -> Task]
    BY DEF SeatInv, TypeOK
  <2>1. CASE ActiveTickets' \subseteq ActiveTickets
    BY <2>1, NoSeatTaken
  <2>2. ASSUME NEW h \in Handlers, BookSeats(h) \/ AdminFulfil(h)
        PROVE  \A p \in Procs : SeatsWithinLimit(p)
    BY <2>2, HandlersAreProcs DEF BookSeats, AdminFulfil, Goto, Doing, SeatsWithinLimit
  <2>3. ASSUME NEW h \in Handlers, ClaimCommit(h)
        PROVE  \A p \in Procs : SeatsWithinLimit(p)
    <3>1. \A p \in Procs : p # h => task'[p] = task[p]
      BY <2>3, HandlersAreProcs DEF ClaimCommit, Goto
    <3> QED BY <2>3, <3>1, ClaimWithinLimit DEF SeatsWithinLimit
  <2>4. ASSUME NEW q \in Procs, PromoteDonation(q)
        PROVE  \A p \in Procs : SeatsWithinLimit(p)
    <3>1. \A p \in Procs : p # q => task'[p] = task[p]
      BY <2>4 DEF PromoteDonation, Goto
    <3> QED BY <2>4, <3>1, PromotionWithinLimit DEF SeatsWithinLimit
  <2> QED BY <2>1, <2>2, <2>3, <2>4, WhoTakesSeats DEF SeatInv
<1> QED BY <1>1, SeatInvariance, PTL DEF Spec, WaitlistNeverOversells
=============================================================================
