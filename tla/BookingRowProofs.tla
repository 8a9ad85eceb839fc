--------------------------- MODULE BookingRowProofs ---------------------------
(***************************************************************************)
(* Theorems about the rows of Booking: tickets agree with their booking,   *)
(* fulfilled waitlist rows name theirs, what is final stays final, a       *)
(* submission yields one booking, promotions are fair, overselling is      *)
(* bounded, and Booking implements Submission.                             *)
(***************************************************************************)
EXTENDS BookingProofs, BookingRefinement

(* Tickets and bookings.                                                   *)

\* TicketsFollowBooking, of one ticket.
Agree(status, t) ==
    /\ status \in {"none", "purged"} => t = "none"
    /\ status = "canceled" => t = "canceled"
    /\ status = "booked" => t \in {"booked", "canceled"}
    /\ status = "paid" => t \in {"paid", "checked_in", "canceled"}

(***************************************************************************)
(* The property speaks of each ticket by itself.                           *)
(***************************************************************************)
LEMMA FollowsByTicket ==
    TicketsFollowBooking <=>
        \A b \in Bookings : \A t \in TicketsOf(b) : Agree(booking[b].status, ticket[t])
  BY DEF TicketsFollowBooking, Agree

(***************************************************************************)
(* A ticket of a booking carries it.                                       *)
(***************************************************************************)
LEMMA TicketOf ==
    ASSUME NEW b \in Bookings, NEW t \in TicketsOf(b)
    PROVE  t \in Tickets /\ t[1] = b
  BY DEF Tickets, TicketsOf

(***************************************************************************)
(* CreateBooking gives its tickets the status of the booking.              *)
(***************************************************************************)
LEMMA CreateFollows ==
    ASSUME TypeOK, TicketsFollowBooking, NEW B, NEW status \in {"booked", "paid"},
           NEW method, CreateBookings(B, status, method)
    PROVE  TicketsFollowBooking'
<1> SUFFICES ASSUME NEW b \in Bookings, NEW t \in TicketsOf(b)
             PROVE  Agree(booking'[b].status, ticket'[t])
  BY DEF TicketsFollowBooking, Agree
<1>1. t \in Tickets /\ t[1] = b
  BY TicketOf
<1>2. Agree(booking[b].status, ticket[t])
  BY FollowsByTicket
<1>3. /\ booking'[b] = IF b \in B THEN [status |-> status, method |-> method]
                       ELSE booking[b]
      /\ ticket'[t] = IF b \in B THEN status ELSE ticket[t]
  BY <1>1 DEF CreateBookings
<1>4. CASE b \in B
  <2>1. booking'[b].status = status /\ ticket'[t] = status
    BY <1>3, <1>4
  <2> QED BY <2>1 DEF Agree
<1>5. CASE b \notin B
  BY <1>2, <1>3, <1>5
<1> QED BY <1>4, <1>5

(***************************************************************************)
(* CancelBookingAndTickets cancels all tickets of the booking, or nothing. *)
(***************************************************************************)
LEMMA CancelFollows ==
    ASSUME TypeOK, TicketsFollowBooking, NEW c \in Bookings, CancelBookingAndTickets(c)
    PROVE  TicketsFollowBooking'
<1> SUFFICES ASSUME NEW b \in Bookings, NEW t \in TicketsOf(b)
             PROVE  Agree(booking'[b].status, ticket'[t])
  BY DEF TicketsFollowBooking, Agree
<1>1. t \in Tickets /\ t[1] = b
  BY TicketOf
<1>2. Agree(booking[b].status, ticket[t])
  BY FollowsByTicket
<1>3. CASE b = c /\ booking[c].status \in {"booked", "paid"}
  <2>1. booking'[b].status = "canceled" /\ ticket'[t] = "canceled"
    BY <1>1, <1>3 DEF CancelBookingAndTickets, TypeOK
  <2> QED BY <2>1 DEF Agree
<1>4. CASE ~ (b = c /\ booking[c].status \in {"booked", "paid"})
  <2>1. booking'[b] = booking[b] /\ ticket'[t] = ticket[t]
    BY <1>1, <1>4 DEF CancelBookingAndTickets, TypeOK
  <2> QED BY <1>2, <2>1
<1> QED BY <1>3, <1>4

(***************************************************************************)
(* Payment, the door, the holder's cancel and the purge.                   *)
(***************************************************************************)
LEMMA PaymentFollows ==
    ASSUME TypeOK, TicketsFollowBooking,
           \/ \E c \in Bookings : MarkPaid(c)
           \/ \E u \in Tickets : CheckIn(u) \/ UndoCheckIn(u)
           \/ \E h \in Handlers : GiveBackCancel(h)
           \/ PurgeTest
    PROVE  TicketsFollowBooking'
<1> SUFFICES ASSUME NEW b \in Bookings, NEW t \in TicketsOf(b)
             PROVE  Agree(booking'[b].status, ticket'[t])
  BY DEF TicketsFollowBooking, Agree
<1>1. t \in Tickets /\ t[1] = b
  BY TicketOf
<1>2. Agree(booking[b].status, ticket[t])
  BY FollowsByTicket
<1>3. ASSUME NEW c \in Bookings, MarkPaid(c)
      PROVE  Agree(booking'[b].status, ticket'[t])
  <2>1. ticket'[t] = IF b = c /\ ticket[t] = "booked" THEN "paid" ELSE ticket[t]
    BY <1>1, <1>3 DEF MarkPaid
  <2>2. CASE b = c
    <3>1. booking[b].status = "booked" /\ booking'[b].status = "paid"
      BY <1>3, <2>2 DEF MarkPaid, TypeOK
    <3> QED BY <1>2, <2>1, <2>2, <3>1 DEF Agree
  <2>3. CASE b # c
    <3>1. booking'[b] = booking[b]
      BY <1>3, <2>3 DEF MarkPaid, TypeOK
    <3> QED BY <1>2, <2>1, <2>3, <3>1
  <2> QED BY <2>2, <2>3
<1>4. ASSUME NEW u \in Tickets, CheckIn(u) \/ UndoCheckIn(u)
      PROVE  Agree(booking'[b].status, ticket'[t])
  <2>1. /\ booking' = booking
        /\ \/ ticket'[t] = ticket[t]
           \/ ticket[t] = "paid" /\ ticket'[t] = "checked_in"
           \/ ticket[t] = "checked_in" /\ ticket'[t] = "paid"
    BY <1>1, <1>4 DEF CheckIn, UndoCheckIn, TypeOK
  <2>2. booking[b].status \in BookingStatus
    BY DEF TypeOK
  <2> QED BY <1>2, <2>1, <2>2 DEF Agree, BookingStatus
<1>5. ASSUME NEW h \in Handlers, GiveBackCancel(h)
      PROVE  Agree(booking'[b].status, ticket'[t])
  <2>1. /\ booking' = booking
        /\ \/ ticket'[t] = ticket[t]
           \/ ticket[t] \in {"booked", "paid"} /\ ticket'[t] = "canceled"
    BY <1>1, <1>5 DEF GiveBackCancel, Cancelable, TypeOK
  <2>2. booking[b].status \in BookingStatus
    BY DEF TypeOK
  <2> QED BY <1>2, <2>1, <2>2 DEF Agree, BookingStatus
<1>6. CASE PurgeTest
  <2> DEFINE T == {c \in Bookings : /\ booking[c].method = "test"
                                    /\ booking[c].status \notin {"none", "purged"}}
  <2>1. /\ booking'[b] = IF b \in T THEN [booking[b] EXCEPT !.status = "purged"]
                         ELSE booking[b]
        /\ ticket'[t] = IF b \in T THEN "none" ELSE ticket[t]
    BY <1>1, <1>6 DEF PurgeTest
  <2> HIDE DEF T
  <2>2. CASE b \in T
    <3>1. booking'[b].status = "purged" /\ ticket'[t] = "none"
      BY <2>1, <2>2 DEF TypeOK
    <3> QED BY <3>1 DEF Agree
  <2>3. CASE b \notin T
    BY <1>2, <2>1, <2>3
  <2> QED BY <2>2, <2>3
<1> QED BY <1>3, <1>4, <1>5, <1>6

(***************************************************************************)
(* Every step keeps tickets and bookings in agreement.                     *)
(***************************************************************************)
LEMMA FollowsStep ==
    ASSUME TypeOK, TicketsFollowBooking, [Next]_vars
    PROVE  TicketsFollowBooking'
<1> USE DEF rows
<1>1. CASE UNCHANGED <<booking, ticket>>
  BY <1>1 DEF TicketsFollowBooking
<1>2. ASSUME NEW h \in Handlers, BookSeats(h) PROVE TicketsFollowBooking'
  <2>1. \E B, method : \E status \in {"booked", "paid"} :
           CreateBookings(B, status, method)
    BY <1>2 DEF BookSeats
  <2> QED BY <2>1, CreateFollows
<1>3. ASSUME NEW h \in Handlers, ClaimCommit(h) \/ AdminFulfil(h)
      PROVE  TicketsFollowBooking'
  <2>1. \E B, method : \E status \in {"booked", "paid"} :
           CreateBookings(B, status, method)
    BY <1>3 DEF ClaimCommit, AdminFulfil
  <2> QED BY <2>1, CreateFollows
<1>4. ASSUME NEW p \in Procs, PromoteDonation(p) PROVE TicketsFollowBooking'
  <2>1. \E B, method : \E status \in {"booked", "paid"} :
           CreateBookings(B, status, method)
    BY <1>4 DEF PromoteDonation
  <2> QED BY <2>1, CreateFollows
<1>5. ASSUME NEW h \in Handlers, RefundCancel(h) PROVE TicketsFollowBooking'
  <2>1. task[h].of \in Bookings
    BY <1>5, HandlersAreProcs, TaskKinds DEF RefundCancel, Doing, TypeOK, RefundTask
  <2> QED BY <1>5, <2>1, CancelFollows DEF RefundCancel
<1>6. ASSUME NEW b \in Bookings, SweepCancel(b) PROVE TicketsFollowBooking'
  BY <1>6, CancelFollows DEF SweepCancel
<1>7. CASE Next
  <2>1. CASE \E h \in Handlers : Submit(h)
    BY <1>1, <1>2, <2>1 DEF Submit, BookRead, BookBegin, BookCount, BookWaitlist
  <2>2. CASE \E h \in Handlers : Claim(h) \/ \E r \in Requests : ClaimRead(h, r)
    BY <1>1, <1>3, <2>2 DEF Claim, ClaimRead, ClaimRefused, ClaimLock
  <2>3. CASE \E p \in Procs : PromoteAfterCancel(p) \/ SendMail(p)
    BY <1>1, <1>4, <2>3 DEF PromoteAfterCancel, PromoteRead, PromoteNobody,
                            PromoteInvite, SendMail
  <2>4. CASE \E h \in Handlers : Admin(h)
    BY <1>1, <1>3, <2>4 DEF Admin, PickRow, PickEvent, AdminPromote
  <2>5. CASE Sweep
    BY <1>1, <1>6, <2>5 DEF Sweep, SweepList, SweepPromote, SweepPromoted,
                            SweepEntries, SweepExpire
  <2>6. CASE \/ \E h \in Handlers : \/ \E b \in Bookings : RefundRead(h, b)
                                    \/ \E t \in Tickets : GiveBackRead(h, t)
                                    \/ RotateWaitlist(h)
             \/ \E r \in Requests : RemoveEntry(r) \/ DeadlinePasses(r)
             \/ \E b \in Bookings : Lapse(b)
             \/ \E e \in Settings : UpdateEvent(e)
             \/ SweepSkip \/ Crash \/ \E p \in Procs : Drop(p)
    BY <1>1, <2>6 DEF RefundRead, GiveBackRead, RotateWaitlist, RemoveEntry,
                      DeadlinePasses, Lapse, UpdateEvent, SweepSkip, Crash, Drop
  <2> QED BY <1>5, <1>7, <2>1, <2>2, <2>3, <2>4, <2>5, <2>6, PaymentFollows DEF Next
<1>8. CASE UNCHANGED vars
  BY <1>1, <1>8 DEF vars
<1> QED BY <1>7, <1>8

(***************************************************************************)
(* Through payments, refunds, holder cancels, the door and the sweeper,    *)
(* the tickets of a booking agree with its status.                         *)
(***************************************************************************)
THEOREM TicketsAlwaysFollow == Spec => []TicketsFollowBooking
<1>1. Init => TicketsFollowBooking
  <2> SUFFICES ASSUME Init, NEW b \in Bookings, NEW t \in TicketsOf(b)
               PROVE  Agree(booking[b].status, ticket[t])
    BY FollowsByTicket
  <2>1. booking[b].status = "none" /\ ticket[t] = "none"
    BY TicketOf DEF Init
  <2> QED BY <2>1 DEF Agree
<1>2. TypeOK /\ TicketsFollowBooking /\ [Next]_vars => TicketsFollowBooking'
  BY FollowsStep
<1> QED BY <1>1, <1>2, TypeCorrect, PTL DEF Spec
-----------------------------------------------------------------------------
(* What a step does to the rows.                                           *)

\* A booking once made is never unmade; what is canceled is never revived.
BookingsMove ==
    /\ \A b \in Bookings :
          /\ booking[b].status # "none" => booking'[b].status # "none"
          /\ booking[b].status \in {"canceled", "purged"} =>
                booking'[b].status \in {"canceled", "purged"}
    /\ \A t \in Tickets : ticket[t] = "canceled" => ticket'[t] \in {"canceled", "none"}

\* A submission that is under way is so once, and has no waitlist row yet.
SubmittedOnce ==
    /\ \A g, h \in Handlers :
          (Doing(g, "book") /\ Doing(h, "book") /\ task[g].req = task[h].req) => g = h
    /\ \A h \in Handlers : Doing(h, "book") => entry[task[h].req] = "none"

EntryMove(r) ==
    \/ entry'[r] = entry[r]
    \/ entry[r] = "none" /\ entry'[r] = "waiting"
    \/ entry[r] = "waiting" /\ entry'[r] = "promoted"
    \/ /\ entry[r] \in {"waiting", "promoted", "expired"}
       /\ entry'[r] \in {"fulfilled", "expired", "removed"}

\* A row names a booking in the step that fulfils it, and only then.
NamingMove(r) ==
    IF entry'[r] = "fulfilled" /\ entry[r] # "fulfilled"
    THEN /\ fulfilledBy'[r] \in Bookings /\ fulfilledBy'[r][1] = r
         /\ booking'[fulfilledBy'[r]].status # "none"
    ELSE fulfilledBy'[r] = fulfilledBy[r]

EntriesMove == \A r \in Requests : EntryMove(r) /\ NamingMove(r)

(***************************************************************************)
(* CreateBooking revives nothing: the booking is new, its tickets with it. *)
(***************************************************************************)
LEMMA CreateMoves ==
    ASSUME TicketsFollowBooking, NEW B, NEW status \in {"booked", "paid"}, NEW method,
           CreateBookings(B, status, method),
           \A b \in B : b \in Bookings /\ booking[b].status = "none"
    PROVE  BookingsMove
<1>1. ASSUME NEW b \in Bookings
      PROVE  /\ booking[b].status # "none" => booking'[b].status # "none"
             /\ booking[b].status \in {"canceled", "purged"} =>
                   booking'[b].status \in {"canceled", "purged"}
  <2>1. b \notin B => booking'[b] = booking[b]
    BY DEF CreateBookings
  <2> QED BY <2>1
<1>2. ASSUME NEW t \in Tickets, ticket[t] = "canceled"
      PROVE  ticket'[t] \in {"canceled", "none"}
  <2>1. PICK b \in Bookings : t \in TicketsOf(b) /\ t[1] = b
    BY TicketOf DEF Tickets
  <2>2. booking[b].status # "none"
    BY <1>2, <2>1, FollowsByTicket DEF Agree
  <2>3. ticket'[t] = ticket[t]
    BY <2>1, <2>2 DEF CreateBookings
  <2> QED BY <1>2, <2>3
<1> QED BY <1>1, <1>2 DEF BookingsMove

(***************************************************************************)
(* Every step moves bookings and tickets forward.                          *)
(***************************************************************************)
LEMMA BookingsStep ==
    ASSUME TypeOK, TicketsFollowBooking, [Next]_vars
    PROVE  BookingsMove
<1> USE DEF rows
<1>1. CASE UNCHANGED <<booking, ticket>>
  BY <1>1 DEF BookingsMove
<1>2. ASSUME NEW R \in SUBSET Requests, \A r \in R : Fresh(r) # {},
             NEW status \in {"booked", "paid"}, NEW method,
             CreateBookings({NewBooking(r) : r \in R}, status, method)
      PROVE  BookingsMove
  <2>1. \A b \in {NewBooking(r) : r \in R} : b \in Bookings /\ booking[b].status = "none"
    BY <1>2, FreshBooking
  <2> QED BY <1>2, <2>1, CreateMoves
<1>3. ASSUME NEW h \in Handlers, BookSeats(h) \/ ClaimCommit(h) \/ AdminFulfil(h)
      PROVE  BookingsMove
  <2> DEFINE r == task[h].req
  <2>1. r \in Requests
    BY <1>3, HandlersAreProcs, TaskKinds
       DEF BookSeats, ClaimCommit, AdminFulfil, Doing, TypeOK, BookTask, ClaimTask, AdminTask
  <2>2. Fresh(r) # {}
    BY <1>3 DEF BookSeats, ClaimCommit, AdminFulfil
  <2>3. {NewBooking(r)} = {NewBooking(s) : s \in {r}}
    OBVIOUS
  <2>4. \E method : \E status \in {"booked", "paid"} :
           CreateBookings({NewBooking(r)}, status, method)
    BY <1>3 DEF BookSeats, ClaimCommit, AdminFulfil
  <2> HIDE DEF r
  <2>5. \E method : \E status \in {"booked", "paid"} :
           CreateBookings({NewBooking(s) : s \in {r}}, status, method)
    BY <2>3, <2>4
  <2> QED BY <1>2, <2>1, <2>2, <2>5
<1>4. ASSUME NEW p \in Procs, PromoteDonation(p) PROVE BookingsMove
  <2>1. \E P \in SUBSET Waiting : /\ \A r \in P : Fresh(r) # {}
                                  /\ CreateBookings({NewBooking(r) : r \in P}, "paid", "donation")
    BY <1>4 DEF PromoteDonation
  <2>2. Waiting \subseteq Requests
    BY DEF Waiting
  <2> QED BY <1>2, <2>1, <2>2
<1>5. ASSUME NEW b, CancelBookingAndTickets(b) PROVE BookingsMove
  BY <1>5 DEF CancelBookingAndTickets, BookingsMove, TypeOK
<1>6. ASSUME NEW b \in Bookings, SweepCancel(b) PROVE BookingsMove
  BY <1>5, <1>6 DEF SweepCancel
<1>7. CASE Next
  <2>1. CASE \E h \in Handlers : Submit(h)
    BY <1>1, <1>3, <2>1 DEF Submit, BookRead, BookBegin, BookCount, BookWaitlist
  <2>2. CASE \E h \in Handlers : Claim(h) \/ \E r \in Requests : ClaimRead(h, r)
    BY <1>1, <1>3, <2>2 DEF Claim, ClaimRead, ClaimRefused, ClaimLock
  <2>3. CASE \E p \in Procs : PromoteAfterCancel(p) \/ SendMail(p)
    BY <1>1, <1>4, <2>3 DEF PromoteAfterCancel, PromoteRead, PromoteNobody,
                            PromoteInvite, SendMail
  <2>4. CASE \E h \in Handlers : Admin(h)
    BY <1>1, <1>3, <2>4 DEF Admin, PickRow, PickEvent, AdminPromote
  <2>5. CASE \/ SweepList \/ SweepPromote \/ SweepPromoted \/ SweepEntries
             \/ \E r \in Requests : SweepExpire(r)
    BY <1>1, <2>5 DEF SweepList, SweepPromote, SweepPromoted, SweepEntries, SweepExpire
  <2>6. CASE \/ \E h \in Handlers : \/ \E b \in Bookings : RefundRead(h, b)
                                    \/ \E t \in Tickets : GiveBackRead(h, t)
                                    \/ RotateWaitlist(h)
             \/ \E r \in Requests : RemoveEntry(r) \/ DeadlinePasses(r)
             \/ \E b \in Bookings : Lapse(b)
             \/ \E e \in Settings : UpdateEvent(e)
             \/ SweepSkip \/ Crash \/ \E p \in Procs : Drop(p)
    BY <1>1, <2>6 DEF RefundRead, GiveBackRead, RotateWaitlist, RemoveEntry,
                      DeadlinePasses, Lapse, UpdateEvent, SweepSkip, Crash, Drop
  <2>7. CASE \E h \in Handlers : RefundCancel(h)
    BY <1>5, <2>7 DEF RefundCancel
  <2>8. CASE \E h \in Handlers : GiveBackCancel(h)
    BY <2>8 DEF GiveBackCancel, Cancelable, BookingsMove, TypeOK
  <2>9. CASE \E b \in Bookings : MarkPaid(b)
    BY <2>9 DEF MarkPaid, BookingsMove, TypeOK
  <2>10. CASE \E t \in Tickets : CheckIn(t) \/ UndoCheckIn(t)
    BY <2>10 DEF CheckIn, UndoCheckIn, BookingsMove, TypeOK
  <2>11. CASE PurgeTest
    <3> DEFINE T == {c \in Bookings : /\ booking[c].method = "test"
                                      /\ booking[c].status \notin {"none", "purged"}}
    <3>1. /\ booking' = [b \in Bookings |->
                           IF b \in T THEN [booking[b] EXCEPT !.status = "purged"]
                           ELSE booking[b]]
          /\ ticket' = [t \in Tickets |-> IF t[1] \in T THEN "none" ELSE ticket[t]]
      BY <2>11 DEF PurgeTest
    <3> HIDE DEF T
    <3>2. \A b \in Bookings : \/ booking'[b].status = "purged"
                              \/ booking'[b] = booking[b]
      BY <3>1 DEF TypeOK
    <3> QED BY <3>1, <3>2 DEF BookingsMove
  <2> QED BY <1>6, <1>7, <2>1, <2>2, <2>3, <2>4, <2>5, <2>6, <2>7, <2>8, <2>9,
             <2>10, <2>11 DEF Next, Sweep
<1>8. CASE UNCHANGED vars
  BY <1>1, <1>8 DEF vars
<1> QED BY <1>7, <1>8

(***************************************************************************)
(* MarkWaitlistFulfilled, in a transaction that made the bookings, names   *)
(* each row's own.                                                         *)
(***************************************************************************)
LEMMA FulfilMoves ==
    ASSUME NEW R \in SUBSET Requests, \A r \in R : Fresh(r) # {},
           NEW status \in {"booked", "paid"}, NEW method,
           CreateBookings({NewBooking(r) : r \in R}, status, method), MarkFulfilled(R)
    PROVE  EntriesMove
<1> SUFFICES ASSUME NEW r \in Requests PROVE EntryMove(r) /\ NamingMove(r)
  BY DEF EntriesMove
<1>1. CASE r \in R /\ entry[r] \in {"waiting", "promoted"}
  <2>1. entry'[r] = "fulfilled" /\ fulfilledBy'[r] = NewBooking(r)
    BY <1>1 DEF MarkFulfilled
  <2>2. NewBooking(r) \in Bookings /\ NewBooking(r)[1] = r
    BY <1>1, FreshBooking
  <2>3. booking'[NewBooking(r)].status = status
    BY <1>1, <2>2 DEF CreateBookings
  <2> QED BY <1>1, <2>1, <2>2, <2>3 DEF EntryMove, NamingMove
<1>2. CASE ~ (r \in R /\ entry[r] \in {"waiting", "promoted"})
  <2>1. entry'[r] = entry[r] /\ fulfilledBy'[r] = fulfilledBy[r]
    BY <1>2 DEF MarkFulfilled
  <2> QED BY <2>1 DEF EntryMove, NamingMove
<1> QED BY <1>1, <1>2

(***************************************************************************)
(* Every step moves the rows of the waitlist forward.                      *)
(***************************************************************************)
LEMMA EntriesStep ==
    ASSUME TypeOK, SubmittedOnce, [Next]_vars
    PROVE  EntriesMove
<1> USE DEF queue
<1>1. CASE UNCHANGED <<entry, fulfilledBy>>
  BY <1>1 DEF EntriesMove, EntryMove, NamingMove
<1>2. ASSUME NEW r \in Requests, NEW status, entry' = [entry EXCEPT ![r] = status],
             \/ status = entry[r]
             \/ entry[r] = "none" /\ status = "waiting"
             \/ entry[r] = "waiting" /\ status = "promoted"
             \/ /\ entry[r] \in {"waiting", "promoted", "expired"}
                /\ status \in {"expired", "removed"},
             fulfilledBy' = fulfilledBy
      PROVE  EntriesMove
  <2>1. \A s \in Requests : entry'[s] = IF s = r THEN status ELSE entry[s]
    BY <1>2 DEF TypeOK
  <2>2. \A s \in Requests : EntryMove(s)
    BY <1>2, <2>1 DEF EntryMove
  <2>3. \A s \in Requests : ~ (entry'[s] = "fulfilled" /\ entry[s] # "fulfilled")
    BY <1>2, <2>1
  <2> QED BY <1>2, <2>2, <2>3 DEF EntriesMove, NamingMove
<1>3. ASSUME NEW h \in Handlers, ClaimCommit(h) \/ AdminFulfil(h)
      PROVE  EntriesMove
  <2> DEFINE r == task[h].req
  <2>1. r \in Requests
    BY <1>3, HandlersAreProcs, TaskKinds
       DEF ClaimCommit, AdminFulfil, Doing, TypeOK, ClaimTask, AdminTask
  <2>2. Fresh(r) # {} /\ MarkFulfilled({r})
    BY <1>3 DEF ClaimCommit, AdminFulfil
  <2>3. {NewBooking(r)} = {NewBooking(s) : s \in {r}}
    OBVIOUS
  <2>4. \E method : \E status \in {"booked", "paid"} :
           CreateBookings({NewBooking(r)}, status, method)
    BY <1>3 DEF ClaimCommit, AdminFulfil
  <2> HIDE DEF r
  <2>5. \E method : \E status \in {"booked", "paid"} :
           CreateBookings({NewBooking(s) : s \in {r}}, status, method)
    BY <2>3, <2>4
  <2> QED BY <2>1, <2>2, <2>5, FulfilMoves
<1>4. ASSUME NEW p \in Procs, PromoteDonation(p) PROVE EntriesMove
  <2>1. \E P \in SUBSET Waiting : /\ \A r \in P : Fresh(r) # {}
                                  /\ CreateBookings({NewBooking(r) : r \in P}, "paid", "donation")
                                  /\ MarkFulfilled(P)
    BY <1>4 DEF PromoteDonation
  <2>2. Waiting \subseteq Requests
    BY DEF Waiting
  <2> QED BY <2>1, <2>2, FulfilMoves
<1>5. ASSUME NEW h \in Handlers, BookWaitlist(h) PROVE EntriesMove
  <2>1. task[h].req \in Requests /\ entry[task[h].req] = "none"
    BY <1>5, HandlersAreProcs, TaskKinds
       DEF BookWaitlist, Doing, SubmittedOnce, TypeOK, BookTask
  <2>2. entry' = [entry EXCEPT ![task[h].req] = "waiting"] /\ fulfilledBy' = fulfilledBy
    BY <1>5 DEF BookWaitlist
  <2> QED BY <1>2, <2>1, <2>2
<1>6. ASSUME NEW h \in Handlers, AdminPromote(h) PROVE EntriesMove
  <2>1. task[h].req \in Requests
    BY <1>6, HandlersAreProcs, TaskKinds DEF AdminPromote, Doing, TypeOK, AdminTask
  <2>2. /\ entry' = [entry EXCEPT ![task[h].req] =
                       IF entry[task[h].req] = "waiting" THEN "promoted"
                       ELSE entry[task[h].req]]
        /\ fulfilledBy' = fulfilledBy
    BY <1>6 DEF AdminPromote
  <2> QED BY <1>2, <2>1, <2>2
<1>7. ASSUME NEW r \in Requests, RemoveEntry(r) \/ SweepExpire(r) PROVE EntriesMove
  <2>1. CASE RemoveEntry(r)
    <3>1. /\ entry[r] \in {"waiting", "promoted", "expired"}
          /\ entry' = [entry EXCEPT ![r] = "removed"] /\ fulfilledBy' = fulfilledBy
      BY <2>1 DEF RemoveEntry
    <3> QED BY <1>2, <3>1
  <2>2. CASE SweepExpire(r)
    <3>1. /\ entry' = [entry EXCEPT ![r] = IF entry[r] = "promoted" THEN "expired"
                                           ELSE entry[r]]
          /\ fulfilledBy' = fulfilledBy
      BY <2>2 DEF SweepExpire
    <3> QED BY <1>2, <3>1
  <2> QED BY <1>7, <2>1, <2>2
<1>8. CASE Next
  <2>1. CASE \E h \in Handlers : Submit(h)
    BY <1>1, <1>5, <2>1 DEF Submit, BookRead, BookBegin, BookCount, BookSeats
  <2>2. CASE \E h \in Handlers : Claim(h) \/ \E r \in Requests : ClaimRead(h, r)
    BY <1>1, <1>3, <2>2 DEF Claim, ClaimRead, ClaimRefused, ClaimLock
  <2>3. CASE \E p \in Procs : PromoteAfterCancel(p) \/ SendMail(p)
    BY <1>1, <1>4, <2>3 DEF PromoteAfterCancel, PromoteRead, PromoteNobody,
                            PromoteInvite, SendMail
  <2>4. CASE \E h \in Handlers : Admin(h)
    BY <1>1, <1>3, <1>6, <2>4 DEF Admin, PickRow, PickEvent
  <2>5. CASE Sweep
    BY <1>1, <1>7, <2>5 DEF Sweep, SweepList, SweepPromote, SweepPromoted,
                            SweepEntries, SweepCancel
  <2>6. CASE \/ \E h \in Handlers : \/ \E b \in Bookings : RefundRead(h, b)
                                    \/ \E t \in Tickets : GiveBackRead(h, t)
                                    \/ RotateWaitlist(h)
                                    \/ RefundCancel(h) \/ GiveBackCancel(h)
             \/ \E r \in Requests : DeadlinePasses(r)
             \/ \E b \in Bookings : Lapse(b) \/ MarkPaid(b)
             \/ \E t \in Tickets : CheckIn(t) \/ UndoCheckIn(t)
             \/ \E e \in Settings : UpdateEvent(e)
             \/ PurgeTest \/ SweepSkip \/ Crash \/ \E p \in Procs : Drop(p)
    BY <1>1, <2>6 DEF RefundRead, GiveBackRead, RotateWaitlist, RefundCancel,
                      GiveBackCancel, DeadlinePasses, Lapse, MarkPaid, CheckIn,
                      UndoCheckIn, UpdateEvent, PurgeTest, SweepSkip, Crash, Drop
  <2> QED BY <1>7, <1>8, <2>1, <2>2, <2>3, <2>4, <2>5, <2>6 DEF Next
<1>9. CASE UNCHANGED vars
  BY <1>1, <1>9 DEF vars
<1> QED BY <1>8, <1>9

-----------------------------------------------------------------------------
(* Fulfilled rows name their booking, and what is final stays final.       *)

\* No submission starts in the step, and those under way keep their request.
NoSubmission ==
    \A h \in Handlers : task'[h].op = "book" =>
        task[h].op = "book" /\ task'[h].req = task[h].req

(***************************************************************************)
(* A step that starts no submission and makes no waitlist row leaves the   *)
(* submissions under way as they should be.                                *)
(***************************************************************************)
LEMMA OnceKept ==
    ASSUME TypeOK, SubmittedOnce, NoSubmission, NoNewRow
    PROVE  SubmittedOnce'
<1>1. \A h \in Handlers : task[h].op = "book" => task[h].req \in Requests
  BY HandlersAreProcs, TaskKinds DEF TypeOK, BookTask
<1> QED BY <1>1 DEF SubmittedOnce, NoSubmission, NoNewRow, Doing

(***************************************************************************)
(* Going on to anything but a submission is no submission.                 *)
(***************************************************************************)
LEMMA GotoSubmitsNothing ==
    ASSUME TypeOK, NEW p \in Procs, NEW t, Goto(p, t), t.op # "book"
    PROVE  NoSubmission
BY HandlersAreProcs DEF TypeOK, Goto, NoSubmission

(***************************************************************************)
(* HandleBooking: one submission is handled once, and its waitlist row is  *)
(* made at its end.                                                        *)
(***************************************************************************)
LEMMA SubmitOnce ==
    ASSUME TypeOK, StampOrder, SubmittedOnce, NEW h \in Handlers, Submit(h)
    PROVE  SubmittedOnce'
<1> USE HandlersAreProcs DEF queue
<1>1. ASSUME NEW r \in Requests, BookRead(h, r) PROVE SubmittedOnce'
  <2> DEFINE t == [op |-> "book", at |-> "read", req |-> r, ev |-> event, seats |-> 0]
  <2>1. /\ t.req = r /\ Goto(h, t) /\ stamp[r] = 0 /\ entry' = entry
        /\ \A p \in Handlers : Doing(p, "book") => task[p].req # r
    BY <1>1 DEF BookRead
  <2> HIDE DEF t
  <2>2. \A g \in Handlers : task'[g] = IF g = h THEN t ELSE task[g]
    BY <2>1 DEF Goto, TypeOK
  <2>3. entry[r] = "none"
    BY <2>1 DEF StampOrder
  <2> QED BY <2>1, <2>2, <2>3 DEF SubmittedOnce, Doing
<1>2. CASE BookBegin(h) \/ BookCount(h)
  <2>1. \E at, seats : Goto(h, [task[h] EXCEPT !.at = at, !.seats = seats])
                    /\ task[h] \in BookTask /\ entry' = entry
    <3>1. task[h] \in BookTask
      BY <1>2, TaskKinds DEF BookBegin, BookCount, Doing, TypeOK
    <3>2. [task[h] EXCEPT !.at = "begun"] =
          [task[h] EXCEPT !.at = "begun", !.seats = task[h].seats]
      BY <3>1 DEF BookTask
    <3> QED BY <1>2, <3>1, <3>2 DEF BookBegin, BookCount
  <2>2. PICK at, seats : Goto(h, [task[h] EXCEPT !.at = at, !.seats = seats])
    BY <2>1
  <2>3. \A g \in Handlers : /\ task'[g].op = task[g].op
                            /\ g # h => task'[g] = task[g]
                            /\ task'[h].req = task[h].req
    BY <2>1, <2>2 DEF Goto, TypeOK, BookTask
  <2>4. NoSubmission /\ NoNewRow
    BY <2>1, <2>3 DEF NoSubmission, NoNewRow
  <2> QED BY <2>4, OnceKept
<1>3. CASE BookSeats(h)
  <2>1. Goto(h, Idle) /\ Idle.op # "book" /\ NoNewRow
    BY <1>3 DEF BookSeats, Idle, NoNewRow
  <2> QED BY <2>1, GotoSubmitsNothing, OnceKept
<1>4. CASE BookWaitlist(h)
  <2> DEFINE r == task[h].req
  <2>1. Doing(h, "book") /\ Goto(h, Idle) /\ entry' = [entry EXCEPT ![r] = "waiting"]
    BY <1>4 DEF BookWaitlist
  <2>2. \A g \in Handlers : task'[g] = IF g = h THEN Idle ELSE task[g]
    BY <2>1 DEF Goto, TypeOK
  <2>3. Idle.op # "book"
    BY DEF Idle
  <2>4. \A g \in Handlers \ {h} : Doing(g, "book") =>
           task[g].req \in Requests \ {r}
    BY <2>1, TaskKinds DEF SubmittedOnce, Doing, TypeOK, BookTask
  <2>5. \A s \in Requests \ {r} : entry'[s] = entry[s]
    BY <2>1 DEF TypeOK
  <2> HIDE DEF r
  <2> QED BY <2>2, <2>3, <2>4, <2>5 DEF SubmittedOnce, Doing
<1> QED BY <1>1, <1>2, <1>3, <1>4 DEF Submit

(***************************************************************************)
(* No other step starts a submission or makes a row.                       *)
(***************************************************************************)
LEMMA OnceStep ==
    ASSUME TypeOK, StampOrder, SubmittedOnce, [Next]_vars
    PROVE  SubmittedOnce'
<1> USE HandlersAreProcs DEF queue
<1>1. ASSUME task' = task, NoNewRow PROVE SubmittedOnce'
  BY <1>1, OnceKept DEF NoSubmission
<1>2. ASSUME NEW p \in Procs, NEW t, Goto(p, t), t.op # "book", NoNewRow
      PROVE  SubmittedOnce'
  BY <1>2, GotoSubmitsNothing, OnceKept
<1>3. ASSUME entry' = entry PROVE NoNewRow
  BY <1>3 DEF NoNewRow
<1>4. Idle.op # "book" /\ StartPromote.op # "book"
  BY DEF Idle, StartPromote
<1>5. ASSUME NEW h \in Handlers, Claim(h) \/ \E r \in Requests : ClaimRead(h, r)
      PROVE  SubmittedOnce'
  <2>1. ASSUME NEW r \in Requests, ClaimRead(h, r) PROVE SubmittedOnce'
    <3> DEFINE t == [op |-> "claim", at |-> "read", req |-> r, ev |-> event, seats |-> 0]
    <3>1. t.op # "book" /\ Goto(h, t) /\ entry' = entry
      BY <2>1 DEF ClaimRead
    <3> HIDE DEF t
    <3> QED BY <1>2, <1>3, <3>1
  <2>2. CASE ClaimRefused(h)
    BY <1>2, <1>3, <1>4, <2>2 DEF ClaimRefused
  <2>3. CASE ClaimLock(h)
    <3> DEFINE t == [task[h] EXCEPT !.at = "locked", !.seats = SeatsTaken]
    <3>1. task[h] \in ClaimTask /\ Goto(h, t) /\ entry' = entry
      BY <2>3, TaskKinds DEF ClaimLock, Doing, TypeOK
    <3>2. t.op # "book"
      BY <3>1 DEF ClaimTask
    <3> HIDE DEF t
    <3> QED BY <1>2, <1>3, <3>1, <3>2
  <2>4. CASE ClaimCommit(h)
    BY <1>2, <1>4, <2>4, MarkFulfilledRows DEF ClaimCommit
  <2> QED BY <1>5, <2>1, <2>2, <2>3, <2>4 DEF Claim
<1>6. ASSUME NEW p \in Procs, PromoteAfterCancel(p) \/ SendMail(p)
      PROVE  SubmittedOnce'
  <2>1. CASE PromoteRead(p)
    <3> DEFINE t == IF Limited(event)
                    THEN [op |-> "promote", at |-> "read", ev |-> event] ELSE Idle
    <3>1. t.op # "book"
      BY <1>4
    <3>2. Goto(p, t) /\ entry' = entry
      BY <2>1 DEF PromoteRead
    <3> HIDE DEF t
    <3> QED BY <1>2, <1>3, <3>1, <3>2
  <2>2. CASE PromoteNobody(p)
    BY <1>2, <1>3, <1>4, <2>2 DEF PromoteNobody
  <2>3. CASE PromoteDonation(p)
    BY <1>2, <1>4, <2>3, MarkFulfilledRows DEF PromoteDonation
  <2>4. CASE PromoteInvite(p)
    <3> DEFINE t == [op |-> "mail",
                     to |-> {r \in Waiting : Need[r] <= Remaining(task[p].ev)}]
    <3>1. t.op # "book" /\ Goto(p, t) /\ entry' = entry
      BY <2>4 DEF PromoteInvite
    <3> HIDE DEF t
    <3> QED BY <1>2, <1>3, <3>1
  <2>5. CASE SendMail(p)
    BY <1>2, <1>3, <1>4, <2>5 DEF SendMail
  <2> QED BY <1>6, <2>1, <2>2, <2>3, <2>4, <2>5 DEF PromoteAfterCancel
<1>7. ASSUME NEW h \in Handlers, Admin(h) PROVE SubmittedOnce'
  <2>1. ASSUME NEW r \in Requests, PickRow(h, r) PROVE SubmittedOnce'
    <3> DEFINE t == [op |-> "pick", req |-> r]
    <3>1. t.op # "book" /\ Goto(h, t) /\ entry' = entry
      BY <2>1 DEF PickRow
    <3> HIDE DEF t
    <3> QED BY <1>2, <1>3, <3>1
  <2>2. CASE PickEvent(h)
    <3> DEFINE t == [op |-> "admin", req |-> task[h].req, ev |-> event]
    <3>1. t.op # "book" /\ Goto(h, t) /\ entry' = entry
      BY <2>2 DEF PickEvent
    <3> HIDE DEF t
    <3> QED BY <1>2, <1>3, <3>1
  <2>3. CASE AdminFulfil(h)
    BY <1>2, <1>4, <2>3, MarkFulfilledRows DEF AdminFulfil
  <2>4. CASE AdminPromote(h)
    <3> DEFINE t == [op |-> "mail", to |-> {task[h].req}]
    <3>1. t.op # "book" /\ Goto(h, t)
      BY <2>4 DEF AdminPromote
    <3>2. NoNewRow
      BY <2>4 DEF AdminPromote, NoNewRow, TypeOK
    <3> HIDE DEF t
    <3> QED BY <1>2, <3>1, <3>2
  <2> QED BY <1>7, <2>1, <2>2, <2>3, <2>4 DEF Admin
<1>8. ASSUME NEW h \in Handlers,
             \/ \E b \in Bookings : RefundRead(h, b)
             \/ \E t \in Tickets : GiveBackRead(h, t)
             \/ RotateWaitlist(h) \/ RefundCancel(h) \/ GiveBackCancel(h)
      PROVE  SubmittedOnce'
  <2>1. /\ entry' = entry
        /\ \E x : \/ Goto(h, [op |-> "refund", of |-> x])
                  \/ Goto(h, [op |-> "giveback", of |-> x])
                  \/ Goto(h, StartPromote)
    BY <1>8 DEF RefundRead, GiveBackRead, RotateWaitlist, RefundCancel, GiveBackCancel
  <2> QED BY <1>2, <1>3, <1>4, <2>1
<1>9. CASE Sweep
  <2>1. CASE \/ SweepList \/ SweepPromoted \/ SweepEntries
             \/ \E b \in Bookings : SweepCancel(b)
    BY <1>1, <1>3, <2>1 DEF SweepList, SweepPromoted, SweepEntries, SweepCancel
  <2>2. CASE SweepPromote
    <3>1. entry' = entry /\ (task' = task \/ Goto(Sweeper, StartPromote))
      BY <2>2 DEF SweepPromote, Goto
    <3> QED BY <1>1, <1>2, <1>3, <1>4, <3>1 DEF Procs
  <2>3. ASSUME NEW r \in Requests, SweepExpire(r) PROVE SubmittedOnce'
    <3>1. task' = task /\ NoNewRow
      BY <2>3 DEF SweepExpire, NoNewRow, TypeOK
    <3> QED BY <1>1, <3>1
  <2> QED BY <1>9, <2>1, <2>2, <2>3 DEF Sweep
<1>10. ASSUME NEW r \in Requests, RemoveEntry(r) PROVE SubmittedOnce'
  <2>1. task' = task /\ NoNewRow
    BY <1>10 DEF RemoveEntry, NoNewRow, TypeOK
  <2> QED BY <1>1, <2>1
<1>11. CASE \/ \E r \in Requests : DeadlinePasses(r)
            \/ \E b \in Bookings : Lapse(b) \/ MarkPaid(b)
            \/ \E t \in Tickets : CheckIn(t) \/ UndoCheckIn(t)
            \/ \E e \in Settings : UpdateEvent(e)
            \/ PurgeTest \/ SweepSkip
  BY <1>1, <1>3, <1>11 DEF DeadlinePasses, Lapse, MarkPaid, CheckIn, UndoCheckIn,
                           UpdateEvent, PurgeTest, SweepSkip
<1>12. ASSUME NEW p \in Procs, Drop(p) PROVE SubmittedOnce'
  BY <1>2, <1>3, <1>4, <1>12 DEF Drop
<1>13. CASE Crash
  <2>1. entry' = entry /\ NoSubmission
    BY <1>4, <1>13 DEF Crash, NoSubmission
  <2> QED BY <1>3, <2>1, OnceKept
<1>14. CASE UNCHANGED vars
  BY <1>1, <1>3, <1>14 DEF vars
<1>15. CASE Next
  BY <1>5, <1>6, <1>7, <1>8, <1>9, <1>10, <1>11, <1>12, <1>13, <1>15, SubmitOnce DEF Next
<1> QED BY <1>14, <1>15

\* The inductive invariant behind both theorems.
RowInv == /\ TypeOK /\ StampOrder /\ SubmittedOnce
          /\ TicketsFollowBooking /\ FulfilledNamesBooking

(***************************************************************************)
(* A row that is fulfilled in a step names the booking made in it; one     *)
(* that was fulfilled before still names its own, which still exists.      *)
(***************************************************************************)
LEMMA NamesStep ==
    ASSUME TypeOK, FulfilledNamesBooking, BookingsMove, EntriesMove
    PROVE  FulfilledNamesBooking'
<1> SUFFICES ASSUME NEW r \in Requests
             PROVE  /\ entry'[r] = "fulfilled" <=> fulfilledBy'[r] # Null
                    /\ fulfilledBy'[r] # Null =>
                          /\ fulfilledBy'[r][1] = r
                          /\ booking'[fulfilledBy'[r]].status # "none"
  BY DEF FulfilledNamesBooking
<1>1. EntryMove(r) /\ NamingMove(r)
  BY DEF EntriesMove
<1>2. fulfilledBy[r] \in Bookings \cup {Null}
  BY DEF TypeOK
<1>3. /\ entry[r] = "fulfilled" <=> fulfilledBy[r] # Null
      /\ fulfilledBy[r] # Null => /\ fulfilledBy[r][1] = r
                                  /\ booking[fulfilledBy[r]].status # "none"
  BY DEF FulfilledNamesBooking
<1>4. CASE entry'[r] = "fulfilled" /\ entry[r] # "fulfilled"
  BY <1>1, <1>4, BookingAssumption DEF NamingMove
<1>5. CASE entry[r] = "fulfilled"
  <2>1. entry'[r] = "fulfilled" /\ fulfilledBy'[r] = fulfilledBy[r]
    BY <1>1, <1>5 DEF EntryMove, NamingMove
  <2>2. booking'[fulfilledBy[r]].status # "none"
    BY <1>2, <1>3, <1>5 DEF BookingsMove
  <2> QED BY <1>3, <1>5, <2>1, <2>2
<1>6. CASE entry'[r] # "fulfilled" /\ entry[r] # "fulfilled"
  BY <1>1, <1>3, <1>6 DEF NamingMove
<1> QED BY <1>4, <1>5, <1>6

(***************************************************************************)
(* Bookings, tickets and waitlist rows stay in order, for any submissions, *)
(* handlers, settings and environment.                                     *)
(***************************************************************************)
THEOREM RowInvariance == Spec => []RowInv
<1>1. Init => SubmittedOnce /\ FulfilledNamesBooking
  BY HandlersAreProcs DEF Init, SubmittedOnce, FulfilledNamesBooking, Doing, Idle
<1>2. /\ TypeOK /\ StampOrder /\ TicketsFollowBooking
      /\ SubmittedOnce /\ FulfilledNamesBooking /\ [Next]_vars
      => SubmittedOnce' /\ FulfilledNamesBooking'
  BY BookingsStep, EntriesStep, OnceStep, NamesStep
<1>3. SeatInv => TypeOK /\ StampOrder
  BY DEF SeatInv
<1>4. TypeOK /\ StampOrder /\ SubmittedOnce /\ TicketsFollowBooking
      /\ FulfilledNamesBooking => RowInv
  BY DEF RowInv
<1> QED BY <1>1, <1>2, <1>3, <1>4, SeatInvariance, TicketsAlwaysFollow, PTL DEF Spec

(***************************************************************************)
(* However claims, promotions, admin actions, removals and the sweeper     *)
(* race, a waitlist row is fulfilled exactly when it names a booking, and  *)
(* that booking was made from it.                                          *)
(***************************************************************************)
THEOREM FulfilledAlwaysNames == Spec => []FulfilledNamesBooking
<1>1. RowInv => FulfilledNamesBooking
  BY DEF RowInv
<1> QED BY <1>1, RowInvariance, PTL

(***************************************************************************)
(* A row of the waitlist that exists keeps its place in the queue: only    *)
(* the transaction that makes it has a say in its time.                    *)
(***************************************************************************)
LEMMA StampKept ==
    ASSUME TypeOK, SubmittedOnce, [Next]_vars, NEW r \in Requests, entry[r] # "none"
    PROVE  stamp'[r] = stamp[r]
<1> USE DEF time
<1>1. CASE UNCHANGED stamp
  BY <1>1
<1>2. ASSUME NEW h \in Handlers, BookBegin(h) PROVE stamp'[r] = stamp[r]
  <2>1. stamp' = [stamp EXCEPT ![task[h].req] = clock + 1]
    BY <1>2 DEF BookBegin
  <2>2. task[h].req # r
    BY <1>2 DEF BookBegin, SubmittedOnce
  <2> QED BY <2>1, <2>2 DEF TypeOK
<1>3. CASE Next
  <2>1. CASE \E h \in Handlers : Submit(h)
    BY <1>1, <1>2, <2>1 DEF Submit, BookRead, BookCount, BookSeats, BookWaitlist
  <2>2. CASE \E h \in Handlers : Claim(h) \/ \E s \in Requests : ClaimRead(h, s)
    BY <1>1, <2>2 DEF Claim, ClaimRead, ClaimRefused, ClaimLock, ClaimCommit
  <2>3. CASE \E p \in Procs : PromoteAfterCancel(p) \/ SendMail(p)
    BY <1>1, <2>3 DEF PromoteAfterCancel, PromoteRead, PromoteNobody,
                      PromoteDonation, PromoteInvite, SendMail
  <2>4. CASE \E h \in Handlers : Admin(h)
    BY <1>1, <2>4 DEF Admin, PickRow, PickEvent, AdminFulfil, AdminPromote
  <2>5. CASE Sweep
    BY <1>1, <2>5 DEF Sweep, SweepList, SweepPromote, SweepPromoted,
                      SweepEntries, SweepCancel, SweepExpire
  <2>6. CASE \/ \E h \in Handlers : \/ \E b \in Bookings : RefundRead(h, b)
                                    \/ \E t \in Tickets : GiveBackRead(h, t)
                                    \/ RotateWaitlist(h)
                                    \/ RefundCancel(h) \/ GiveBackCancel(h)
             \/ \E s \in Requests : DeadlinePasses(s) \/ RemoveEntry(s)
             \/ \E b \in Bookings : Lapse(b) \/ MarkPaid(b)
             \/ \E t \in Tickets : CheckIn(t) \/ UndoCheckIn(t)
             \/ \E e \in Settings : UpdateEvent(e)
             \/ PurgeTest \/ SweepSkip \/ Crash \/ \E p \in Procs : Drop(p)
    BY <1>1, <2>6 DEF RefundRead, GiveBackRead, RotateWaitlist, RefundCancel,
                      GiveBackCancel, DeadlinePasses, RemoveEntry, Lapse, MarkPaid,
                      CheckIn, UndoCheckIn, UpdateEvent, PurgeTest, SweepSkip, Crash,
                      Drop
  <2> QED BY <1>3, <2>1, <2>2, <2>3, <2>4, <2>5, <2>6 DEF Next
<1>4. CASE UNCHANGED vars
  BY <1>1, <1>4 DEF vars
<1> QED BY <1>3, <1>4

(***************************************************************************)
(* No step revives a canceled booking or ticket or a settled waitlist row, *)
(* sends a row back to waiting or moves it in the queue.                   *)
(***************************************************************************)
THEOREM FinalAlwaysFinal == Spec => FinalStaysFinal
<1> DEFINE Step ==
       /\ \A b \in Bookings : booking[b].status = "canceled" =>
             booking'[b].status \in {"canceled", "purged"}
       /\ \A t \in Tickets : ticket[t] = "canceled" => ticket'[t] \in {"canceled", "none"}
       /\ \A r \in Requests :
             /\ entry[r] \in {"fulfilled", "removed"} => entry'[r] = entry[r]
             /\ entry[r] # "none" => entry'[r] \in EntryStatus \ {"none"}
             /\ entry[r] \in {"promoted", "expired"} => entry'[r] # "waiting"
             /\ entry[r] # "none" => stamp'[r] = stamp[r]
<1>1. RowInv /\ [Next]_vars => [Step]_vars
  <2> SUFFICES ASSUME RowInv, [Next]_vars PROVE Step
    OBVIOUS
  <2>1. TypeOK /\ SubmittedOnce /\ TicketsFollowBooking
    BY DEF RowInv
  <2>2. BookingsMove /\ EntriesMove
    BY <2>1, BookingsStep, EntriesStep
  <2>3. ASSUME NEW r \in Requests
        PROVE  /\ entry[r] \in {"fulfilled", "removed"} => entry'[r] = entry[r]
               /\ entry[r] # "none" => entry'[r] \in EntryStatus \ {"none"}
               /\ entry[r] \in {"promoted", "expired"} => entry'[r] # "waiting"
               /\ entry[r] # "none" => stamp'[r] = stamp[r]
    <3>1. EntryMove(r)
      BY <2>2 DEF EntriesMove
    <3>2. entry[r] \in EntryStatus
      BY <2>1 DEF TypeOK
    <3>3. entry[r] # "none" => stamp'[r] = stamp[r]
      BY <2>1, StampKept
    <3> QED BY <3>1, <3>2, <3>3 DEF EntryMove, EntryStatus
  <2> QED BY <2>2, <2>3 DEF BookingsMove
<1>2. FinalStaysFinal <=> [][Step]_vars
  BY DEF FinalStaysFinal
<1> QED BY <1>1, <1>2, RowInvariance, PTL DEF Spec

-----------------------------------------------------------------------------
(* One booking per request.                                                *)

\* An admin promotes out of turn on paid events only: on a donation event the
\* row is fulfilled as it was read before the lock, and may be so twice.
OutOfTurnIsPaid == "admin" \in Ops => \A e \in Settings : ~e.donation

\* No submission is taken up, and no claim gets the event row, in the step.
NothingBegins ==
    \A h \in Handlers : task'[h] # task[h] => ~Doing(h, "book")' /\ ~Claiming(h)'

\* A step that makes no booking and no row, and begins nothing that will.
Quiet == /\ \A b \in Bookings : booking'[b].status = "none" <=> booking[b].status = "none"
         /\ stamp' = stamp
         /\ NoNewRow
         /\ NothingBegins

(***************************************************************************)
(* Going on to a task that is neither begins nothing.                      *)
(***************************************************************************)
LEMMA GotoBeginsNothing ==
    ASSUME TypeOK, NEW p \in Procs, NEW t, Goto(p, t),
           t.op # "book", ~ (t.op = "claim" /\ t.at = "locked")
    PROVE  NothingBegins
<1>1. \A h \in Handlers : task'[h] # task[h] => task'[h] = t
  BY HandlersAreProcs DEF Goto, TypeOK
<1> QED BY <1>1 DEF NothingBegins, Doing, Claiming

(***************************************************************************)
(* All steps are quiet but those of a submission, the two of a claim under *)
(* the lock, and the two ways to serve the queue of a donation event.      *)
(***************************************************************************)
LEMMA WhoIsQuiet ==
    ASSUME TypeOK, Next
    PROVE  \/ Quiet
           \/ \E h \in Handlers : \/ Submit(h) \/ ClaimLock(h) \/ ClaimCommit(h)
                                  \/ "admin" \in Ops /\ AdminFulfil(h)
           \/ \E p \in Procs : PromoteDonation(p)
<1> USE HandlersAreProcs DEF rows, queue, time
<1>1. ASSUME UNCHANGED <<booking, stamp, entry>>, task' = task PROVE Quiet
  BY <1>1 DEF Quiet, NoNewRow, NothingBegins
<1>2. ASSUME UNCHANGED <<booking, stamp>>, NoNewRow, NEW p \in Procs, NEW t, Goto(p, t),
             t.op # "book", ~ (t.op = "claim" /\ t.at = "locked")
      PROVE  Quiet
  BY <1>2, GotoBeginsNothing DEF Quiet
<1>3. ASSUME UNCHANGED entry PROVE NoNewRow
  BY <1>3 DEF NoNewRow
<1>4. /\ Idle.op # "book" /\ Idle.op # "claim"
      /\ StartPromote.op # "book" /\ StartPromote.op # "claim"
  BY DEF Idle, StartPromote
<1>5. ASSUME NEW h \in Handlers, NEW r \in Requests, ClaimRead(h, r) PROVE Quiet
  <2> DEFINE t == [op |-> "claim", at |-> "read", req |-> r, ev |-> event, seats |-> 0]
  <2>1. t.op # "book" /\ t.at # "locked" /\ Goto(h, t) /\ UNCHANGED <<booking, stamp, entry>>
    BY <1>5 DEF ClaimRead
  <2> HIDE DEF t
  <2> QED BY <1>2, <1>3, <2>1
<1>6. ASSUME NEW p \in Procs, NEW op, op \notin {"book", "claim"}, NEW t, t.op = op,
             UNCHANGED <<booking, stamp>>, NoNewRow, Goto(p, t)
      PROVE  Quiet
  BY <1>2, <1>6
<1>7. ASSUME NEW p \in Procs, Goto(p, Idle) \/ Goto(p, StartPromote),
             UNCHANGED <<booking, stamp>>, NoNewRow
      PROVE  Quiet
  BY <1>2, <1>4, <1>7
<1>8. ASSUME NEW p \in Procs,
             PromoteRead(p) \/ PromoteNobody(p) \/ PromoteInvite(p) \/ SendMail(p)
      PROVE  Quiet
  <2>1. CASE PromoteRead(p)
    <3> DEFINE t == [op |-> "promote", at |-> "read", ev |-> event]
    <3>1. t.op = "promote" /\ UNCHANGED <<booking, stamp, entry>>
          /\ (Goto(p, t) \/ Goto(p, Idle))
      BY <2>1 DEF PromoteRead
    <3> HIDE DEF t
    <3> QED BY <1>3, <1>6, <1>7, <3>1
  <2>2. CASE PromoteNobody(p) \/ SendMail(p)
    BY <1>3, <1>7, <2>2 DEF PromoteNobody, SendMail
  <2>3. CASE PromoteInvite(p)
    <3> DEFINE t == [op |-> "mail",
                     to |-> {r \in Waiting : Need[r] <= Remaining(task[p].ev)}]
    <3>1. t.op = "mail" /\ Goto(p, t) /\ UNCHANGED <<booking, stamp, entry>>
      BY <2>3 DEF PromoteInvite
    <3> HIDE DEF t
    <3> QED BY <1>3, <1>6, <3>1
  <2> QED BY <1>8, <2>1, <2>2, <2>3
<1>9. ASSUME NEW h \in Handlers,
             PickEvent(h) \/ AdminPromote(h) \/ \E r \in Requests : PickRow(h, r)
      PROVE  Quiet
  <2>1. ASSUME NEW r \in Requests, PickRow(h, r) PROVE Quiet
    <3> DEFINE t == [op |-> "pick", req |-> r]
    <3>1. t.op = "pick" /\ Goto(h, t) /\ UNCHANGED <<booking, stamp, entry>>
      BY <2>1 DEF PickRow
    <3> HIDE DEF t
    <3> QED BY <1>3, <1>6, <3>1
  <2>2. CASE PickEvent(h)
    <3> DEFINE t == [op |-> "admin", req |-> task[h].req, ev |-> event]
    <3>1. t.op = "admin" /\ Goto(h, t) /\ UNCHANGED <<booking, stamp, entry>>
      BY <2>2 DEF PickEvent
    <3> HIDE DEF t
    <3> QED BY <1>3, <1>6, <3>1
  <2>3. CASE AdminPromote(h)
    <3> DEFINE t == [op |-> "mail", to |-> {task[h].req}]
    <3>1. t.op = "mail" /\ Goto(h, t) /\ UNCHANGED <<booking, stamp>>
      BY <2>3 DEF AdminPromote
    <3>2. NoNewRow
      BY <2>3 DEF AdminPromote, NoNewRow, TypeOK
    <3> HIDE DEF t
    <3> QED BY <1>6, <3>1, <3>2
  <2> QED BY <1>9, <2>1, <2>2, <2>3
<1>10. ASSUME NEW h \in Handlers,
              \/ \E b \in Bookings : RefundRead(h, b)
              \/ \E t \in Tickets : GiveBackRead(h, t)
       PROVE  Quiet
  <2>1. /\ UNCHANGED <<booking, stamp, entry>>
        /\ \E x : \/ Goto(h, [op |-> "refund", of |-> x])
                  \/ Goto(h, [op |-> "giveback", of |-> x])
    BY <1>10 DEF RefundRead, GiveBackRead
  <2> QED BY <1>3, <1>6, <2>1
<1>11. ASSUME NEW b, CancelBookingAndTickets(b)
       PROVE  \A c \in Bookings : booking'[c].status = "none" <=> booking[c].status = "none"
  BY <1>11 DEF CancelBookingAndTickets, TypeOK
<1>12. ASSUME NEW h \in Handlers, RotateWaitlist(h) \/ RefundCancel(h) \/ GiveBackCancel(h)
       PROVE  Quiet
  <2>1. NothingBegins
    BY <1>4, <1>12, GotoBeginsNothing DEF RotateWaitlist, RefundCancel, GiveBackCancel
  <2> QED BY <1>3, <1>11, <1>12, <2>1 DEF RotateWaitlist, RefundCancel, GiveBackCancel, Quiet
<1>13. ASSUME NEW b \in Bookings, MarkPaid(b) \/ SweepCancel(b) PROVE Quiet
  <2>1. \A c \in Bookings : booking'[c].status = "none" <=> booking[c].status = "none"
    BY <1>11, <1>13 DEF MarkPaid, SweepCancel, TypeOK
  <2> QED BY <1>13, <2>1 DEF MarkPaid, SweepCancel, Quiet, NoNewRow, NothingBegins
<1>14. CASE PurgeTest
  <2> DEFINE T == {c \in Bookings : /\ booking[c].method = "test"
                                    /\ booking[c].status \notin {"none", "purged"}}
  <2>1. booking' = [b \in Bookings |->
                      IF b \in T THEN [booking[b] EXCEPT !.status = "purged"]
                      ELSE booking[b]]
    BY <1>14 DEF PurgeTest
  <2>2. \A b \in T : booking[b].status # "none"
    OBVIOUS
  <2> HIDE DEF T
  <2>3. \A c \in Bookings : booking'[c].status = "none" <=> booking[c].status = "none"
    BY <2>1, <2>2 DEF TypeOK
  <2> QED BY <1>14, <2>3 DEF PurgeTest, Quiet, NoNewRow, NothingBegins
<1>15. ASSUME NEW r \in Requests, RemoveEntry(r) \/ SweepExpire(r) PROVE Quiet
  BY <1>15 DEF RemoveEntry, SweepExpire, Quiet, NoNewRow, NothingBegins, TypeOK
<1>16. CASE SweepPromote
  <2>1. UNCHANGED <<booking, stamp, entry>> /\ (task' = task \/ Goto(Sweeper, StartPromote))
    BY <1>16 DEF SweepPromote, Goto
  <2> QED BY <1>1, <1>3, <1>7, <2>1 DEF Procs
<1>17. CASE \/ SweepList \/ SweepPromoted \/ SweepEntries \/ SweepSkip
            \/ \E r \in Requests : DeadlinePasses(r)
            \/ \E b \in Bookings : Lapse(b)
            \/ \E t \in Tickets : CheckIn(t) \/ UndoCheckIn(t)
            \/ \E e \in Settings : UpdateEvent(e)
  BY <1>1, <1>17 DEF SweepList, SweepPromoted, SweepEntries, SweepSkip, DeadlinePasses,
                     Lapse, CheckIn, UndoCheckIn, UpdateEvent
<1>18. ASSUME NEW p \in Procs, Drop(p) PROVE Quiet
  BY <1>3, <1>7, <1>18 DEF Drop
<1>19. CASE Crash
  <2>1. \A h \in Handlers : task'[h] = Idle
    BY <1>19 DEF Crash
  <2>2. NothingBegins
    BY <1>4, <2>1 DEF NothingBegins, Doing, Claiming
  <2> QED BY <1>3, <1>19, <2>2 DEF Crash, Quiet
<1>20. ASSUME NEW h \in Handlers, ClaimRefused(h) PROVE Quiet
  BY <1>3, <1>7, <1>20 DEF ClaimRefused
<1> QED BY <1>5, <1>8, <1>9, <1>10, <1>12, <1>13, <1>14, <1>15, <1>16, <1>17, <1>18,
           <1>19, <1>20 DEF Next, Claim, PromoteAfterCancel, Admin, Sweep

\* Who has a booking, or is about to get one, will get no other.
SeatedOnce ==
    /\ \A r \in Requests : \A a, b \in Made(r) : a = b
    /\ \A r \in Requests : Made(r) # {} => ~Claimable(r) /\ stamp[r] # 0
    /\ \A h \in Handlers : Doing(h, "book") \/ Claiming(h) => Made(task[h].req) = {}
    /\ \A h \in Handlers : Claiming(h) => entry[task[h].req] # "none"

(***************************************************************************)
(* CreateBooking adds one booking to each submission it is run for.        *)
(***************************************************************************)
LEMMA MadeByCreating ==
    ASSUME NEW R \in SUBSET Requests, \A r \in R : Fresh(r) # {},
           NEW status \in {"booked", "paid"}, NEW method,
           CreateBookings({NewBooking(r) : r \in R}, status, method)
    PROVE  \A r \in Requests :
              Made(r)' = IF r \in R THEN Made(r) \cup {NewBooking(r)} ELSE Made(r)
<1> SUFFICES ASSUME NEW r \in Requests
             PROVE  Made(r)' = IF r \in R THEN Made(r) \cup {NewBooking(r)} ELSE Made(r)
  OBVIOUS
<1>1. \A s \in R : /\ NewBooking(s) \in Bookings /\ NewBooking(s)[1] = s
                   /\ NewBooking(s) \in {s} \X (1..Copies)
  BY FreshBooking DEF Bookings
<1>2. \A b \in {r} \X (1..Copies) : b \in Bookings /\ b[1] = r
  BY DEF Bookings
<1>3. \A b \in {r} \X (1..Copies) :
         booking'[b].status = IF r \in R /\ b = NewBooking(r) THEN status
                              ELSE booking[b].status
  <2> DEFINE B == {NewBooking(s) : s \in R}
  <2>1. \A b \in Bookings : booking'[b] = IF b \in B THEN [status |-> status, method |-> method]
                                          ELSE booking[b]
    BY DEF CreateBookings
  <2>2. \A b \in {r} \X (1..Copies) : b \in B <=> r \in R /\ b = NewBooking(r)
    BY <1>1, <1>2
  <2> HIDE DEF B
  <2> QED BY <1>2, <2>1, <2>2
<1> QED BY <1>1, <1>3 DEF Made

(***************************************************************************)
(* A step that gives each of R, who had none, one booking leaves everybody *)
(* with at most one, if nobody can, and nobody does, ask for them again.   *)
(***************************************************************************)
LEMMA SeatingOnce ==
    ASSUME SeatedOnce, SubmittedOnce, TypeOK, EntriesMove, NoNewRow, stamp' = stamp,
           NEW R \in SUBSET Requests, \A r \in R : Fresh(r) # {},
           NEW status \in {"booked", "paid"}, NEW method,
           CreateBookings({NewBooking(r) : r \in R}, status, method),
           \A r \in R : Made(r) = {} /\ stamp[r] # 0 /\ ~Claimable(r)',
           \A g \in Handlers : Doing(g, "book")' \/ Claiming(g)'
              => task'[g] = task[g] /\ task[g].req \notin R
    PROVE  SeatedOnce'
<1>1. \A r \in Requests :
         Made(r)' = IF r \in R THEN Made(r) \cup {NewBooking(r)} ELSE Made(r)
  BY MadeByCreating
<1>2. \A r \in Requests : \A a, b \in Made(r)' : a = b
  BY <1>1 DEF SeatedOnce
<1>3. ASSUME NEW r \in Requests, Made(r)' # {}
      PROVE  ~Claimable(r)' /\ stamp'[r] # 0
  <2>1. CASE r \in R
    BY <2>1
  <2>2. CASE r \notin R
    <3>1. ~Claimable(r) /\ stamp[r] # 0
      BY <1>1, <1>3, <2>2 DEF SeatedOnce
    <3> QED BY <3>1 DEF EntriesMove, EntryMove, NoNewRow, Claimable
  <2> QED BY <2>1, <2>2
<1>4. ASSUME NEW h \in Handlers, Doing(h, "book")' \/ Claiming(h)'
      PROVE  Made(task[h].req)' = {} /\ task'[h] = task[h]
  <2>1. task'[h] = task[h] /\ task[h].req \notin R
    BY <1>4
  <2>2. Doing(h, "book") \/ Claiming(h)
    BY <1>4, <2>1 DEF Doing, Claiming
  <2>3. task[h].req \in Requests
    BY <2>2, HandlersAreProcs, TaskKinds DEF Doing, Claiming, TypeOK, BookTask, ClaimTask
  <2> QED BY <1>1, <2>1, <2>2, <2>3 DEF SeatedOnce
<1>5. ASSUME NEW h \in Handlers, Claiming(h)' PROVE entry'[task'[h].req] # "none"
  <2>1. task'[h] = task[h] /\ Claiming(h)
    BY <1>4, <1>5 DEF Doing, Claiming
  <2>2. task[h].req \in Requests
    BY <2>1, HandlersAreProcs, TaskKinds DEF Doing, Claiming, TypeOK, ClaimTask
  <2> QED BY <2>1, <2>2 DEF SeatedOnce, EntriesMove, EntryMove
<1>6. \A h \in Handlers : (Doing(h, "book") \/ Claiming(h) => Made(task[h].req) = {})'
  <2> SUFFICES ASSUME NEW h \in Handlers, Doing(h, "book")' \/ Claiming(h)'
               PROVE  Made(task[h].req)' = {}
    OBVIOUS
  <2> QED BY <1>4
<1> QED BY <1>2, <1>3, <1>5, <1>6 DEF SeatedOnce

(***************************************************************************)
(* Quiet steps leave it so: no row comes back to where it can be claimed.  *)
(***************************************************************************)
LEMMA QuietOnce ==
    ASSUME TypeOK, SeatedOnce, EntriesMove, Quiet
    PROVE  SeatedOnce'
<1>1. \A r \in Requests : Made(r)' = Made(r)
  BY DEF Made, Quiet, Bookings
<1>2. \A r \in Requests : \A a, b \in Made(r)' : a = b
  BY <1>1 DEF SeatedOnce
<1>3. ASSUME NEW r \in Requests, Made(r)' # {}
      PROVE  ~Claimable(r)' /\ stamp'[r] # 0
  <2>1. ~Claimable(r) /\ stamp[r] # 0
    BY <1>1, <1>3 DEF SeatedOnce
  <2> QED BY <2>1 DEF EntriesMove, EntryMove, Quiet, NoNewRow, Claimable
<1>4. ASSUME NEW h \in Handlers, Doing(h, "book")' \/ Claiming(h)'
      PROVE  /\ task'[h] = task[h] /\ task[h].req \in Requests
             /\ Made(task[h].req)' = {}
  <2>1. task'[h] = task[h]
    BY <1>4 DEF Quiet, NothingBegins
  <2>2. Doing(h, "book") \/ Claiming(h)
    BY <1>4, <2>1 DEF Doing, Claiming
  <2>3. task[h].req \in Requests
    BY <2>2, HandlersAreProcs, TaskKinds DEF Doing, Claiming, TypeOK, BookTask, ClaimTask
  <2> QED BY <1>1, <2>1, <2>2, <2>3 DEF SeatedOnce
<1>5. ASSUME NEW h \in Handlers, Claiming(h)' PROVE entry'[task'[h].req] # "none"
  <2>1. task'[h] = task[h] /\ task[h].req \in Requests /\ Claiming(h)
    BY <1>4, <1>5 DEF Doing, Claiming
  <2> QED BY <2>1 DEF SeatedOnce, EntriesMove, EntryMove
<1>6. \A h \in Handlers : (Doing(h, "book") \/ Claiming(h) => Made(task[h].req) = {})'
  BY <1>4
<1> QED BY <1>2, <1>3, <1>5, <1>6 DEF SeatedOnce

(***************************************************************************)
(* HandleBooking: taken up once, a submission is seated or queued once.    *)
(***************************************************************************)
LEMMA SubmitSeatsOnce ==
    ASSUME TypeOK, StampOrder, SubmittedOnce, SeatedOnce, EntriesMove,
           LockedCountIsStable, NEW h \in Handlers, Submit(h)
    PROVE  SeatedOnce'
<1> USE HandlersAreProcs DEF rows, queue, time
<1>0. PICK r : r = task[h].req
  OBVIOUS
<1>1. ASSUME UNCHANGED booking
      PROVE  \A s : Made(s)' = Made(s)
  BY <1>1 DEF Made
<1>2. ASSUME NEW s \in Requests, BookRead(h, s) PROVE SeatedOnce'
  <2> DEFINE t == [op |-> "book", at |-> "read", req |-> s, ev |-> event, seats |-> 0]
  <2>1. /\ t.op = "book" /\ t.req = s /\ Goto(h, t) /\ stamp[s] = 0
        /\ UNCHANGED <<booking, entry, stamp>>
    BY <1>2 DEF BookRead
  <2> HIDE DEF t
  <2>2. \A g \in Handlers : task'[g] = IF g = h THEN t ELSE task[g]
    BY <2>1 DEF Goto, TypeOK
  <2>3. Made(s) = {}
    BY <2>1 DEF SeatedOnce
  <2>4. \A x : Made(x)' = Made(x)
    BY <1>1, <2>1
  <2>5. \A g \in Handlers : (Doing(g, "book") \/ Claiming(g) => Made(task[g].req) = {})'
    BY <2>1, <2>2, <2>3, <2>4 DEF SeatedOnce, Doing, Claiming
  <2>6. \A g \in Handlers : (Claiming(g) => entry[task[g].req] # "none")'
    BY <2>1, <2>2 DEF SeatedOnce, Doing, Claiming
  <2> QED BY <2>1, <2>4, <2>5, <2>6 DEF SeatedOnce, Claimable
<1>3. CASE BookBegin(h) \/ BookCount(h)
  <2>1. task[h] \in BookTask /\ r \in Requests
    BY <1>0, <1>3, TaskKinds DEF BookBegin, BookCount, Doing, TypeOK, BookTask
  <2>2. \E t : t.op = "book" /\ t.req = r /\ Goto(h, t)
    <3>1. CASE BookBegin(h)
      <4>1. [task[h] EXCEPT !.at = "begun"].op = "book"
            /\ [task[h] EXCEPT !.at = "begun"].req = r
        BY <1>0, <2>1 DEF BookTask
      <4> QED BY <3>1, <4>1 DEF BookBegin
    <3>2. CASE BookCount(h)
      <4> DEFINE t == [task[h] EXCEPT !.at = "counted", !.seats = SeatsTaken]
      <4>1. t.op = "book" /\ t.req = r
        BY <1>0, <2>1 DEF BookTask
      <4>2. Goto(h, t)
        BY <3>2 DEF BookCount
      <4> QED BY <4>1, <4>2
    <3> QED BY <1>3, <3>1, <3>2
  <2>3. PICK t : t.op = "book" /\ t.req = r /\ Goto(h, t)
    BY <2>2
  <2>4. \A g \in Handlers : task'[g] = IF g = h THEN t ELSE task[g]
    BY <2>3 DEF Goto, TypeOK
  <2>5. UNCHANGED <<booking, entry>> /\ Doing(h, "book")
    BY <1>3 DEF BookBegin, BookCount
  <2>6. \A s \in Requests : stamp[s] # 0 => stamp'[s] # 0
    BY <1>3 DEF BookBegin, BookCount, TypeOK
  <2>7. \A x : Made(x)' = Made(x)
    BY <1>1, <2>5
  <2>8. Made(r) = {}
    BY <1>0, <2>5 DEF SeatedOnce
  <2>9. \A g \in Handlers : (Doing(g, "book") \/ Claiming(g) => Made(task[g].req) = {})'
    BY <2>3, <2>4, <2>7, <2>8 DEF SeatedOnce, Doing, Claiming
  <2>10. \A g \in Handlers : (Claiming(g) => entry[task[g].req] # "none")'
    BY <2>3, <2>4, <2>5 DEF SeatedOnce, Doing, Claiming
  <2> QED BY <2>5, <2>6, <2>7, <2>9, <2>10 DEF SeatedOnce, Claimable
<1>4. CASE BookSeats(h)
  <2>1. /\ task[h] \in BookTask /\ r \in Requests /\ entry[r] = "none"
        /\ Doing(h, "book") /\ Made(r) = {}
    <3>1. Doing(h, "book") /\ task[h] \in BookTask
      BY <1>4, TaskKinds DEF BookSeats, Doing, TypeOK
    <3> QED BY <1>0, <3>1 DEF BookTask, SubmittedOnce, SeatedOnce
  <2>2. /\ Fresh(r) # {} /\ Goto(h, Idle) /\ UNCHANGED <<entry, stamp>> /\ LockFree
        /\ \E status, method : /\ status \in {"booked", "paid"}
                               /\ CreateBookings({NewBooking(r)}, status, method)
    BY <1>0, <1>4 DEF BookSeats
  <2>3. stamp[r] # 0
    BY <1>0, <1>4 DEF BookSeats, Admitted, StampOrder
  <2>4. ASSUME NEW g \in Handlers, Doing(g, "book")' \/ Claiming(g)'
        PROVE  task'[g] = task[g] /\ task[g].req # r
    <3>1. \A k \in Handlers : task'[k] = IF k = h THEN Idle ELSE task[k]
      BY <2>2 DEF Goto, TypeOK
    <3>2. g # h /\ task'[g] = task[g]
      BY <2>4, <3>1 DEF Doing, Claiming, Idle
    <3>3. ~Claiming(g)
      BY <2>2, BookingAssumption DEF LockFree, LockedCountIsStable
    <3> QED BY <1>0, <2>1, <2>4, <3>2, <3>3 DEF SubmittedOnce, Doing, Claiming
  <2>5. {NewBooking(s) : s \in {r}} = {NewBooking(r)}
    OBVIOUS
  <2>6. NoNewRow /\ ~Claimable(r)'
    BY <2>1, <2>2 DEF NoNewRow, Claimable
  <2>7. PICK status, method : /\ status \in {"booked", "paid"}
                              /\ CreateBookings({NewBooking(r)}, status, method)
    BY <2>2
  <2>10. CreateBookings({NewBooking(s) : s \in {r}}, status, method)
    BY <2>7, <2>5
  <2>8. \A s \in {r} : Made(s) = {} /\ stamp[s] # 0 /\ ~Claimable(s)'
    BY <2>1, <2>3, <2>6
  <2>9. /\ {r} \in SUBSET Requests /\ \A s \in {r} : Fresh(s) # {}
        /\ \A g \in Handlers : Doing(g, "book")' \/ Claiming(g)'
              => task'[g] = task[g] /\ task[g].req \notin {r}
    BY <2>1, <2>2, <2>4
  <2> QED BY <2>2, <2>6, <2>7, <2>8, <2>9, <2>10, SeatingOnce
<1>5. CASE BookWaitlist(h)
  <2>1. /\ task[h] \in BookTask /\ r \in Requests
        /\ Doing(h, "book") /\ Made(r) = {}
    <3>1. Doing(h, "book") /\ task[h] \in BookTask
      BY <1>5, TaskKinds DEF BookWaitlist, Doing, TypeOK
    <3> QED BY <1>0, <3>1 DEF BookTask, SeatedOnce
  <2>2. /\ entry' = [entry EXCEPT ![r] = "waiting"] /\ Goto(h, Idle)
        /\ UNCHANGED <<booking, stamp>>
    BY <1>0, <1>5 DEF BookWaitlist
  <2>3. \A g \in Handlers : task'[g] = IF g = h THEN Idle ELSE task[g]
    BY <2>2 DEF Goto, TypeOK
  <2>4. \A x : Made(x)' = Made(x)
    BY <1>1, <2>2
  <2>5. \A s \in Requests : entry'[s] = IF s = r THEN "waiting" ELSE entry[s]
    BY <2>2 DEF TypeOK
  <2>6. \A g \in Handlers : Doing(g, "book")' \/ Claiming(g)' =>
           task'[g] = task[g] /\ (Doing(g, "book") \/ Claiming(g))
    BY <2>3 DEF Doing, Claiming, Idle
  <2>7. \A g \in Handlers : (Doing(g, "book") \/ Claiming(g) => Made(task[g].req) = {})'
    BY <2>4, <2>6 DEF SeatedOnce
  <2>8. \A g \in Handlers : (Claiming(g) => entry[task[g].req] # "none")'
    <3> SUFFICES ASSUME NEW g \in Handlers, Claiming(g)'
                 PROVE  entry'[task'[g].req] # "none"
      OBVIOUS
    <3>1. task'[g] = task[g] /\ Claiming(g)
      BY <2>6 DEF Doing, Claiming
    <3>2. task[g].req \in Requests
      BY <3>1, TaskKinds DEF Doing, Claiming, TypeOK, ClaimTask
    <3> QED BY <2>5, <3>1, <3>2 DEF SeatedOnce
  <2>9. \A s \in Requests : (Made(s) # {} => ~Claimable(s) /\ stamp[s] # 0)'
    BY <2>1, <2>2, <2>4, <2>5 DEF SeatedOnce, Claimable
  <2> QED BY <2>4, <2>7, <2>8, <2>9 DEF SeatedOnce
<1> QED BY <1>2, <1>3, <1>4, <1>5 DEF Submit

(***************************************************************************)
(* A claim is given the event row, and later its seats, for a request that *)
(* has no booking.                                                         *)
(***************************************************************************)
LEMMA ClaimSeatsOnce ==
    ASSUME TypeOK, StampOrder, SubmittedOnce, SeatedOnce, EntriesMove,
           LockedCountIsStable, NEW h \in Handlers, ClaimLock(h) \/ ClaimCommit(h)
    PROVE  SeatedOnce'
<1> USE HandlersAreProcs DEF rows, queue, time
<1>0. PICK r : r = task[h].req
  OBVIOUS
<1>1. task[h] \in ClaimTask /\ r \in Requests
  <2>1. task[h] \in ClaimTask
    BY TaskKinds DEF ClaimLock, ClaimCommit, Doing, TypeOK
  <2> QED BY <1>0, <2>1 DEF ClaimTask
<1>2. CASE ClaimLock(h)
  <2> DEFINE t == [task[h] EXCEPT !.at = "locked", !.seats = SeatsTaken]
  <2>1. t.op = "claim" /\ t.req = r
    BY <1>0, <1>1 DEF ClaimTask
  <2>2. Goto(h, t) /\ UNCHANGED <<booking, entry, stamp>> /\ Claimable(r)
    BY <1>0, <1>2 DEF ClaimLock, ClaimHolds
  <2> HIDE DEF t
  <2>3. \A g \in Handlers : task'[g] = IF g = h THEN t ELSE task[g]
    BY <2>2 DEF Goto, TypeOK
  <2>4. \A x : Made(x)' = Made(x)
    BY <2>2 DEF Made
  <2>5. Made(r) = {} /\ entry[r] # "none"
    BY <1>1, <2>2 DEF SeatedOnce, Claimable
  <2>6. \A g \in Handlers : (Doing(g, "book") \/ Claiming(g) => Made(task[g].req) = {})'
    BY <2>1, <2>3, <2>4, <2>5 DEF SeatedOnce, Doing, Claiming
  <2>7. \A g \in Handlers : (Claiming(g) => entry[task[g].req] # "none")'
    BY <2>1, <2>2, <2>3, <2>5 DEF SeatedOnce, Doing, Claiming
  <2> QED BY <2>2, <2>4, <2>6, <2>7 DEF SeatedOnce, Claimable
<1>3. CASE ClaimCommit(h)
  <2>1. Claiming(h)
    BY <1>3 DEF ClaimCommit, Claiming
  <2>2. /\ Made(r) = {} /\ entry[r] # "none" /\ stamp[r] # 0
        /\ lock = h
    BY <1>0, <1>1, <2>1 DEF SeatedOnce, StampOrder, LockedCountIsStable
  <2>3. /\ Fresh(r) # {} /\ Goto(h, Idle) /\ stamp' = stamp /\ MarkFulfilled({r})
        /\ CreateBookings({NewBooking(r)}, "booked", "none")
    BY <1>0, <1>3 DEF ClaimCommit
  <2>4. ASSUME NEW g \in Handlers, Doing(g, "book")' \/ Claiming(g)'
        PROVE  task'[g] = task[g] /\ task[g].req # r
    <3>1. \A k \in Handlers : task'[k] = IF k = h THEN Idle ELSE task[k]
      BY <2>3 DEF Goto, TypeOK
    <3>2. g # h /\ task'[g] = task[g]
      BY <2>4, <3>1 DEF Doing, Claiming, Idle
    <3>3. ~Claiming(g)
      BY <2>2, <3>2 DEF LockedCountIsStable
    <3> QED BY <2>2, <2>4, <3>2, <3>3 DEF SubmittedOnce, Doing, Claiming
  <2>5. {NewBooking(s) : s \in {r}} = {NewBooking(r)}
    OBVIOUS
  <2>6. NoNewRow
    BY <2>3, MarkFulfilledRows
  <2>7. \A s \in {r} : Made(s) = {} /\ stamp[s] # 0 /\ ~Claimable(s)'
    BY <1>1, <2>2, <2>3 DEF MarkFulfilled, Claimable
  <2>8. CreateBookings({NewBooking(s) : s \in {r}}, "booked", "none")
    BY <2>3, <2>5
  <2>9. /\ {r} \in SUBSET Requests /\ \A s \in {r} : Fresh(s) # {}
        /\ \A g \in Handlers : Doing(g, "book")' \/ Claiming(g)'
              => task'[g] = task[g] /\ task[g].req \notin {r}
    BY <1>1, <2>3, <2>4
  <2> QED BY <2>3, <2>6, <2>7, <2>8, <2>9, SeatingOnce
<1> QED BY <1>2, <1>3

(***************************************************************************)
(* A promotion serves rows that have no booking yet.                       *)
(***************************************************************************)
LEMMA PromotionSeatsOnce ==
    ASSUME TypeOK, StampOrder, SubmittedOnce, SeatedOnce, EntriesMove,
           LockedCountIsStable, NEW p \in Procs, PromoteDonation(p)
    PROVE  SeatedOnce'
<1> USE HandlersAreProcs DEF rows, queue, time
<1>1. PICK P \in SUBSET Waiting :
         /\ \A r \in P : Fresh(r) # {}
         /\ CreateBookings({NewBooking(r) : r \in P}, "paid", "donation")
         /\ MarkFulfilled(P)
  BY DEF PromoteDonation
<1>2. LockFree /\ Goto(p, Idle) /\ stamp' = stamp
  BY DEF PromoteDonation, InPromoteTx
<1>3. P \in SUBSET Requests /\ \A r \in P : entry[r] = "waiting"
  BY DEF Waiting
<1>4. \A r \in P : Made(r) = {} /\ stamp[r] # 0 /\ ~Claimable(r)'
  <2>1. \A r \in P : Made(r) = {} /\ stamp[r] # 0
    BY <1>3 DEF SeatedOnce, StampOrder, Claimable
  <2> QED BY <1>1, <1>3, <2>1 DEF MarkFulfilled, Claimable
<1>5. ASSUME NEW g \in Handlers, Doing(g, "book")' \/ Claiming(g)'
      PROVE  task'[g] = task[g] /\ task[g].req \notin P
  <2>1. \A q \in Procs : task'[q] = IF q = p THEN Idle ELSE task[q]
    BY <1>2 DEF Goto, TypeOK
  <2>2. task'[g] = task[g]
    BY <1>5, <2>1 DEF Doing, Claiming, Idle
  <2>3. ~Claiming(g)
    BY <1>2, BookingAssumption DEF LockFree, LockedCountIsStable
  <2> QED BY <1>3, <1>5, <2>2, <2>3 DEF SubmittedOnce, Doing, Claiming
<1>6. NoNewRow
  BY <1>1, MarkFulfilledRows
<1> QED BY <1>1, <1>2, <1>3, <1>4, <1>5, <1>6, SeatingOnce

(***************************************************************************)
(* Nobody who has a booking gets another, unless an admin may fulfil rows  *)
(* of a donation event out of turn.                                        *)
(***************************************************************************)
LEMMA SeatedStep ==
    ASSUME OutOfTurnIsPaid, SeatInv, RowInv, SeatedOnce, [Next]_vars
    PROVE  SeatedOnce'
<1>1. TypeOK /\ StampOrder /\ SubmittedOnce /\ LockedCountIsStable /\ EntriesMove
  BY EntriesStep DEF SeatInv, RowInv
<1>2. ASSUME NEW h \in Handlers, "admin" \in Ops, AdminFulfil(h) PROVE FALSE
  <2>1. task[h] \in AdminTask
    BY <1>1, <1>2, HandlersAreProcs, TaskKinds DEF AdminFulfil, Doing, TypeOK
  <2> QED BY <1>2, <2>1 DEF AdminFulfil, AdminTask, OutOfTurnIsPaid
<1>3. CASE Next
  BY <1>1, <1>2, <1>3, WhoIsQuiet, QuietOnce, SubmitSeatsOnce, ClaimSeatsOnce,
     PromotionSeatsOnce
<1>4. CASE UNCHANGED vars
  <2>1. UNCHANGED <<booking, entry, stamp, task>>
    BY <1>4 DEF vars, rows, queue, time
  <2>2. Quiet
    BY <2>1 DEF Quiet, NoNewRow, NothingBegins
  <2> QED BY <1>1, <2>2, QuietOnce
<1> QED BY <1>3, <1>4

\* What keeps bookings to one per request.
OnceInv == SeatInv /\ RowInv /\ SeatedOnce

(***************************************************************************)
(* So it stays, with any number of requests, handlers and settings.        *)
(***************************************************************************)
THEOREM OnceInvariance ==
    ASSUME OutOfTurnIsPaid
    PROVE  Spec => []OnceInv
<1>1. Init => SeatedOnce
  <2> SUFFICES ASSUME Init PROVE SeatedOnce
    OBVIOUS
  <2>1. \A r \in Requests : Made(r) = {}
    BY DEF Init, Made, Bookings
  <2>2. \A h \in Handlers : ~Doing(h, "book") /\ ~Claiming(h)
    BY HandlersAreProcs DEF Init, Doing, Claiming, Idle
  <2> QED BY <2>1, <2>2 DEF SeatedOnce
<1>2. SeatInv /\ RowInv /\ SeatedOnce /\ [Next]_vars => SeatedOnce'
  BY SeatedStep
<1>3. SeatInv /\ RowInv /\ SeatedOnce => OnceInv
  BY DEF OnceInv
<1> QED BY <1>1, <1>2, <1>3, SeatInvariance, RowInvariance, PTL DEF Spec

(***************************************************************************)
(* A submission yields at most one booking, however claims, promotions,    *)
(* removals and the sweeper race.                                          *)
(***************************************************************************)
THEOREM OneBookingEach ==
    ASSUME OutOfTurnIsPaid
    PROVE  Spec => []OneBookingPerRequest
<1>1. ASSUME OnceInv PROVE OneBookingPerRequest
  <2> SUFFICES ASSUME NEW r \in Requests PROVE Cardinality(Made(r)) <= 1
    BY DEF OneBookingPerRequest, Made
  <2>1. \A a, b \in Made(r) : a = b
    BY <1>1 DEF OnceInv, SeatedOnce
  <2>2. CASE Made(r) = {}
    BY <2>2, FS_EmptySet
  <2>3. CASE Made(r) # {}
    <3>1. PICK b : Made(r) = {b}
      BY <2>1, <2>3
    <3>2. Cardinality({b}) = 1
      BY FS_Singleton
    <3> QED BY <3>1, <3>2
  <2> QED BY <2>2, <2>3
<1>2. OnceInv => OneBookingPerRequest
  BY <1>1
<1> QED BY <1>2, OnceInvariance, PTL

-----------------------------------------------------------------------------
(* Promotions are fair and full.                                           *)

(***************************************************************************)
(* The bookings made for R take exactly the seats that R asked for: their  *)
(* tickets are new.                                                        *)
(***************************************************************************)
LEMMA SeatsGiven ==
    ASSUME TypeOK, TicketsFollowBooking,
           NEW R \in SUBSET Requests, \A r \in R : Fresh(r) # {},
           NEW status \in {"booked", "paid"}, NEW method,
           CreateBookings({NewBooking(r) : r \in R}, status, method)
    PROVE  SeatsTaken' = SeatsTaken + SeatCount(R, Need)
<1> DEFINE new == UNION {TicketsOf(NewBooking(r)) : r \in R}
           seats == SeatsOf(R, Need)
           of == [s \in seats |-> <<NewBooking(s[1]), s[2]>>]
<1>1. \A r \in R : /\ NewBooking(r) \in Bookings /\ NewBooking(r)[1] = r
                   /\ booking[NewBooking(r)].status = "none"
  BY FreshBooking
<1>2. IsFiniteSet(seats)
  BY SeatsOfFinite, BookingAssumption, FS_Subset
<1>3. of \in Surjection(seats, new)
  <2>1. ASSUME NEW s \in seats PROVE of[s] \in new
    <3>1. PICK r \in R : s \in {r} \X (1..Need[r])
      BY DEF SeatsOf
    <3>2. of[s] \in TicketsOf(NewBooking(r))
      BY <1>1, <3>1 DEF TicketsOf
    <3> QED BY <3>2
  <2>2. ASSUME NEW t \in new PROVE \E s \in seats : of[s] = t
    <3>1. PICK r \in R : t \in TicketsOf(NewBooking(r))
      OBVIOUS
    <3>2. t = <<NewBooking(r), t[2]>> /\ t[2] \in 1..Need[r]
      BY <1>1, <3>1 DEF TicketsOf
    <3>3. <<r, t[2]>> \in seats
      BY <3>2 DEF SeatsOf
    <3>4. of[<<r, t[2]>>] = t
      BY <3>2, <3>3
    <3> QED BY <3>3, <3>4
  <2> HIDE DEF new, seats
  <2> QED BY <2>1, <2>2 DEF Surjection
<1>4. of \in Injection(seats, new)
  <2>1. ASSUME NEW s \in seats, NEW u \in seats, of[s] = of[u] PROVE s = u
    <3>1. PICK r \in R : s \in {r} \X (1..Need[r])
      BY DEF SeatsOf
    <3>2. PICK q \in R : u \in {q} \X (1..Need[q])
      BY DEF SeatsOf
    <3>3. s = <<r, s[2]>> /\ u = <<q, u[2]>>
      BY <3>1, <3>2
    <3>4. of[s] = <<NewBooking(r), s[2]>> /\ of[u] = <<NewBooking(q), u[2]>>
      BY <3>3
    <3>5. NewBooking(r) = NewBooking(q) /\ s[2] = u[2]
      BY <2>1, <3>4
    <3> QED BY <1>1, <3>3, <3>5
  <2>2. of \in [seats -> new]
    BY <1>3 DEF Surjection
  <2> HIDE DEF of, seats, new
  <2> QED BY <2>1, <2>2 DEF Injection, IsInjective
<1>5. IsFiniteSet(new) /\ Cardinality(new) = SeatCount(R, Need)
  <2> HIDE DEF of, new
  <2> QED BY <1>2, <1>3, <1>4, FS_Surjection DEF SeatCount
<1>6. ActiveTickets' = ActiveTickets \cup new /\ ActiveTickets \cap new = {}
  <2>1. ASSUME NEW t \in Tickets
        PROVE  /\ ticket'[t] \in SeatHolding <=> t \in ActiveTickets \/ t \in new
               /\ t \in new => t \notin ActiveTickets
    <3>1. PICK b \in Bookings : t \in TicketsOf(b) /\ t[1] = b
      BY TicketOf DEF Tickets
    <3>2. t \in new <=> b \in {NewBooking(r) : r \in R}
      <4>1. \A c \in Bookings : t \in TicketsOf(c) => c = b
        BY <3>1, TicketOf
      <4> QED BY <1>1, <3>1, <4>1
    <3>3. ticket'[t] = IF t \in new THEN status ELSE ticket[t]
      <4> HIDE DEF new
      <4> QED BY <3>1, <3>2 DEF CreateBookings
    <3>4. t \in new => ticket[t] = "none"
      BY <1>1, <3>1, <3>2, FollowsByTicket DEF Agree
    <3> HIDE DEF new
    <3> QED BY <3>3, <3>4 DEF ActiveTickets, SeatHolding
  <2>2. new \subseteq Tickets
    BY <1>1 DEF Tickets
  <2> HIDE DEF new
  <2> QED BY <2>1, <2>2 DEF ActiveTickets
<1>7. IsFiniteSet(ActiveTickets) /\ Cardinality(ActiveTickets) \in Nat
  BY SeatsTakenType DEF SeatsTaken
<1> HIDE DEF new
<1>8. Cardinality(ActiveTickets \cup new)
      = Cardinality(ActiveTickets) + Cardinality(new) - Cardinality(ActiveTickets \cap new)
  BY <1>5, <1>7, FS_Union
<1>9. Cardinality(ActiveTickets \cap new) = 0
  BY <1>6, FS_EmptySet
<1>10. Cardinality(new) \in Nat
  BY <1>5, FS_CardinalityType
<1>11. SeatsTaken' = Cardinality(ActiveTickets \cup new)
  BY <1>6 DEF SeatsTaken
<1> QED BY <1>5, <1>7, <1>8, <1>9, <1>10, <1>11 DEF SeatsTaken

\* What the property asks of a step of p.
ServesInOrder(p) ==
    \A r \in Requests : (entry[r] = "waiting" /\ entry'[r] = "waiting") =>
       /\ SeatsTaken' + Need[r] > task[p].ev.limit
       /\ \A s \in Requests :
             (/\ entry[s] = "waiting" /\ entry'[s] = "fulfilled"
              /\ stamp[r] < stamp[s])
             => Need[s] < Need[r]

(***************************************************************************)
(* What the queue is to the rule: finite, without ties, every stamp given  *)
(* out by the clock, every row asking for a seat at least.                 *)
(***************************************************************************)
LEMMA QueueIsOrdered ==
    ASSUME SeatInv
    PROVE  /\ Waiting \subseteq Requests /\ IsFiniteSet(Waiting)
           /\ clock \in Nat
           /\ \A r \in Waiting : /\ Need[r] \in Nat /\ Need[r] > 0
                                 /\ stamp[r] \in Nat /\ stamp[r] <= clock
           /\ \A r, s \in Waiting : stamp[r] = stamp[s] => r = s
<1>1. Waiting \subseteq Requests /\ IsFiniteSet(Waiting)
  BY BookingAssumption, FS_Subset DEF Waiting
<1>2. clock \in Nat /\ \A r \in Requests : stamp[r] \in Nat /\ stamp[r] <= clock
  BY DEF SeatInv, TypeOK, StampOrder
<1>3. \A r \in Requests : Need[r] \in Nat /\ Need[r] > 0
  BY BookingAssumption
<1>4. \A r, s \in Waiting : stamp[r] = stamp[s] => r = s
  BY <1>1 DEF SeatInv, StampOrder, Waiting
<1> QED BY <1>1, <1>2, <1>3, <1>4

(***************************************************************************)
(* A promotion goes by a limit.                                            *)
(***************************************************************************)
LEMMA PromotionLimit ==
    ASSUME SeatInv, NEW p \in Procs, Doing(p, "promote"), task[p].at = "read"
    PROVE  task[p].ev.limit \in Nat /\ SeatsTaken \in Nat
<1>1. Limited(task[p].ev)
  BY DEF SeatInv, LimitsSeen, LimitSeen, Doing
<1>2. task[p] \in PromoteTask
  BY TaskKinds DEF Doing, SeatInv, TypeOK
<1>3. task[p].ev \in Settings
  BY <1>2 DEF PromoteTask
<1> QED BY <1>1, <1>3, SeatsTakenType, BookingAssumption DEF EventRow, Limited

(***************************************************************************)
(* A promotion that serves somebody leaves nobody behind who fits, and     *)
(* nobody is overtaken who asked for as little.                            *)
(***************************************************************************)
LEMMA DonationServesInOrder ==
    ASSUME SeatInv, TicketsFollowBooking, NEW p \in Procs, PromoteDonation(p)
    PROVE  ServesInOrder(p)
<1>1. Doing(p, "promote") /\ task[p].at = "read"
  BY DEF PromoteDonation, InPromoteTx
<1>2. PICK P \in SUBSET Waiting :
         /\ Promotions(P, task[p].ev)
         /\ \A r \in P : Fresh(r) # {}
         /\ CreateBookings({NewBooking(r) : r \in P}, "paid", "donation")
         /\ MarkFulfilled(P)
  BY DEF PromoteDonation
<1>3. PICK limit \in Nat : limit = task[p].ev.limit /\ SeatsTaken \in Nat
  BY <1>1, PromotionLimit
<1>4. PICK given : given = [r \in Waiting |-> SeatCount({v \in P : stamp[v] < stamp[r]}, Need)]
  OBVIOUS
<1>5. P \subseteq Requests /\ IsFiniteSet(P) /\ \A r \in P : Need[r] \in Nat
  BY QueueIsOrdered, FS_Subset
<1>6. \A r \in Waiting : given[r] \in Nat /\ given[r] <= SeatCount(P, Need)
  BY <1>4, <1>5, SeatCountMonotone
<1>7. \A r \in Waiting : r \in P <=> given[r] + Need[r] <= limit - SeatsTaken
  BY <1>2, <1>3, <1>4 DEF Promotions, IsAllocation, Remaining
<1>8. SeatsTaken' = SeatsTaken + SeatCount(P, Need) /\ SeatCount(P, Need) \in Nat
  BY <1>2, <1>5, SeatsGiven, SeatsOfFinite DEF SeatInv
<1>9. \A r \in Requests : (entry[r] = "waiting" /\ entry'[r] = "waiting")
                             => r \in Waiting \ P
  BY <1>2 DEF Waiting, MarkFulfilled
<1>10. \A s \in Requests : (entry[s] = "waiting" /\ entry'[s] = "fulfilled") => s \in P
  BY <1>2 DEF MarkFulfilled
<1>11. ASSUME NEW r \in Waiting \ P
       PROVE  SeatsTaken' + Need[r] > limit
  <2>1. Need[r] \in Nat /\ given[r] + Need[r] > limit - SeatsTaken
    BY <1>3, <1>6, <1>7, QueueIsOrdered
  <2> QED BY <1>3, <1>6, <1>8, <2>1
<1>12. ASSUME NEW r \in Waiting \ P, NEW s \in P, stamp[r] < stamp[s]
       PROVE  Need[s] < Need[r]
  <2>1. /\ Need[r] \in Nat /\ given[r] \in Nat /\ given[r] + Need[r] > limit - SeatsTaken
        /\ Need[s] \in Nat /\ given[s] \in Nat /\ given[s] + Need[s] <= limit - SeatsTaken
    BY <1>3, <1>6, <1>7, QueueIsOrdered
  <2>2. given[r] <= given[s]
    <3> DEFINE V == {v \in P : stamp[v] < stamp[r]}
               W == {v \in P : stamp[v] < stamp[s]}
    <3>1. V \in SUBSET W
      BY <1>12, QueueIsOrdered
    <3>2. IsFiniteSet(W) /\ \A v \in W : Need[v] \in Nat
      BY <1>5, FS_Subset
    <3>3. given[r] = SeatCount(V, Need) /\ given[s] = SeatCount(W, Need)
      BY <1>4
    <3> HIDE DEF V, W
    <3> QED BY <3>1, <3>2, <3>3, SeatCountMonotone
  <2> QED BY <1>3, <2>1, <2>2
<1> QED BY <1>3, <1>9, <1>10, <1>11, <1>12 DEF ServesInOrder

(***************************************************************************)
(* A promotion that serves nobody had nobody to serve: the rule would have *)
(* picked the first who fits.                                              *)
(***************************************************************************)
LEMMA NobodyServedInOrder ==
    ASSUME SeatInv, NEW p \in Procs, PromoteNobody(p)
    PROVE  ServesInOrder(p)
<1>1. /\ Doing(p, "promote") /\ task[p].at = "read"
      /\ ~ \E P \in SUBSET Waiting : Promotions(P, task[p].ev)
      /\ UNCHANGED <<ticket, entry>>
  BY DEF PromoteNobody, InPromoteTx, rows, queue
<1>2. task[p].ev.limit \in Nat /\ SeatsTaken \in Nat
  BY <1>1, PromotionLimit
<1>3. SeatsTaken' = SeatsTaken
  BY <1>1 DEF SeatsTaken, ActiveTickets
<1>4. ASSUME NEW r \in Waiting, SeatsTaken + Need[r] <= task[p].ev.limit PROVE FALSE
  <2> DEFINE rem == Remaining(task[p].ev)
  <2>1. Need[r] \in Nat /\ Need[r] > 0
    BY QueueIsOrdered
  <2>2. rem > 0 /\ Need[r] <= rem
    BY <1>2, <1>4, <2>1 DEF Remaining
  <2>3. PICK P \in SUBSET Waiting : IsAllocation(P, Waiting, stamp, Need, rem)
    BY QueueIsOrdered, AllocationExists
  <2>4. P # {}
    <3>1. SUFFICES ASSUME P = {} PROVE r \in P
      OBVIOUS
    <3>2. SeatCount({v \in P : stamp[v] < stamp[r]}, Need) = 0
      <4>1. SeatsOf({v \in P : stamp[v] < stamp[r]}, Need) = {}
        BY <3>1 DEF SeatsOf
      <4> QED BY <4>1, FS_EmptySet DEF SeatCount
    <3> QED BY <2>1, <2>2, <2>3, <3>2 DEF IsAllocation
  <2> QED BY <1>1, <2>2, <2>3, <2>4 DEF Promotions
<1>5. \A r \in Waiting : SeatsTaken + Need[r] > task[p].ev.limit
  BY <1>2, <1>4, QueueIsOrdered
<1> QED BY <1>1, <1>3, <1>5 DEF ServesInOrder, Waiting

(***************************************************************************)
(* Every promotion that commits on a donation event leaves nobody behind   *)
(* who fits, and lets a row overtake an older one only if it asked for     *)
(* fewer seats, whatever else runs, fails or crashes.                      *)
(***************************************************************************)
THEOREM PromotionsAreFairAndFull == Spec => PromotionIsFairAndFull
<1> DEFINE Q == \A p \in Procs :
                   (PromoteNobody(p) /\ task[p].ev.donation) \/ PromoteDonation(p)
                   => \A r \in Requests : (entry[r] = "waiting" /\ entry'[r] = "waiting") =>
                         /\ SeatsTaken' + Need[r] > task[p].ev.limit
                         /\ \A s \in Requests :
                               (/\ entry[s] = "waiting" /\ entry'[s] = "fulfilled"
                                /\ stamp[r] < stamp[s])
                               => Need[s] < Need[r]
<1>1. SeatInv /\ TicketsFollowBooking /\ [Next]_vars => [Q]_vars
  <2> SUFFICES ASSUME SeatInv, TicketsFollowBooking, NEW p \in Procs,
                      (PromoteNobody(p) /\ task[p].ev.donation) \/ PromoteDonation(p)
               PROVE  ServesInOrder(p)
    BY DEF ServesInOrder
  <2> QED BY NobodyServedInOrder, DonationServesInOrder
<1>2. PromotionIsFairAndFull <=> [][Q]_vars
  BY DEF PromotionIsFairAndFull
<1> QED BY <1>1, <1>2, SeatInvariance, TicketsAlwaysFollow, PTL DEF Spec

-----------------------------------------------------------------------------
(* How far parallel submissions oversell.                                  *)

\* The requests counted and found to fit, whose booking is still to be inserted.
ComingIn(T) ==
    {T[h].req : h \in {g \in Handlers : /\ T[g].op = "book" /\ T[g].at = "counted"
                                        /\ Fits(T[g])}}

Coming == ComingIn(task)

\* Every setting has a limit, of L seats at most.
AllLimited(L) == \A e \in Settings : Limited(e) /\ e.limit <= L

\* No more than B seats are asked for by submissions that Handlers can hold.
InFlightAtMost(B) ==
    \A R \in SUBSET Requests : ExistsInjection(R, Handlers) => SeatCount(R, Need) <= B

SeatsPromised(L, B) == SeatsTaken + SeatCount(Coming, Need) <= L + B

(***************************************************************************)
(* A submission by itself asks for its own seats.                          *)
(***************************************************************************)
LEMMA SeatsOfOne ==
    ASSUME NEW r \in Requests
    PROVE  SeatCount({r}, Need) = Need[r] /\ Need[r] \in Nat
<1>1. Need[r] \in Nat
  BY BookingAssumption
<1>2. IsFiniteSet({r}) /\ \A s \in {r} : Need[s] \in Nat
  BY <1>1, FS_Singleton
<1>3. SeatCount({r}, Need) = SeatCount({r} \ {r}, Need) + Need[r]
  BY <1>2, SeatCountRemove
<1>4. SeatCount({r} \ {r}, Need) = 0
  <2>1. SeatsOf({r} \ {r}, Need) = {}
    BY DEF SeatsOf
  <2> QED BY <2>1, FS_EmptySet DEF SeatCount
<1> QED BY <1>1, <1>3, <1>4

(***************************************************************************)
(* Submissions on their way are held by a handler each.                    *)
(***************************************************************************)
LEMMA ComingFits ==
    ASSUME NEW T \in [Procs -> Task], NEW B \in Nat, InFlightAtMost(B)
    PROVE  /\ ComingIn(T) \subseteq Requests
           /\ SeatCount(ComingIn(T), Need) \in Nat
           /\ SeatCount(ComingIn(T), Need) <= B
<1> DEFINE On(h) == T[h].op = "book" /\ T[h].at = "counted" /\ Fits(T[h])
           by == [r \in ComingIn(T) |-> CHOOSE h \in Handlers : On(h) /\ T[h].req = r]
<1>1. ComingIn(T) \subseteq Requests
  BY HandlersAreProcs, TaskKinds DEF ComingIn, BookTask
<1>2. \A r \in ComingIn(T) : by[r] \in Handlers /\ T[by[r]].req = r
  BY DEF ComingIn
<1>3. by \in Injection(ComingIn(T), Handlers)
  <2>1. by \in [ComingIn(T) -> Handlers]
    BY <1>2
  <2>2. \A r, s \in ComingIn(T) : by[r] = by[s] => r = s
    BY <1>2
  <2> HIDE DEF by
  <2> QED BY <2>1, <2>2 DEF Injection, IsInjective
<1>4. SeatCount(ComingIn(T), Need) <= B
  <2> HIDE DEF by
  <2> QED BY <1>1, <1>3 DEF InFlightAtMost, ExistsInjection
<1>5. SeatCount(ComingIn(T), Need) \in Nat
  BY <1>1, SeatCountMonotone, BookingAssumption
<1> QED BY <1>1, <1>4, <1>5

(***************************************************************************)
(* Only the count before a booking puts a submission on its way.           *)
(***************************************************************************)
LEMMA WhoIsComing ==
    ASSUME TypeOK, Next
    PROVE  Coming' \subseteq Coming \/ \E h \in Handlers : BookCount(h)
<1> USE HandlersAreProcs
<1>1. ASSUME \A g \in Handlers : Doing(g, "book")' /\ task'[g].at = "counted"
                                    => task'[g] = task[g]
      PROVE  Coming' \subseteq Coming
  BY <1>1 DEF Coming, ComingIn, Doing, Fits
<1>2. ASSUME NEW p \in Procs, NEW t, Goto(p, t), t.op # "book" \/ t.at # "counted"
      PROVE  Coming' \subseteq Coming
  <2>1. \A g \in Procs : task'[g] = IF g = p THEN t ELSE task[g]
    BY <1>2 DEF Goto, TypeOK
  <2> QED BY <1>1, <1>2, <2>1 DEF Doing
<1>3. Idle.op # "book"
  BY DEF Idle
<1>4. CASE Quiet
  BY <1>1, <1>4 DEF Quiet, NothingBegins
<1>5. ASSUME NEW h \in Handlers, Submit(h), ~BookCount(h)
      PROVE  Coming' \subseteq Coming
  <2>1. ASSUME NEW r \in Requests, BookRead(h, r) PROVE Coming' \subseteq Coming
    <3> DEFINE t == [op |-> "book", at |-> "read", req |-> r, ev |-> event, seats |-> 0]
    <3>1. t.at # "counted" /\ Goto(h, t)
      BY <2>1 DEF BookRead
    <3> HIDE DEF t
    <3> QED BY <1>2, <3>1
  <2>2. CASE BookBegin(h)
    <3>1. [task[h] EXCEPT !.at = "begun"].at # "counted"
      BY <2>2, TaskKinds DEF BookBegin, Doing, TypeOK, BookTask
    <3> QED BY <1>2, <2>2, <3>1 DEF BookBegin
  <2>3. CASE BookSeats(h) \/ BookWaitlist(h)
    BY <1>2, <1>3, <2>3 DEF BookSeats, BookWaitlist
  <2> QED BY <1>5, <2>1, <2>2, <2>3 DEF Submit
<1>6. ASSUME NEW h \in Handlers, ClaimLock(h) PROVE Coming' \subseteq Coming
  <2> DEFINE t == [task[h] EXCEPT !.at = "locked", !.seats = SeatsTaken]
  <2>1. Goto(h, t) /\ t.at # "counted"
    BY <1>6, TaskKinds DEF ClaimLock, Doing, TypeOK, ClaimTask
  <2> HIDE DEF t
  <2> QED BY <1>2, <2>1
<1>7. ASSUME NEW p \in Procs, \/ PromoteDonation(p)
                              \/ p \in Handlers /\ (ClaimCommit(p) \/ AdminFulfil(p))
      PROVE  Coming' \subseteq Coming
  BY <1>2, <1>3, <1>7 DEF PromoteDonation, ClaimCommit, AdminFulfil
<1> QED BY <1>4, <1>5, <1>6, <1>7, WhoIsQuiet

(***************************************************************************)
(* A booking takes the seats that were promised to it.                     *)
(***************************************************************************)
LEMMA PromisedSeatsTaken ==
    ASSUME TypeOK, TicketsFollowBooking, SubmittedOnce, NEW L \in Nat, AllLimited(L),
           NEW h \in Handlers, BookSeats(h)
    PROVE  /\ task[h].req \in Coming /\ Coming' \subseteq Coming \ {task[h].req}
           /\ SeatsTaken' = SeatsTaken + Need[task[h].req]
<1> DEFINE r == task[h].req
<1> USE HandlersAreProcs
<1>1. task[h] \in BookTask /\ Doing(h, "book")
  BY TaskKinds DEF BookSeats, Doing, TypeOK
<1>2. r \in Requests /\ Limited(task[h].ev)
  BY <1>1 DEF BookTask, AllLimited
<1>3. r \in Coming
  BY <1>1, <1>2 DEF BookSeats, Admitted, Coming, ComingIn, Doing
<1>4. Coming' \subseteq Coming \ {r}
  <2>1. \A g \in Handlers : task'[g] = IF g = h THEN Idle ELSE task[g]
    BY DEF BookSeats, Goto, TypeOK
  <2>2. \A g \in Handlers \ {h} : Doing(g, "book") => task[g].req # r
    BY <1>1 DEF SubmittedOnce
  <2>3. Idle.op # "book"
    BY DEF Idle
  <2> HIDE DEF r
  <2> QED BY <2>1, <2>2, <2>3 DEF Coming, ComingIn, Doing, Fits
<1>5. SeatsTaken' = SeatsTaken + SeatCount({r}, Need)
  <2>1. PICK method : \E status \in {"booked", "paid"} :
                /\ CreateBookings({NewBooking(r)}, status, method)
                /\ Fresh(r) # {}
    BY DEF BookSeats
  <2>2. {NewBooking(q) : q \in {r}} = {NewBooking(r)}
    OBVIOUS
  <2>3. {r} \in SUBSET Requests /\ \A q \in {r} : Fresh(q) # {}
    BY <1>2, <2>1
  <2> HIDE DEF r
  <2> QED BY <2>1, <2>2, <2>3, SeatsGiven
<1> QED BY <1>2, <1>3, <1>4, <1>5, SeatsOfOne

(***************************************************************************)
(* No step promises more than is left and what is in flight.               *)
(***************************************************************************)
LEMMA PromisedStep ==
    ASSUME OutOfTurnIsPaid, NEW L \in Nat, AllLimited(L), NEW B \in Nat, InFlightAtMost(B),
           SeatInv, TicketsFollowBooking, SubmittedOnce, TypeOK', Next, SeatsPromised(L, B)
    PROVE  SeatsPromised(L, B)'
<1> USE HandlersAreProcs
<1> DEFINE seats == SeatsTaken
           coming == SeatCount(Coming, Need)
<1>1. /\ Coming \subseteq Requests /\ coming \in Nat
      /\ Coming' \subseteq Requests /\ coming' \in Nat /\ coming' <= B
  BY ComingFits DEF Coming, SeatInv, TypeOK
<1>2. seats \in Nat /\ seats' \in Nat
  <2>1. ActiveTickets' \subseteq Tickets
    BY DEF ActiveTickets
  <2> QED BY <2>1, SeatsTakenType, TicketsFinite, FS_Subset, FS_CardinalityType
          DEF SeatsTaken
<1>3. seats + coming <= L + B
  BY DEF SeatsPromised
<1>4. ASSUME seats' <= L PROVE seats' + coming' <= L + B
  BY <1>1, <1>2, <1>4
<1>5. ASSUME seats' <= seats, Coming' \subseteq Coming PROVE seats' + coming' <= L + B
  <2>1. coming' <= coming
    BY <1>1, <1>5, SeatCountMonotone, BookingAssumption, FS_Subset
  <2>2. \A s, t, c, d \in Nat : (s + c <= L + B /\ t <= s /\ d <= c) => t + d <= L + B
    OBVIOUS
  <2> HIDE DEF seats, coming
  <2> QED BY <1>1, <1>2, <1>3, <1>5, <2>1, <2>2
<1>6. \A e \in Settings : e.limit \in Nat /\ e.limit <= L
  BY BookingAssumption DEF AllLimited, Limited, EventRow
<1>7. ASSUME NEW h \in Handlers, BookCount(h) PROVE seats' + coming' <= L + B
  <2> DEFINE t == [task[h] EXCEPT !.at = "counted", !.seats = SeatsTaken]
  <2>1. task[h] \in BookTask
    BY <1>7, TaskKinds DEF BookCount, Doing, SeatInv, TypeOK
  <2>2. /\ t.req = task[h].req /\ t.seats = seats /\ t.ev = task[h].ev
        /\ t.req \in Requests /\ t.ev \in Settings
    BY <2>1 DEF BookTask
  <2>3. \A g \in Handlers : task'[g] = IF g = h THEN t ELSE task[g]
    BY <1>7 DEF BookCount, Goto, SeatInv, TypeOK
  <2>4. seats' = seats
    BY <1>7 DEF BookCount, rows, SeatsTaken, ActiveTickets
  <2> HIDE DEF t, coming
  <2>5. CASE Fits(t)
    <3>1. Need[t.req] \in Nat /\ t.ev.limit \in Nat /\ t.ev.limit <= L
      BY <1>6, <2>2, BookingAssumption
    <3>2. seats + Need[t.req] <= t.ev.limit
      BY <2>2, <2>5 DEF Fits
    <3>3. seats' <= L
      BY <1>2, <2>4, <3>1, <3>2
    <3> QED BY <1>4, <3>3
  <2>6. CASE ~Fits(t)
    <3>1. Coming' \subseteq Coming
      BY <2>3, <2>6 DEF Coming, ComingIn, Fits
    <3> QED BY <1>2, <1>5, <2>4, <3>1
  <2> QED BY <2>5, <2>6
<1>8. ASSUME NEW h \in Handlers, BookSeats(h) PROVE seats' + coming' <= L + B
  <2> DEFINE r == task[h].req
  <2>1. /\ r \in Coming /\ Coming' \subseteq Coming \ {r}
        /\ seats' = seats + Need[r]
    BY <1>8, PromisedSeatsTaken DEF SeatInv
  <2>2. IsFiniteSet(Coming) /\ \A q \in Coming : Need[q] \in Nat
    BY <1>1, BookingAssumption, FS_Subset
  <2> HIDE DEF r
  <2>3. coming = SeatCount(Coming \ {r}, Need) + Need[r]
    BY <2>1, <2>2, SeatCountRemove
  <2>4. SeatCount(Coming \ {r}, Need) \in Nat
        /\ coming' <= SeatCount(Coming \ {r}, Need)
    <3> DEFINE W == Coming \ {r}
    <3>1. IsFiniteSet(W) /\ (\A q \in W : Need[q] \in Nat) /\ Coming' \in SUBSET W
      BY <2>1, <2>2, FS_Subset
    <3>2. W \in SUBSET W
      OBVIOUS
    <3> HIDE DEF W
    <3>3. SeatCount(W, Need) \in Nat /\ SeatCount(Coming', Need) <= SeatCount(W, Need)
      BY <3>1, <3>2, SeatCountMonotone
    <3> QED BY <3>3 DEF W
  <2> HIDE DEF seats, coming
  <2> QED BY <1>1, <1>2, <1>3, <2>1, <2>2, <2>3, <2>4
<1>9. ASSUME NEW h \in Handlers, ClaimCommit(h) PROVE seats' + coming' <= L + B
  <2>1. task[h] \in ClaimTask
    BY <1>9, TaskKinds DEF ClaimCommit, Doing, SeatInv, TypeOK
  <2>2. task[h].ev.limit \in Nat /\ task[h].ev.limit <= L
    BY <1>6, <2>1 DEF ClaimTask
  <2>3. seats' <= task[h].ev.limit
    BY <1>9, ClaimWithinLimit
  <2> HIDE DEF seats
  <2>4. seats' <= L
    BY <1>2, <2>2, <2>3
  <2> QED BY <1>4, <2>4
<1>10. ASSUME NEW p \in Procs, PromoteDonation(p) PROVE seats' + coming' <= L + B
  <2>1. task[p] \in PromoteTask /\ task[p].at = "read"
    BY <1>10, TaskKinds DEF PromoteDonation, InPromoteTx, Doing, SeatInv, TypeOK
  <2>2. task[p].ev.limit \in Nat /\ task[p].ev.limit <= L
    BY <1>6, <2>1 DEF PromoteTask
  <2>3. seats' <= task[p].ev.limit
    BY <1>10, PromotionWithinLimit
  <2> HIDE DEF seats
  <2>4. seats' <= L
    BY <1>2, <2>2, <2>3
  <2> QED BY <1>4, <2>4
<1>11. ASSUME NEW h \in Handlers, "admin" \in Ops, AdminFulfil(h) PROVE FALSE
  <2>1. task[h] \in AdminTask
    BY <1>11, TaskKinds DEF AdminFulfil, Doing, SeatInv, TypeOK
  <2> QED BY <1>11, <2>1 DEF AdminFulfil, AdminTask, OutOfTurnIsPaid
<1>12. ASSUME ActiveTickets' \subseteq ActiveTickets, Coming' \subseteq Coming
       PROVE  seats' + coming' <= L + B
  BY <1>5, <1>12, FewerSeats
<1>13. seats' + coming' <= L + B
  <2> HIDE DEF seats, coming
  <2>1. TypeOK
    BY DEF SeatInv
  <2> QED BY <1>7, <1>8, <1>9, <1>10, <1>11, <1>12, <2>1, WhoTakesSeats, WhoIsComing
<1> QED BY <1>13 DEF SeatsPromised

(***************************************************************************)
(* Two submissions that count at the same time both fit (section 7 of the  *)
(* README), but nothing adds up: however the limit is switched, and        *)
(* whatever is canceled, promoted and booked again, an event never has     *)
(* more seats taken than its limit and what is asked for in flight at      *)
(* once.                                                                   *)
(***************************************************************************)
THEOREM OversellingIsBounded ==
    ASSUME OutOfTurnIsPaid, NEW L \in Nat, AllLimited(L), NEW B \in Nat, InFlightAtMost(B)
    PROVE  Spec => [](SeatsTaken <= L + B)
<1>1. ASSUME Init PROVE SeatsPromised(L, B)
  <2>1. ActiveTickets = {} /\ Coming = {}
    BY <1>1, HandlersAreProcs
    DEF Init, ActiveTickets, SeatHolding, Coming, ComingIn, Idle
  <2>2. SeatsOf({}, Need) = {}
    BY DEF SeatsOf
  <2>3. SeatsTaken = 0 /\ SeatCount(Coming, Need) = 0
    BY <2>1, <2>2, FS_EmptySet DEF SeatsTaken, SeatCount
  <2> QED BY <2>3 DEF SeatsPromised
<1>2. ASSUME SeatInv, SeatInv', RowInv, [Next]_vars, SeatsPromised(L, B)
      PROVE  SeatsPromised(L, B)'
  <2>1. CASE Next
    BY <1>2, <2>1, PromisedStep DEF SeatInv, RowInv
  <2>2. CASE UNCHANGED vars
    BY <1>2, <2>2 DEF vars, rows, SeatsPromised, SeatsTaken, ActiveTickets, Coming,
                      ComingIn, Fits
  <2> QED BY <1>2, <2>1, <2>2
<1>3. ASSUME SeatInv, SeatsPromised(L, B) PROVE SeatsTaken <= L + B
  <2>1. SeatCount(Coming, Need) \in Nat
    BY <1>3, ComingFits DEF Coming, SeatInv, TypeOK
  <2> QED BY <1>3, <2>1, SeatsTakenType DEF SeatsPromised
<1>4. Init => SeatsPromised(L, B)
  BY <1>1
<1>5. SeatInv /\ SeatInv' /\ RowInv /\ [Next]_vars /\ SeatsPromised(L, B)
      => SeatsPromised(L, B)'
  BY <1>2
<1>6. SeatInv /\ SeatsPromised(L, B) => SeatsTaken <= L + B
  BY <1>3
<1> QED BY <1>4, <1>5, <1>6, SeatInvariance, RowInvariance, PTL DEF Spec

-----------------------------------------------------------------------------
(* Booking implements Submission.                                          *)

\* Where the mapping puts a submission, in a state that keeps the invariant.
PlacesAre ==
    \A r \in Requests :
        /\ Made(r) = {} =>
              PlaceOf(r) = IF entry[r] = "none" THEN "outside"
                           ELSE IF Waits(r) THEN "queued" ELSE "withdrawn"
        /\ \A b \in Made(r) :
              PlaceOf(r) = IF booking[b].status \in {"booked", "paid"} THEN "seated" ELSE "left"

(***************************************************************************)
(* No reachable state is "broken".                                         *)
(***************************************************************************)
LEMMA Placed == OnceInv => PlacesAre
<1> SUFFICES ASSUME OnceInv, NEW r \in Requests
             PROVE  /\ Made(r) = {} =>
                          PlaceOf(r) = IF entry[r] = "none" THEN "outside"
                                       ELSE IF Waits(r) THEN "queued" ELSE "withdrawn"
                    /\ \A b \in Made(r) :
                          PlaceOf(r) = IF booking[b].status \in {"booked", "paid"}
                                       THEN "seated" ELSE "left"
  BY DEF PlacesAre
<1>1. entry[r] \in EntryStatus
  BY DEF OnceInv, SeatInv, TypeOK
<1>2. entry[r] = "fulfilled" => fulfilledBy[r] \in Made(r)
  <2>1. /\ fulfilledBy[r] \in Bookings \cup {Null}
        /\ entry[r] = "fulfilled" <=> fulfilledBy[r] # Null
        /\ fulfilledBy[r] # Null => /\ fulfilledBy[r][1] = r
                                    /\ booking[fulfilledBy[r]].status # "none"
    BY DEF OnceInv, SeatInv, RowInv, TypeOK, FulfilledNamesBooking
  <2> QED BY <2>1 DEF Made, Bookings
<1>3. ASSUME Made(r) = {}
      PROVE  PlaceOf(r) = IF entry[r] = "none" THEN "outside"
                          ELSE IF Waits(r) THEN "queued" ELSE "withdrawn"
  <2>1. ~MadeOnce(r, {"booked", "paid"}) /\ ~MadeOnce(r, {"canceled", "purged"})
    BY <1>3 DEF MadeOnce
  <2>2. entry[r] # "fulfilled"
    BY <1>2, <1>3
  <2>3. CASE entry[r] = "none"
    BY <1>3, <2>1, <2>3 DEF PlaceOf, Waits
  <2>4. CASE Waits(r)
    BY <1>3, <2>1, <2>4 DEF PlaceOf, Waits
  <2>5. CASE entry[r] = "removed"
    BY <1>3, <2>1, <2>5 DEF PlaceOf, Waits
  <2> QED BY <1>1, <2>2, <2>3, <2>4, <2>5 DEF EntryStatus, Waits
<1>4. ASSUME NEW b \in Made(r)
      PROVE  PlaceOf(r) = IF booking[b].status \in {"booked", "paid"} THEN "seated" ELSE "left"
  <2>1. Made(r) = {b} /\ ~Claimable(r)
    BY DEF OnceInv, SeatedOnce
  <2>2. entry[r] = "fulfilled" => fulfilledBy[r] = b
    BY <1>2, <2>1
  <2>3. booking[b].status \in {"booked", "paid", "canceled", "purged"}
    BY DEF Made, Bookings, OnceInv, SeatInv, TypeOK, BookingStatus
  <2>4. CASE booking[b].status \in {"booked", "paid"}
    <3>1. MadeOnce(r, {"booked", "paid"}) /\ ~MadeOnce(r, {"canceled", "purged"})
      BY <2>1, <2>2, <2>4 DEF MadeOnce
    <3> QED BY <2>1, <2>4, <3>1 DEF PlaceOf
  <2>5. CASE booking[b].status \in {"canceled", "purged"}
    <3>1. ~MadeOnce(r, {"booked", "paid"}) /\ MadeOnce(r, {"canceled", "purged"})
      BY <2>1, <2>2, <2>5 DEF MadeOnce
    <3> QED BY <2>1, <2>5, <3>1 DEF PlaceOf
  <2> QED BY <2>3, <2>4, <2>5
<1> QED BY <1>3, <1>4

(***************************************************************************)
(* Nor is the next one.                                                    *)
(***************************************************************************)
LEMMA PlacedNext == OnceInv' => PlacesAre'
BY Placed, PTL

(***************************************************************************)
(* Who looks up a limit looks up the event's.                              *)
(***************************************************************************)
LEMMA LimitsStep ==
    ASSUME TypeOK, Next
    PROVE  Limits' \subseteq Limits \cup {event.limit}
<1> USE HandlersAreProcs DEF Looked
<1>1. ASSUME \A p \in Procs : Looked(p)' => \/ task'[p].ev = event
                                            \/ Looked(p) /\ task'[p].ev = task[p].ev
      PROVE  Limits' \subseteq Limits \cup {event.limit}
  BY <1>1 DEF Limits
<1>2. ASSUME NEW q \in Procs, NEW t, Goto(q, t),
             \/ t.op \notin {"claim", "promote"}
             \/ t = StartPromote
             \/ t.ev = event
             \/ Looked(q) /\ t.ev = task[q].ev
      PROVE  Limits' \subseteq Limits \cup {event.limit}
  <2>1. \A p \in Procs : task'[p] = IF p = q THEN t ELSE task[p]
    BY <1>2 DEF Goto, TypeOK
  <2> QED BY <1>1, <1>2, <2>1 DEF StartPromote
<1>3. ASSUME task' = task PROVE Limits' \subseteq Limits \cup {event.limit}
  BY <1>1, <1>3
<1>4. Idle.op \notin {"claim", "promote"}
  BY DEF Idle
<1>5. ASSUME NEW h \in Handlers, Submit(h)
      PROVE  Limits' \subseteq Limits \cup {event.limit}
  <2>1. ASSUME NEW r \in Requests, BookRead(h, r)
        PROVE  Limits' \subseteq Limits \cup {event.limit}
    <3> DEFINE t == [op |-> "book", at |-> "read", req |-> r, ev |-> event, seats |-> 0]
    <3>1. t.op = "book" /\ Goto(h, t)
      BY <2>1 DEF BookRead
    <3> HIDE DEF t
    <3> QED BY <1>2, <3>1
  <2>2. CASE BookBegin(h) \/ BookCount(h)
    <3>1. task[h] \in BookTask
      BY <2>2, TaskKinds DEF BookBegin, BookCount, Doing, TypeOK
    <3>2. [task[h] EXCEPT !.at = "begun"].op = "book"
          /\ [task[h] EXCEPT !.at = "counted", !.seats = SeatsTaken].op = "book"
      BY <3>1 DEF BookTask
    <3>3. \E t : t.op = "book" /\ Goto(h, t)
      BY <2>2, <3>2 DEF BookBegin, BookCount
    <3> QED BY <1>2, <3>3
  <2>3. CASE BookSeats(h) \/ BookWaitlist(h)
    BY <1>2, <1>4, <2>3 DEF BookSeats, BookWaitlist
  <2> QED BY <1>5, <2>1, <2>2, <2>3 DEF Submit
<1>6. ASSUME NEW h \in Handlers, Claim(h) \/ \E r \in Requests : ClaimRead(h, r)
      PROVE  Limits' \subseteq Limits \cup {event.limit}
  <2>1. ASSUME NEW r \in Requests, ClaimRead(h, r)
        PROVE  Limits' \subseteq Limits \cup {event.limit}
    <3> DEFINE t == [op |-> "claim", at |-> "read", req |-> r, ev |-> event, seats |-> 0]
    <3>1. t.ev = event /\ Goto(h, t)
      BY <2>1 DEF ClaimRead
    <3> HIDE DEF t
    <3> QED BY <1>2, <3>1
  <2>2. CASE ClaimLock(h)
    <3> DEFINE t == [task[h] EXCEPT !.at = "locked", !.seats = SeatsTaken]
    <3>1. task[h] \in ClaimTask /\ Doing(h, "claim") /\ Goto(h, t)
      BY <2>2, TaskKinds DEF ClaimLock, Doing, TypeOK
    <3>2. t.ev = task[h].ev
      BY <3>1 DEF ClaimTask
    <3> HIDE DEF t
    <3> QED BY <1>2, <3>1, <3>2 DEF Doing
  <2>3. CASE ClaimRefused(h) \/ ClaimCommit(h)
    BY <1>2, <1>4, <2>3 DEF ClaimRefused, ClaimCommit
  <2> QED BY <1>6, <2>1, <2>2, <2>3 DEF Claim
<1>7. ASSUME NEW p \in Procs, PromoteAfterCancel(p) \/ SendMail(p)
      PROVE  Limits' \subseteq Limits \cup {event.limit}
  <2>1. CASE PromoteRead(p)
    <3> DEFINE t == [op |-> "promote", at |-> "read", ev |-> event]
    <3>1. t.ev = event /\ (Goto(p, t) \/ Goto(p, Idle))
      BY <2>1 DEF PromoteRead
    <3> HIDE DEF t
    <3> QED BY <1>2, <1>4, <3>1
  <2>2. CASE PromoteInvite(p)
    <3> DEFINE t == [op |-> "mail",
                     to |-> {r \in Waiting : Need[r] <= Remaining(task[p].ev)}]
    <3>1. t.op = "mail" /\ Goto(p, t)
      BY <2>2 DEF PromoteInvite
    <3> HIDE DEF t
    <3> QED BY <1>2, <3>1
  <2>3. CASE PromoteNobody(p) \/ PromoteDonation(p) \/ SendMail(p)
    BY <1>2, <1>4, <2>3 DEF PromoteNobody, PromoteDonation, SendMail
  <2> QED BY <1>7, <2>1, <2>2, <2>3 DEF PromoteAfterCancel
<1>8. ASSUME NEW h \in Handlers, Admin(h)
      PROVE  Limits' \subseteq Limits \cup {event.limit}
  <2>1. \E x : \/ Goto(h, [op |-> "pick", req |-> x])
               \/ \E y : Goto(h, [op |-> "admin", req |-> x, ev |-> y])
               \/ Goto(h, [op |-> "mail", to |-> x])
               \/ Goto(h, Idle)
    BY <1>8 DEF Admin, PickRow, PickEvent, AdminFulfil, AdminPromote
  <2>2. PICK x : \/ Goto(h, [op |-> "pick", req |-> x])
                 \/ \E y : Goto(h, [op |-> "admin", req |-> x, ev |-> y])
                 \/ Goto(h, [op |-> "mail", to |-> x])
                 \/ Goto(h, Idle)
    BY <2>1
  <2> QED BY <1>2, <1>4, <2>2
<1>9. ASSUME NEW h \in Handlers,
             \/ RotateWaitlist(h) \/ RefundCancel(h) \/ GiveBackCancel(h)
             \/ \E b \in Bookings : RefundRead(h, b)
             \/ \E t \in Tickets : GiveBackRead(h, t)
      PROVE  Limits' \subseteq Limits \cup {event.limit}
  <2>1. \E x : \/ Goto(h, [op |-> "refund", of |-> x])
               \/ Goto(h, [op |-> "giveback", of |-> x])
               \/ Goto(h, StartPromote)
    BY <1>9 DEF RotateWaitlist, RefundCancel, GiveBackCancel, RefundRead, GiveBackRead
  <2> QED BY <1>2, <2>1
<1>10. CASE Sweep
  <2>1. task' = task \/ Goto(Sweeper, StartPromote)
    BY <1>10 DEF Sweep, SweepList, SweepPromote, SweepPromoted, SweepEntries,
                 SweepCancel, SweepExpire, Goto
  <2> QED BY <1>2, <1>3, <2>1 DEF Procs
<1>11. CASE \/ \E r \in Requests : RemoveEntry(r) \/ DeadlinePasses(r)
            \/ \E b \in Bookings : MarkPaid(b) \/ Lapse(b)
            \/ \E t \in Tickets : CheckIn(t) \/ UndoCheckIn(t)
            \/ \E e \in Settings : UpdateEvent(e)
            \/ PurgeTest \/ SweepSkip
  BY <1>3, <1>11 DEF RemoveEntry, DeadlinePasses, MarkPaid, Lapse, CheckIn, UndoCheckIn,
                     UpdateEvent, PurgeTest, SweepSkip
<1>12. ASSUME NEW p \in Procs, Drop(p) PROVE Limits' \subseteq Limits \cup {event.limit}
  BY <1>2, <1>4, <1>12 DEF Drop
<1>13. CASE Crash
  BY <1>1, <1>4, <1>13 DEF Crash
<1> QED BY <1>5, <1>6, <1>7, <1>8, <1>9, <1>10, <1>11, <1>12, <1>13 DEF Next

(***************************************************************************)
(* A claim that has the event row ends by its commit, or by failing.       *)
(***************************************************************************)
LEMMA WhoEndsClaim ==
    ASSUME TypeOK, Next, NEW h \in Handlers, Claiming(h), task'[h] # task[h]
    PROVE  ClaimCommit(h) \/ Crash \/ \E p \in Procs : Drop(p)
<1> USE HandlersAreProcs DEF Doing, Claiming
<1>1. task[h] # Idle /\ task[h] # StartPromote
  BY DEF Idle, StartPromote
<1>2. ASSUME NEW q \in Procs, \E t : Goto(q, t) PROVE q = h
  BY <1>2 DEF Goto, TypeOK
<1>3. ASSUME NEW g \in Handlers,
             \/ Submit(g) \/ Admin(g) \/ RotateWaitlist(g)
             \/ RefundCancel(g) \/ GiveBackCancel(g)
             \/ \E r \in Requests : ClaimRead(g, r)
             \/ \E b \in Bookings : RefundRead(g, b)
             \/ \E t \in Tickets : GiveBackRead(g, t)
      PROVE  FALSE
  <2>1. \E t : Goto(g, t)
    BY <1>3 DEF Submit, BookRead, BookBegin, BookCount, BookSeats, BookWaitlist,
                Admin, PickRow, PickEvent, AdminFulfil, AdminPromote, RotateWaitlist,
                RefundCancel, GiveBackCancel, ClaimRead, RefundRead, GiveBackRead
  <2>2. task[g] = Idle \/ task[g].op # "claim"
    BY <1>3 DEF Submit, BookRead, BookBegin, BookCount, BookSeats, BookWaitlist,
                Admin, PickRow, PickEvent, AdminFulfil, AdminPromote, RotateWaitlist,
                RefundCancel, GiveBackCancel, ClaimRead, RefundRead, GiveBackRead, Free
  <2> QED BY <1>1, <1>2, <2>1, <2>2
<1>4. ASSUME NEW g \in Handlers, Claim(g) PROVE ClaimCommit(h)
  <2>1. \E t : Goto(g, t)
    BY <1>4 DEF Claim, ClaimRefused, ClaimLock, ClaimCommit
  <2>2. g = h
    BY <1>2, <2>1
  <2> QED BY <1>4, <2>2 DEF Claim, ClaimRefused, ClaimLock
<1>5. ASSUME NEW q \in Procs, PromoteAfterCancel(q) \/ SendMail(q) PROVE FALSE
  <2>1. (\E t : Goto(q, t)) /\ task[q].op # "claim"
    BY <1>5 DEF PromoteAfterCancel, PromoteRead, PromoteNobody, PromoteDonation,
                PromoteInvite, SendMail, InPromoteTx, StartPromote
  <2> QED BY <1>2, <2>1
<1>6. ASSUME \/ Sweep \/ PurgeTest \/ SweepSkip
             \/ \E r \in Requests : RemoveEntry(r) \/ DeadlinePasses(r)
             \/ \E b \in Bookings : MarkPaid(b) \/ Lapse(b)
             \/ \E t \in Tickets : CheckIn(t) \/ UndoCheckIn(t)
             \/ \E e \in Settings : UpdateEvent(e)
      PROVE  FALSE
  <2>1. task'[h] = task[h]
    <3>1. CASE SweepPromote
      BY <3>1, BookingAssumption DEF SweepPromote, TypeOK
    <3> QED BY <1>6, <3>1 DEF Sweep, SweepList, SweepPromoted, SweepEntries, SweepCancel,
                SweepExpire, PurgeTest, SweepSkip, RemoveEntry, DeadlinePasses, MarkPaid,
                Lapse, CheckIn, UndoCheckIn, UpdateEvent
  <2> QED BY <2>1
<1> QED BY <1>3, <1>4, <1>5, <1>6 DEF Next

(***************************************************************************)
(* ... and gets it by asking for it.                                       *)
(***************************************************************************)
LEMMA WhoBeginsClaim ==
    ASSUME TypeOK, Next, NEW h \in Handlers, Claiming(h)', task'[h] # task[h]
    PROVE  ClaimLock(h)
<1> USE HandlersAreProcs DEF Doing, Claiming
<1>1. ~Quiet
  BY DEF Quiet, NothingBegins
<1>2. ASSUME NEW q \in Procs, NEW t, Goto(q, t) PROVE q = h /\ t.op = "claim"
  BY <1>2 DEF Goto, TypeOK
<1>3. Idle.op # "claim"
  BY DEF Idle
<1>4. ASSUME NEW g \in Handlers, Submit(g) PROVE FALSE
  <2>1. ASSUME NEW r \in Requests, BookRead(g, r) PROVE FALSE
    <3> DEFINE t == [op |-> "book", at |-> "read", req |-> r, ev |-> event, seats |-> 0]
    <3>1. t.op = "book" /\ Goto(g, t)
      BY <2>1 DEF BookRead
    <3> HIDE DEF t
    <3> QED BY <1>2, <3>1
  <2>2. CASE BookBegin(g) \/ BookCount(g)
    <3>1. task[g] \in BookTask
      BY <2>2, TaskKinds DEF BookBegin, BookCount, TypeOK
    <3>2. [task[g] EXCEPT !.at = "begun"].op = "book"
          /\ [task[g] EXCEPT !.at = "counted", !.seats = SeatsTaken].op = "book"
      BY <3>1 DEF BookTask
    <3>3. \E t : t.op = "book" /\ Goto(g, t)
      BY <2>2, <3>2 DEF BookBegin, BookCount
    <3> QED BY <1>2, <3>3
  <2>3. CASE BookSeats(g) \/ BookWaitlist(g)
    BY <1>2, <1>3, <2>3 DEF BookSeats, BookWaitlist
  <2> QED BY <1>4, <2>1, <2>2, <2>3 DEF Submit
<1>5. ASSUME NEW g \in Handlers, ClaimCommit(g) \/ AdminFulfil(g) PROVE FALSE
  BY <1>2, <1>3, <1>5 DEF ClaimCommit, AdminFulfil
<1>6. ASSUME NEW p \in Procs, PromoteDonation(p) PROVE FALSE
  BY <1>2, <1>3, <1>6 DEF PromoteDonation
<1>7. ASSUME NEW g \in Handlers, ClaimLock(g) PROVE g = h
  BY <1>2, <1>7 DEF ClaimLock
<1> QED BY <1>1, <1>4, <1>5, <1>6, <1>7, WhoIsQuiet

(***************************************************************************)
(* All other steps leave the claims under way alone.                       *)
(***************************************************************************)
LEMMA ClaimsKept ==
    ASSUME TypeOK, Next, ~Crash, \A p \in Procs : ~Drop(p),
           \A h \in Handlers : ~ClaimLock(h) /\ ~ClaimCommit(h)
    PROVE  Claims' = Claims
<1>1. \A h \in Handlers : Claiming(h) => task'[h] = task[h]
  BY WhoEndsClaim
<1>2. \A h \in Handlers : Claiming(h)' => task'[h] = task[h]
  BY WhoBeginsClaim
<1>3. \A h \in Handlers : task'[h] = task[h] => (Claiming(h)' <=> Claiming(h))
  BY DEF Claiming, Doing
<1> QED BY <1>1, <1>2, <1>3 DEF Claims

\* A step that seats nobody and moves nobody in the queue.
Gives == /\ UNCHANGED <<event, entry>>
         /\ \A b \in Bookings : booking'[b].status = "none" <=> booking[b].status = "none"
         /\ ActiveTickets' \subseteq ActiveTickets
         /\ Claims' = Claims

(***************************************************************************)
(* What the steps are to Submission.                                       *)
(***************************************************************************)
LEMMA StepKinds ==
    ASSUME TypeOK, Next
    PROVE  \/ Gives
           \/ \E r \in Requests : RemoveEntry(r) \/ SweepExpire(r)
           \/ \E h \in Handlers : AdminPromote(h)
           \/ \E e \in Settings : UpdateEvent(e)
           \/ Crash \/ \E p \in Procs : Drop(p)
           \/ \E h \in Handlers : \/ BookSeats(h) \/ BookWaitlist(h)
                                  \/ ClaimLock(h) \/ ClaimCommit(h)
                                  \/ "admin" \in Ops /\ AdminFulfil(h)
           \/ \E p \in Procs : PromoteDonation(p)
<1> SUFFICES ASSUME ~Crash, \A p \in Procs : ~Drop(p) /\ ~PromoteDonation(p),
                    \A r \in Requests : ~RemoveEntry(r) /\ ~SweepExpire(r),
                    \A e \in Settings : ~UpdateEvent(e),
                    \A h \in Handlers : /\ ~BookSeats(h) /\ ~BookWaitlist(h)
                                        /\ ~ClaimLock(h) /\ ~ClaimCommit(h)
                                        /\ ~("admin" \in Ops /\ AdminFulfil(h))
                                        /\ ~AdminPromote(h)
             PROVE  Gives
  OBVIOUS
<1> USE DEF queue, rows
<1>1. UNCHANGED <<event, entry>>
  <2>1. CASE \E h \in Handlers : Submit(h) \/ Claim(h) \/ \E r \in Requests : ClaimRead(h, r)
    BY <2>1 DEF Submit, BookRead, BookBegin, BookCount, Claim, ClaimRead, ClaimRefused
  <2>2. CASE \E p \in Procs : PromoteAfterCancel(p) \/ SendMail(p)
    BY <2>2 DEF PromoteAfterCancel, PromoteRead, PromoteNobody, PromoteInvite, SendMail
  <2>3. CASE "admin" \in Ops /\ \E h \in Handlers : Admin(h)
    BY <2>3 DEF Admin, PickRow, PickEvent
  <2>4. CASE \E h \in Handlers : \/ \E b \in Bookings : RefundRead(h, b)
                                 \/ \E t \in Tickets : GiveBackRead(h, t)
                                 \/ RotateWaitlist(h)
                                 \/ RefundCancel(h) \/ GiveBackCancel(h)
    BY <2>4 DEF RefundRead, GiveBackRead, RotateWaitlist, RefundCancel, GiveBackCancel
  <2>5. CASE \/ \E r \in Requests : DeadlinePasses(r)
             \/ \E b \in Bookings : Lapse(b) \/ MarkPaid(b)
             \/ \E t \in Tickets : CheckIn(t) \/ UndoCheckIn(t)
             \/ PurgeTest
    BY <2>5 DEF DeadlinePasses, Lapse, MarkPaid, CheckIn, UndoCheckIn, PurgeTest
  <2>6. CASE SweepSkip \/ Sweep
    <3>1. ASSUME NEW b \in Bookings, SweepCancel(b) PROVE UNCHANGED <<event, entry>>
      BY <3>1 DEF SweepCancel
    <3>2. CASE SweepSkip \/ SweepList
      BY <3>2 DEF SweepSkip, SweepList
    <3>3. CASE SweepPromote \/ SweepPromoted \/ SweepEntries
      BY <3>3 DEF SweepPromote, SweepPromoted, SweepEntries
    <3> QED BY <2>6, <3>1, <3>2, <3>3 DEF Sweep
  <2> QED BY <2>1, <2>2, <2>3, <2>4, <2>5, <2>6 DEF Next
<1>2. \A b \in Bookings : booking'[b].status = "none" <=> booking[b].status = "none"
  <2>1. ASSUME NEW h \in Handlers, Submit(h) PROVE booking' = booking
    BY <2>1 DEF Submit, BookRead, BookBegin, BookCount
  <2> QED BY <2>1, WhoIsQuiet DEF Quiet
<1>3. ActiveTickets' \subseteq ActiveTickets
  BY WhoTakesSeats
<1>4. Claims' = Claims
  BY ClaimsKept
<1> QED BY <1>1, <1>2, <1>3, <1>4 DEF Gives

(***************************************************************************)
(* They give seats back, one by one or with their booking, or do nothing   *)
(* that concerns Submission.                                               *)
(***************************************************************************)
LEMMA GivingBack ==
    ASSUME TypeOK, PlacesAre, PlacesAre', BookingsMove, Gives,
           Limits' \subseteq Limits \cup {event.limit}
    PROVE  Promise!Next
<1> DEFINE R == {r \in Requests : PlaceOf(r) = "seated" /\ PlaceOf(r)' # "seated"}
<1>1. ASSUME NEW r \in Requests
      PROVE  PlaceOf(r)' = IF r \in R THEN "left" ELSE PlaceOf(r)
  <2>1. Made(r)' = Made(r) /\ entry'[r] = entry[r]
    BY DEF Gives, Made, Bookings
  <2>2. CASE Made(r) = {}
    BY <2>1, <2>2 DEF PlacesAre, Waits
  <2>3. ASSUME NEW b \in Made(r)
        PROVE  PlaceOf(r)' = IF r \in R THEN "left" ELSE PlaceOf(r)
    <3>1. /\ PlaceOf(r) = IF booking[b].status \in {"booked", "paid"} THEN "seated" ELSE "left"
          /\ PlaceOf(r)' = IF booking'[b].status \in {"booked", "paid"} THEN "seated" ELSE "left"
      BY <2>1, <2>3 DEF PlacesAre
    <3>2. booking[b].status \notin {"booked", "paid"} => booking'[b].status \notin {"booked", "paid"}
      <4>1. b \in Bookings /\ booking[b].status \in BookingStatus
        BY <2>3 DEF Made, Bookings, TypeOK
      <4>2. booking[b].status # "none"
        BY <2>3 DEF Made
      <4> QED BY <4>1, <4>2 DEF BookingsMove, BookingStatus
    <3> QED BY <3>1, <3>2
  <2> QED BY <2>2, <2>3
<1>2. \A r \in R : r \in Requests /\ PlaceOf(r) = "seated"
  OBVIOUS
<1> HIDE DEF R
<1>3. Promise!Move(R, "seated", "left")
  BY <1>1, <1>2 DEF Promise!Move, Place
<1>4. R = {} => Place' = Place
  BY <1>1 DEF Place
<1>5. event' = event /\ Claims' = Claims
  BY DEF Gives
<1>6. SeatsTaken' <= SeatsTaken /\ SeatsTaken \in Nat /\ SeatsTaken' \in Nat
  <2>1. SeatsTaken' <= SeatsTaken
    BY FewerSeats DEF Gives
  <2>2. IsFiniteSet(ActiveTickets')
    BY SeatsTakenType, FS_Subset DEF Gives
  <2> QED BY <2>1, <2>2, SeatsTakenType, FS_CardinalityType DEF SeatsTaken
<1>7. CASE SeatsTaken' = SeatsTaken
  BY <1>2, <1>3, <1>4, <1>5, <1>7 DEF Promise!Next, Promise!Leave, Promise!Look
<1>8. CASE SeatsTaken' < SeatsTaken
  <2>1. CASE R # {}
    BY <1>2, <1>3, <1>5, <1>8, <2>1 DEF Promise!Next, Promise!GiveBack
  <2>2. CASE R = {}
    <3>1. ActiveTickets # {}
      BY <1>6, <1>8, FS_EmptySet DEF SeatsTaken
    <3>2. PICK r \in Requests : TRUE
      BY <3>1 DEF ActiveTickets, Tickets, Bookings
    <3> QED BY <1>4, <1>5, <1>8, <2>2, <3>2 DEF Promise!Next, Promise!GiveBack
  <2> QED BY <2>1, <2>2
<1> QED BY <1>6, <1>7, <1>8

(***************************************************************************)
(* The organizer sets the event to something else.                         *)
(***************************************************************************)
LEMMA Resizing ==
    ASSUME NEW e \in Settings, UpdateEvent(e),
           Limits' \subseteq Limits \cup {event.limit}
    PROVE  Promise!Next
<1>1. UNCHANGED <<booking, ticket, entry, fulfilledBy, task>>
  BY DEF UpdateEvent, rows, queue
<1>2. Place' = Place
  BY <1>1 DEF Place, PlaceOf, MadeOnce, Made, Waits, Claimable
<1>3. SeatsTaken' = SeatsTaken /\ Claims' = Claims
  BY <1>1 DEF SeatsTaken, ActiveTickets, Claims, Claiming, Doing
<1>4. CASE event'.limit = event.limit
  BY <1>2, <1>3, <1>4 DEF Promise!Next, Promise!Look
<1>5. CASE event'.limit # event.limit
  BY <1>2, <1>3, <1>5 DEF Promise!Next, Promise!Resize
<1> QED BY <1>4, <1>5

(***************************************************************************)
(* What fails or is stopped is forgotten.                                  *)
(***************************************************************************)
LEMMA Forgetting ==
    ASSUME TypeOK, Crash \/ \E p \in Procs : Drop(p),
           Limits' \subseteq Limits \cup {event.limit}
    PROVE  Promise!Next
<1> DEFINE R == Claims \ Claims'
<1>1. UNCHANGED <<event, booking, ticket, entry, fulfilledBy>>
  BY DEF Crash, Drop, rows, queue
<1>2. \A p \in Procs : task'[p] = task[p] \/ task'[p] = Idle
  BY DEF Crash, Drop, Goto, TypeOK
<1>3. Place' = Place
  BY <1>1 DEF Place, PlaceOf, MadeOnce, Made, Waits, Claimable
<1>4. SeatsTaken' = SeatsTaken /\ event'.limit = event.limit
  BY <1>1 DEF SeatsTaken, ActiveTickets
<1>5. \A h \in Handlers : Claiming(h)' => Claiming(h) /\ task'[h] = task[h]
  BY <1>2, HandlersAreProcs DEF Claiming, Doing, Idle
<1>6. Claims' \subseteq Claims
  BY <1>5 DEF Claims
<1>7. Claims \subseteq Requests
  BY HandlersAreProcs, TaskKinds DEF Claims, Claiming, Doing, TypeOK, ClaimTask
<1>8. R \subseteq Requests /\ R \subseteq Claims /\ Claims' = Claims \ R
  BY <1>6, <1>7
<1> HIDE DEF R
<1>9. CASE R = {}
  BY <1>3, <1>4, <1>8, <1>9 DEF Promise!Next, Promise!Look
<1>10. CASE R # {}
  BY <1>3, <1>4, <1>8, <1>10 DEF Promise!Next, Promise!Forget
<1> QED BY <1>9, <1>10

(***************************************************************************)
(* One row of the queue is removed, expires, or is called up out of turn.  *)
(***************************************************************************)
LEMMA QueueMoving ==
    ASSUME PlacesAre, PlacesAre', UNCHANGED <<event, booking, ticket>>, Claims' = Claims,
           Limits' \subseteq Limits \cup {event.limit},
           NEW r \in Requests, \A s \in Requests \ {r} : entry'[s] = entry[s],
           \/ entry'[r] = entry[r]
           \/ Waits(r) /\ Waits(r)'
           \/ Waits(r) /\ entry'[r] = "removed"
    PROVE  Promise!Next
<1>1. \A s \in Requests : Made(s)' = Made(s)
  BY DEF Made
<1>2. ASSUME NEW s \in Requests, Made(s) # {}
      PROVE  PlaceOf(s)' = PlaceOf(s)
  <2>1. PICK b : b \in Made(s)
    BY <1>2
  <2> QED BY <1>1, <2>1 DEF PlacesAre
<1>3. ASSUME NEW s \in Requests, Made(s) = {}, s # r \/ entry'[r] = entry[r] \/ Waits(r)'
      PROVE  PlaceOf(s)' = PlaceOf(s)
  BY <1>1, <1>3 DEF PlacesAre, Waits
<1>4. SeatsTaken' = SeatsTaken /\ event'.limit = event.limit
  BY DEF SeatsTaken, ActiveTickets
<1>5. CASE Made(r) = {} /\ Waits(r) /\ entry'[r] = "removed"
  <2>1. PlaceOf(r) = "queued" /\ PlaceOf(r)' = "withdrawn"
    BY <1>1, <1>5 DEF PlacesAre, Waits
  <2>2. Place' = [s \in Requests |-> IF s \in {r} THEN "withdrawn" ELSE Place[s]]
    BY <1>2, <1>3, <2>1 DEF Place
  <2>3. Promise!Withdraw(r)
    BY <1>4, <2>1, <2>2 DEF Promise!Withdraw, Promise!Move, Place
  <2> QED BY <2>3 DEF Promise!Next
<1>6. CASE ~ (Made(r) = {} /\ Waits(r) /\ entry'[r] = "removed")
  <2>1. Place' = Place
    BY <1>2, <1>3, <1>6 DEF Place
  <2> QED BY <1>4, <2>1 DEF Promise!Next, Promise!Look
<1> QED BY <1>5, <1>6

(***************************************************************************)
(* Those for whom bookings are made are seated; nobody else moves.         *)
(***************************************************************************)
LEMMA SeatedPlaces ==
    ASSUME PlacesAre, PlacesAre',
           NEW R \in SUBSET Requests, \A r \in R : Fresh(r) # {} /\ Made(r) = {},
           NEW status \in {"booked", "paid"}, NEW method,
           CreateBookings({NewBooking(r) : r \in R}, status, method),
           \A s \in Requests \ R : entry'[s] = entry[s]
    PROVE  Place' = [s \in Requests |-> IF s \in R THEN "seated" ELSE Place[s]]
<1>1. \A s \in Requests : Made(s)' = IF s \in R THEN Made(s) \cup {NewBooking(s)} ELSE Made(s)
  BY MadeByCreating
<1>2. ASSUME NEW s \in R PROVE PlaceOf(s)' = "seated"
  <2>1. NewBooking(s) \in Bookings /\ NewBooking(s) \in Made(s)'
    BY <1>1, FreshBooking
  <2>2. booking'[NewBooking(s)].status = status
    BY <2>1 DEF CreateBookings
  <2> QED BY <2>1, <2>2 DEF PlacesAre
<1>3. ASSUME NEW s \in Requests \ R PROVE PlaceOf(s)' = PlaceOf(s)
  <2>1. Made(s)' = Made(s) /\ entry'[s] = entry[s]
    BY <1>1
  <2>2. CASE Made(s) = {}
    BY <2>1, <2>2 DEF PlacesAre, Waits
  <2>3. ASSUME NEW b \in Made(s) PROVE PlaceOf(s)' = PlaceOf(s)
    <3>1. b \in Bookings /\ b[1] = s
      BY <2>3 DEF Made, Bookings
    <3>2. \A q \in R : NewBooking(q)[1] = q
      BY FreshBooking
    <3>3. b \notin {NewBooking(q) : q \in R}
      BY <3>1, <3>2
    <3>4. booking'[b] = booking[b]
      BY <3>1, <3>3 DEF CreateBookings
    <3> QED BY <2>1, <2>3, <3>4 DEF PlacesAre
  <2> QED BY <2>2, <2>3
<1> QED BY <1>2, <1>3 DEF Place

(***************************************************************************)
(* HandleBooking seats a submission or queues it.                          *)
(***************************************************************************)
LEMMA Arriving ==
    ASSUME OnceInv, PlacesAre, PlacesAre', Claims' = Claims,
           Limits' \subseteq Limits \cup {event.limit},
           NEW h \in Handlers, BookSeats(h) \/ BookWaitlist(h)
    PROVE  Promise!Next
<1>0. PICK r : r = task[h].req
  OBVIOUS
<1>1. r \in Requests /\ entry[r] = "none" /\ Made(r) = {}
  <2>1. Doing(h, "book") /\ task[h] \in BookTask
    BY HandlersAreProcs, TaskKinds
       DEF BookSeats, BookWaitlist, Doing, OnceInv, SeatInv, TypeOK
  <2> QED BY <1>0, <2>1 DEF BookTask, OnceInv, RowInv, SubmittedOnce, SeatedOnce
<1>2. PlaceOf(r) = "outside"
  BY <1>1 DEF PlacesAre
<1>3. CASE BookSeats(h)
  <2>1. /\ Fresh(r) # {} /\ event' = event /\ entry' = entry
        /\ \E status, method : /\ status \in {"booked", "paid"}
                               /\ CreateBookings({NewBooking(r)}, status, method)
    BY <1>0, <1>3 DEF BookSeats, queue
  <2>2. {NewBooking(s) : s \in {r}} = {NewBooking(r)}
    OBVIOUS
  <2>3. PICK status, method : /\ status \in {"booked", "paid"}
                              /\ CreateBookings({NewBooking(r)}, status, method)
    BY <2>1
  <2>8. CreateBookings({NewBooking(s) : s \in {r}}, status, method)
    BY <2>3, <2>2
  <2>4. {r} \in SUBSET Requests /\ \A s \in {r} : Fresh(s) # {} /\ Made(s) = {}
    BY <1>1, <2>1
  <2>5. Place' = [s \in Requests |-> IF s \in {r} THEN "seated" ELSE Place[s]]
    BY <2>1, <2>3, <2>4, <2>8, SeatedPlaces
  <2>6. SeatsTaken' = SeatsTaken + Seats({r})
    <3>1. TypeOK /\ TicketsFollowBooking
      BY DEF OnceInv, SeatInv, RowInv
    <3>2. SeatsTaken' = SeatsTaken + SeatCount({r}, Need)
      BY <2>3, <2>4, <2>8, <3>1, SeatsGiven
    <3> QED BY <3>2 DEF Seats
  <2>7. Promise!Arrive(r)
    BY <1>1, <1>2, <2>1, <2>5, <2>6 DEF Promise!Arrive, Promise!Move, Place
  <2> QED BY <1>1, <2>7 DEF Promise!Next
<1>4. CASE BookWaitlist(h)
  <2>1. /\ entry' = [entry EXCEPT ![r] = "waiting"]
        /\ UNCHANGED <<event, booking, ticket>>
    BY <1>0, <1>4 DEF BookWaitlist, rows
  <2>2. \A s \in Requests : entry'[s] = IF s = r THEN "waiting" ELSE entry[s]
    BY <2>1 DEF OnceInv, SeatInv, TypeOK
  <2>3. \A s \in Requests : Made(s)' = Made(s)
    BY <2>1 DEF Made
  <2>4. PlaceOf(r)' = "queued"
    BY <1>1, <2>2, <2>3 DEF PlacesAre, Waits
  <2>5. ASSUME NEW s \in Requests \ {r} PROVE PlaceOf(s)' = PlaceOf(s)
    <3>1. CASE Made(s) = {}
      BY <2>2, <2>3, <3>1 DEF PlacesAre, Waits
    <3>2. ASSUME NEW b \in Made(s) PROVE PlaceOf(s)' = PlaceOf(s)
      BY <2>1, <2>3, <3>2 DEF PlacesAre
    <3> QED BY <3>1, <3>2
  <2>6. Place' = [s \in Requests |-> IF s \in {r} THEN "queued" ELSE Place[s]]
    BY <2>4, <2>5 DEF Place
  <2>7. SeatsTaken' = SeatsTaken
    BY <2>1 DEF SeatsTaken, ActiveTickets
  <2>8. Promise!Arrive(r)
    BY <1>1, <1>2, <2>1, <2>6, <2>7 DEF Promise!Arrive, Promise!Move, Place
  <2> QED BY <1>1, <2>8 DEF Promise!Next
<1> QED BY <1>3, <1>4

(***************************************************************************)
(* A claim gets the event row for a submission that is still queued, and   *)
(* finds its seats free.                                                   *)
(***************************************************************************)
LEMMA BeginningClaim ==
    ASSUME OnceInv, PlacesAre, PlacesAre',
           Limits' \subseteq Limits \cup {event.limit},
           NEW h \in Handlers, ClaimLock(h)
    PROVE  Promise!Next
<1>0. PICK r : r = task[h].req
  OBVIOUS
<1>1. task[h] \in ClaimTask /\ Doing(h, "claim") /\ r \in Requests
  <2>1. task[h] \in ClaimTask /\ Doing(h, "claim")
    BY HandlersAreProcs, TaskKinds DEF ClaimLock, Doing, OnceInv, SeatInv, TypeOK
  <2> QED BY <1>0, <2>1 DEF ClaimTask
<1>2. /\ Claimable(r) /\ Limited(task[h].ev) /\ Need[r] <= Remaining(task[h].ev)
      /\ task[h].at = "read"
      /\ UNCHANGED <<event, booking, ticket, entry, fulfilledBy>>
  BY <1>0 DEF ClaimLock, ClaimHolds, rows, queue
<1>3. Place[r] = "queued"
  <2>1. Made(r) = {}
    BY <1>1, <1>2 DEF OnceInv, SeatedOnce
  <2> QED BY <1>1, <1>2, <2>1 DEF Place, PlacesAre, Waits, Claimable
<1>4. Promise!Fits(Seats({r}))
  <2>1. task[h].ev.limit \in Limits
    BY <1>1, HandlersAreProcs DEF Limits, Looked, Doing
  <2>2. task[h].ev.limit \in Nat /\ SeatsTaken \in Nat
    BY <1>1, <1>2, SeatsTakenType, BookingAssumption DEF ClaimTask, EventRow, Limited
  <2>3. SeatsTaken + Seats({r}) <= task[h].ev.limit
    BY <1>1, <1>2, <2>2, SeatsOfOne DEF Seats, Remaining
  <2> QED BY <2>1, <2>3 DEF Promise!Fits
<1>5. Claims' = Claims \cup {r}
  <2> DEFINE t == [task[h] EXCEPT !.at = "locked", !.seats = SeatsTaken]
  <2>1. t.op = "claim" /\ t.at = "locked" /\ t.req = r /\ Goto(h, t)
    BY <1>0, <1>1 DEF ClaimLock, ClaimTask
  <2> HIDE DEF t
  <2>2. \A g \in Handlers : task'[g] = IF g = h THEN t ELSE task[g]
    BY <2>1, HandlersAreProcs DEF Goto, OnceInv, SeatInv, TypeOK
  <2>3. \A g \in Handlers : Claiming(g)' <=> g = h \/ Claiming(g)
    BY <2>1, <2>2 DEF Claiming, Doing
  <2>4. ~Claiming(h)
    BY <1>2 DEF Claiming
  <2> QED BY <2>1, <2>2, <2>3, <2>4 DEF Claims
<1>6. Place' = Place /\ SeatsTaken' = SeatsTaken
  BY <1>2 DEF Place, PlaceOf, MadeOnce, Made, Waits, Claimable, SeatsTaken, ActiveTickets
<1>7. Promise!Claim(r)
  BY <1>2, <1>3, <1>4, <1>5, <1>6 DEF Promise!Claim
<1> QED BY <1>1, <1>7 DEF Promise!Next

(***************************************************************************)
(* A claim that commits is given the seats that were free when it began.   *)
(***************************************************************************)
LEMMA EndingClaim ==
    ASSUME OnceInv, PlacesAre, PlacesAre',
           Limits' \subseteq Limits \cup {event.limit},
           NEW h \in Handlers, ClaimCommit(h)
    PROVE  Promise!Next
<1>0. PICK r : r = task[h].req
  OBVIOUS
<1>1. task[h] \in ClaimTask /\ Claiming(h) /\ r \in Requests
  <2>1. task[h] \in ClaimTask /\ Claiming(h)
    BY HandlersAreProcs, TaskKinds DEF ClaimCommit, Claiming, Doing, OnceInv, SeatInv, TypeOK
  <2> QED BY <1>0, <2>1 DEF ClaimTask
<1>2. Made(r) = {} /\ entry[r] # "none" /\ lock = h
  BY <1>0, <1>1 DEF OnceInv, SeatedOnce, SeatInv, LockedCountIsStable
<1>3. /\ Fresh(r) # {} /\ Goto(h, Idle) /\ MarkFulfilled({r}) /\ event' = event
      /\ CreateBookings({NewBooking(r)}, "booked", "none")
  BY <1>0 DEF ClaimCommit
<1>4. {NewBooking(s) : s \in {r}} = {NewBooking(r)}
  OBVIOUS
<1>5. /\ {r} \in SUBSET Requests /\ \A s \in {r} : Fresh(s) # {} /\ Made(s) = {}
      /\ CreateBookings({NewBooking(s) : s \in {r}}, "booked", "none")
  BY <1>1, <1>2, <1>3, <1>4
<1>6. \A s \in Requests \ {r} : entry'[s] = entry[s]
  BY <1>3 DEF MarkFulfilled
<1>7. Place' = [s \in Requests |-> IF s \in {r} THEN "seated" ELSE Place[s]]
  BY <1>5, <1>6, SeatedPlaces
<1>8. SeatsTaken' = SeatsTaken + Seats({r})
  <2>1. TypeOK /\ TicketsFollowBooking
    BY DEF OnceInv, SeatInv, RowInv
  <2>2. SeatsTaken' = SeatsTaken + SeatCount({r}, Need)
    BY <1>5, <2>1, SeatsGiven
  <2> QED BY <2>2 DEF Seats
<1>9. Claims = {r} /\ Claims' = Claims \ {r}
  <2>1. \A g \in Handlers : Claiming(g) <=> g = h
    BY <1>1, <1>2 DEF OnceInv, SeatInv, LockedCountIsStable
  <2>2. Claims = {r}
    BY <1>0, <2>1 DEF Claims
  <2>3. \A g \in Handlers : task'[g] = IF g = h THEN Idle ELSE task[g]
    BY <1>3, HandlersAreProcs DEF Goto, OnceInv, SeatInv, TypeOK
  <2>4. \A g \in Handlers : ~Claiming(g)'
    BY <2>1, <2>3 DEF Claiming, Doing, Idle
  <2> QED BY <2>2, <2>4 DEF Claims
<1>10. Place[r] \in {"queued", "withdrawn"}
  BY <1>1, <1>2 DEF Place, PlacesAre
<1>11. Promise!Fits(Seats({r}))
  <2>1. task[h].ev.limit \in Limits
    BY <1>1, HandlersAreProcs DEF Limits, Looked, Claiming, Doing
  <2>2. Limited(task[h].ev)
    BY <1>1, HandlersAreProcs
       DEF OnceInv, SeatInv, LimitsSeen, LimitSeen, Claiming, Doing
  <2>3. /\ task[h].ev.limit \in Nat /\ SeatsTaken \in Nat /\ task[h].seats \in Nat
    BY <1>1, <2>2, SeatsTakenType, BookingAssumption DEF ClaimTask, EventRow, Limited
  <2>4. SeatsTaken <= task[h].seats /\ task[h].seats + Need[r] <= task[h].ev.limit
    BY <1>0, <1>1 DEF OnceInv, SeatInv, LockedCountIsStable
  <2>5. Seats({r}) = Need[r] /\ Need[r] \in Nat
    BY <1>1, SeatsOfOne DEF Seats
  <2>6. SeatsTaken + Seats({r}) <= task[h].ev.limit
    BY <2>3, <2>4, <2>5
  <2> QED BY <2>1, <2>6 DEF Promise!Fits
<1>12. Promise!Seat({r})
  BY <1>1, <1>3, <1>7, <1>8, <1>9, <1>10, <1>11 DEF Promise!Seat, Promise!Move
<1>13. {r} \in (SUBSET Requests) \ {{}}
  BY <1>1
<1> QED BY <1>12, <1>13 DEF Promise!Next

(***************************************************************************)
(* A promotion seats queued submissions, as many as there are seats for,   *)
(* and no claim is under way meanwhile.                                    *)
(***************************************************************************)
LEMMA Promoting ==
    ASSUME OnceInv, PlacesAre, PlacesAre',
           Limits' \subseteq Limits \cup {event.limit},
           NEW p \in Procs, PromoteDonation(p)
    PROVE  Promise!Next
<1>1. PICK P \in SUBSET Waiting :
         /\ Promotions(P, task[p].ev)
         /\ \A r \in P : Fresh(r) # {}
         /\ CreateBookings({NewBooking(r) : r \in P}, "paid", "donation")
         /\ MarkFulfilled(P)
  BY DEF PromoteDonation
<1>2. /\ LockFree /\ Goto(p, Idle) /\ event' = event
      /\ Doing(p, "promote") /\ task[p].at = "read"
  BY DEF PromoteDonation, InPromoteTx
<1>3. P \in SUBSET Requests /\ P # {} /\ IsFiniteSet(P) /\ \A r \in P : Need[r] \in Nat
  BY <1>1, QueueIsOrdered, FS_Subset DEF Promotions, OnceInv
<1>4. \A r \in P : Made(r) = {} /\ Place[r] = "queued"
  <2> SUFFICES ASSUME NEW r \in P PROVE Made(r) = {} /\ Place[r] = "queued"
    OBVIOUS
  <2>1. r \in Requests /\ entry[r] = "waiting"
    BY <1>3 DEF Waiting
  <2>2. Made(r) = {}
    BY <2>1 DEF OnceInv, SeatedOnce, Claimable
  <2> QED BY <2>1, <2>2 DEF Place, PlacesAre, Waits
<1>5. \A s \in Requests \ P : entry'[s] = entry[s]
  BY <1>1 DEF MarkFulfilled
<1>6. Place' = [s \in Requests |-> IF s \in P THEN "seated" ELSE Place[s]]
  BY <1>1, <1>3, <1>4, <1>5, SeatedPlaces
<1>7. SeatsTaken' = SeatsTaken + Seats(P)
  <2>1. TypeOK /\ TicketsFollowBooking
    BY DEF OnceInv, SeatInv, RowInv
  <2>2. SeatsTaken' = SeatsTaken + SeatCount(P, Need)
    BY <1>1, <1>3, <2>1, SeatsGiven
  <2> QED BY <2>2 DEF Seats
<1>8. Claims = {} /\ Claims' = {}
  <2>1. \A g \in Handlers : ~Claiming(g)
    BY <1>2, BookingAssumption, HandlersAreProcs
       DEF LockFree, OnceInv, SeatInv, LockedCountIsStable
  <2>2. \A g \in Handlers : task'[g] = task[g] \/ task'[g] = Idle
    BY <1>2, HandlersAreProcs DEF Goto, OnceInv, SeatInv, TypeOK
  <2>3. \A g \in Handlers : ~Claiming(g)'
    BY <2>1, <2>2 DEF Claiming, Doing, Idle
  <2> QED BY <2>1, <2>3 DEF Claims
<1>9. Promise!Fits(Seats(P))
  <2> DEFINE rem == Remaining(task[p].ev)
  <2>1. task[p].ev.limit \in Limits
    BY <1>2 DEF Limits, Looked, Doing
  <2>2. task[p].ev.limit \in Nat /\ SeatsTaken \in Nat
    BY <1>2, PromotionLimit DEF OnceInv
  <2>3. rem \in Nat
    BY <1>1, <2>2 DEF Promotions, Remaining
  <2>4. SeatCount(P, Need) <= rem /\ SeatCount(P, Need) \in Nat
    <3>1. /\ IsFiniteSet(Waiting)
          /\ \A r \in Waiting : Need[r] \in Nat /\ stamp[r] \in Int
          /\ \A r, s \in Waiting : stamp[r] = stamp[s] => r = s
      BY QueueIsOrdered DEF OnceInv
    <3>2. IsAllocation(P, Waiting, stamp, Need, rem)
      BY <1>1 DEF Promotions
    <3> HIDE DEF rem
    <3> QED BY <1>3, <2>3, <3>1, <3>2, AllocationFits, SeatsOfFinite
  <2>5. SeatsTaken + Seats(P) <= task[p].ev.limit
    BY <2>2, <2>4 DEF Seats, Remaining
  <2> QED BY <2>1, <2>5 DEF Promise!Fits
<1>10. Promise!Seat(P)
  BY <1>2, <1>4, <1>6, <1>7, <1>8, <1>9 DEF Promise!Seat, Promise!Move
<1>11. P \in (SUBSET Requests) \ {{}}
  BY <1>3
<1> QED BY <1>10, <1>11 DEF Promise!Next

(***************************************************************************)
(* Every step of Booking's is one of Submission's.                         *)
(***************************************************************************)
LEMMA PromiseStep ==
    ASSUME OutOfTurnIsPaid, OnceInv, OnceInv', Next
    PROVE  Promise!Next
<1>1. TypeOK /\ TicketsFollowBooking /\ PlacesAre /\ PlacesAre'
  BY Placed, PlacedNext DEF OnceInv, SeatInv, RowInv
<1>2. Limits' \subseteq Limits \cup {event.limit}
  BY <1>1, LimitsStep
<1>3. CASE Crash \/ \E p \in Procs : Drop(p)
  BY <1>1, <1>2, <1>3, Forgetting
<1>4. CASE \E h \in Handlers : ClaimLock(h) \/ ClaimCommit(h)
  BY <1>1, <1>2, <1>4, BeginningClaim, EndingClaim
<1>5. CASE \E p \in Procs : PromoteDonation(p)
  BY <1>1, <1>2, <1>5, Promoting
<1>6. CASE \E e \in Settings : UpdateEvent(e)
  BY <1>2, <1>6, Resizing
<1>7. ASSUME ~Crash, \A p \in Procs : ~Drop(p),
             \A h \in Handlers : ~ClaimLock(h) /\ ~ClaimCommit(h)
      PROVE  Claims' = Claims
  BY <1>1, <1>7, ClaimsKept
<1>8. ASSUME NEW h \in Handlers, BookSeats(h) \/ BookWaitlist(h), Claims' = Claims
      PROVE  Promise!Next
  BY <1>1, <1>2, <1>8, Arriving
<1>9. ASSUME NEW r \in Requests, RemoveEntry(r) \/ SweepExpire(r), Claims' = Claims
      PROVE  Promise!Next
  <2>1. UNCHANGED <<event, booking, ticket>>
    BY <1>9 DEF RemoveEntry, SweepExpire, rows
  <2>2. \A s \in Requests \ {r} : entry'[s] = entry[s]
    BY <1>1, <1>9 DEF RemoveEntry, SweepExpire, TypeOK
  <2>3. \/ entry'[r] = entry[r]
        \/ Waits(r) /\ Waits(r)'
        \/ Waits(r) /\ entry'[r] = "removed"
    BY <1>1, <1>9 DEF RemoveEntry, SweepExpire, TypeOK, Waits
  <2> QED BY <1>1, <1>2, <1>9, <2>1, <2>2, <2>3, QueueMoving
<1>10. ASSUME NEW h \in Handlers, AdminPromote(h), Claims' = Claims
       PROVE  Promise!Next
  <2>1. PICK r : r = task[h].req
    OBVIOUS
  <2>2. r \in Requests
    <3>1. task[h] \in AdminTask
      BY <1>1, <1>10, HandlersAreProcs, TaskKinds DEF AdminPromote, Doing, TypeOK
    <3> QED BY <2>1, <3>1 DEF AdminTask
  <2>3. /\ entry' = [entry EXCEPT ![r] = IF @ = "waiting" THEN "promoted" ELSE @]
        /\ UNCHANGED <<event, booking, ticket>>
    BY <1>10, <2>1 DEF AdminPromote, rows
  <2>4. \A s \in Requests \ {r} : entry'[s] = entry[s]
    BY <1>1, <2>3 DEF TypeOK
  <2>5. entry'[r] = entry[r] \/ (Waits(r) /\ Waits(r)')
    BY <1>1, <2>2, <2>3 DEF TypeOK, Waits
  <2> QED BY <1>1, <1>2, <1>10, <2>2, <2>3, <2>4, <2>5, QueueMoving
<1>11. ASSUME NEW h \in Handlers, "admin" \in Ops, AdminFulfil(h)
       PROVE  FALSE
  <2>1. task[h] \in AdminTask
    BY <1>1, <1>11, HandlersAreProcs, TaskKinds DEF AdminFulfil, Doing, TypeOK
  <2> QED BY <1>11, <2>1 DEF AdminFulfil, AdminTask, OutOfTurnIsPaid
<1>12. CASE Gives
  <2>1. BookingsMove
    BY <1>1, BookingsStep
  <2> QED BY <1>1, <1>2, <1>12, <2>1, GivingBack
<1> QED BY <1>1, <1>3, <1>4, <1>5, <1>6, <1>7, <1>8, <1>9, <1>10, <1>11, <1>12, StepKinds

(***************************************************************************)
(* Booking implements Submission, with any number of submissions, seats,   *)
(* handlers and settings, unless an admin may fulfil rows of a donation    *)
(* event out of turn.                                                      *)
(***************************************************************************)
THEOREM PromiseIsKept ==
    ASSUME OutOfTurnIsPaid
    PROVE  Spec => KeepsPromise
<1>1. Init => Promise!Init
  <2> SUFFICES ASSUME Init PROVE Promise!Init
    OBVIOUS
  <2>1. \A r \in Requests : PlaceOf(r) = "outside"
    <3>1. \A r \in Requests : Made(r) = {}
      BY DEF Init, Made, Bookings
    <3> QED BY <3>1 DEF Init, PlaceOf, Waits, MadeOnce
  <2>2. SeatsTaken = 0
    <3>1. ActiveTickets = {}
      BY DEF Init, ActiveTickets, SeatHolding
    <3> QED BY <3>1, FS_EmptySet DEF SeatsTaken
  <2>3. Claims = {} /\ Limits = {}
    BY HandlersAreProcs DEF Init, Claims, Claiming, Doing, Limits, Looked, Idle
  <2>4. event.limit \in Int \cup {Unlimited}
    BY BookingAssumption DEF Init, EventRow
  <2> QED BY <2>1, <2>2, <2>3, <2>4 DEF Promise!Init, Place
<1>2. ASSUME OnceInv, OnceInv', [Next]_vars
      PROVE  [Promise!Next]_<<Place, SeatsTaken, Claims, event.limit, Limits>>
  <2>1. CASE Next
    BY <1>2, <2>1, PromiseStep
  <2>2. CASE UNCHANGED vars
    BY <2>2 DEF vars, rows, queue, Place, PlaceOf, MadeOnce, Made, Waits, Claimable,
                SeatsTaken, ActiveTickets, Claims, Claiming, Doing, Limits, Looked
  <2> QED BY <1>2, <2>1, <2>2
<1>3. OnceInv /\ OnceInv' /\ [Next]_vars
      => [Promise!Next]_<<Place, SeatsTaken, Claims, event.limit, Limits>>
  BY <1>2
<1>4. Spec => []OnceInv
  BY OnceInvariance
<1> QED BY <1>1, <1>3, <1>4, PTL DEF Spec, KeepsPromise, Promise!Spec
=============================================================================
