------------------------------- MODULE CheckIn -------------------------------
(***************************************************************************)
(* The tickets of one booking at the door (internal/booking/checkin.go)    *)
(* and on the holder's ticket page (internal/tickets/handlers.go).         *)
(*                                                                         *)
(* A scan is two statements without a transaction around them: it reads    *)
(* the ticket, decides whether an amount has to be collected, and updates  *)
(* it later, when another desk, the holder or the organizer may have       *)
(* changed it.  Undo, transfer and the holder's cancel are of the same     *)
(* kind.  QR and view tokens are signed over the ticket and its nonce;     *)
(* nonces are numbered in the order in which transfers commit.             *)
(***************************************************************************)
EXTENDS Naturals

CONSTANTS
    Tickets,      \* the tickets of the booking
    Desks,        \* bound: door staff's requests in flight
    Holders,      \* bound: ticket page requests in flight
    Amounts,      \* what door staff may type; 0 is also confirm_zero
    MaxTransfers, \* bound: transfers of one ticket
    MaxScans,     \* bound: check-ins over all tickets
    None          \* SQL NULL

ASSUME CheckInAssumption ==
    /\ Amounts \subseteq Nat /\ None \notin Nat
    /\ MaxTransfers \in Nat /\ MaxScans \in Nat

VARIABLES
    collect, \* payment_method is at_door or donation: the door takes the money
    booking, \* bookings.status
    ticket,  \* status, checked_in_at, paid_amount_minor, qr_nonce
    task,    \* what each desk and holder is doing and has read
    clock,   \* the last checked_in_at
    undone   \* history: tickets whose check-in was reversed once

vars == <<collect, booking, ticket, task, clock, undone>>

Procs == Desks \cup Holders

Idle == [op |-> "idle"]

\* The nonce of the token a request came with; the manual lookup has none.
Codes == Nat \cup {None}

ScanTask == [op: {"scan"}, of: Tickets, code: Codes,
             prior: Nat \cup {None}, amount: Amounts \cup {None}]
UndoTask == [op: {"undo"}, of: Tickets]
PageTask == [op: {"cancel", "transfer"}, of: Tickets, code: Nat]

Task == {Idle} \cup ScanTask \cup UndoTask \cup PageTask

TicketRow == [status: {"booked", "paid", "checked_in", "canceled"},
              checkedAt: Nat \cup {None},
              paidAmount: Amounts \cup {None},
              nonce: Nat]

TypeOK ==
    /\ collect \in BOOLEAN
    /\ booking \in {"booked", "paid", "canceled"}
    /\ ticket \in [Tickets -> TicketRow]
    /\ task \in [Procs -> Task]
    /\ clock \in Nat
    /\ undone \subseteq Tickets

\* A booking paid at the door or by donation is `paid' from the start.
Init ==
    /\ collect \in BOOLEAN
    /\ booking = IF collect THEN "paid" ELSE "booked"
    /\ ticket = [t \in Tickets |-> [status |-> booking, checkedAt |-> None,
                                    paidAmount |-> None, nonce |-> 0]]
    /\ task = [p \in Procs |-> Idle]
    /\ clock = 0
    /\ undone = {}

Free(p)      == task[p] = Idle
Doing(p, op) == task[p].op = op
Goto(p, t)   == task' = [task EXCEPT ![p] = t]
Set(t, r)    == ticket' = [ticket EXCEPT ![t] = r]
-----------------------------------------------------------------------------
(* The door.                                                               *)

\* Mutant: COALESCE(value, column), the later scan wins.
CoalesceLater(old, new) == IF new # None THEN new ELSE old

\* COALESCE(column, value)
Coalesce(old, new) == IF old # None THEN old ELSE new

NeedsAmount(t) == collect /\ ticket[t].checkedAt = None

\* Mutant: the check-in goes ahead when no amount was given.
ScanReadUnasked(d, t, code, typed) ==
    /\ Free(d)
    /\ code \in {None, ticket[t].nonce}
    /\ ticket[t].status \in {"paid", "checked_in"}
    /\ Goto(d, [op |-> "scan", of |-> t, code |-> code,
                prior |-> ticket[t].checkedAt,
                amount |-> IF NeedsAmount(t) THEN typed ELSE None])
    /\ UNCHANGED <<collect, booking, ticket, clock, undone>>

\* HandleScan, and HandleScanManual with a ticket_id, up to the update.  A code
\* is checked against the nonce; the manual lookup has none to check.  With
\* no amount where one is needed the reply asks for it and nothing happens.
ScanRead(d, t, code, typed) ==
    /\ Free(d)
    /\ code \in {None, ticket[t].nonce}
    /\ ticket[t].status \in {"paid", "checked_in"}
    /\ NeedsAmount(t) => typed # None
    /\ Goto(d, [op |-> "scan", of |-> t, code |-> code,
                prior |-> ticket[t].checkedAt,
                amount |-> IF NeedsAmount(t) THEN typed ELSE None])
    /\ UNCHANGED <<collect, booking, ticket, clock, undone>>

\* CheckInTicket: by id, WHERE status IN ('paid', 'checked_in').
CheckInTicket(d) ==
    /\ Doing(d, "scan") /\ clock < MaxScans
    /\ LET t == task[d].of
           r == ticket[t]
       IN  IF r.status \in {"paid", "checked_in"}
           THEN /\ clock' = clock + 1
                /\ Set(t, [r EXCEPT !.status = "checked_in",
                                    !.checkedAt = Coalesce(@, clock + 1),
                                    !.paidAmount = Coalesce(@, task[d].amount)])
           ELSE UNCHANGED <<clock, ticket>>
    /\ Goto(d, Idle)
    /\ UNCHANGED <<collect, booking, undone>>

\* HandleUndoCheckIn: a ticket that is not checked in is reported as undone.
UndoRead(d, t) ==
    /\ Free(d)
    /\ ticket[t].status = "checked_in"
    /\ Goto(d, [op |-> "undo", of |-> t])
    /\ UNCHANGED <<collect, booking, ticket, clock, undone>>

\* Mutant: the amount of the reversed check-in stays.
UndoKeepsAmount(d) ==
    /\ Doing(d, "undo")
    /\ LET t == task[d].of
           r == ticket[t]
       IN  IF r.status = "checked_in"
           THEN /\ Set(t, [r EXCEPT !.status = "paid", !.checkedAt = None])
                /\ undone' = undone \cup {t}
           ELSE UNCHANGED <<ticket, undone>>
    /\ Goto(d, Idle)
    /\ UNCHANGED <<collect, booking, clock>>

\* UndoCheckInTicket: WHERE status = 'checked_in'.
UndoCheckInTicket(d) ==
    /\ Doing(d, "undo")
    /\ LET t == task[d].of
           r == ticket[t]
       IN  IF r.status = "checked_in"
           THEN /\ Set(t, [r EXCEPT !.status = "paid", !.checkedAt = None,
                                    !.paidAmount = None])
                /\ undone' = undone \cup {t}
           ELSE UNCHANGED <<ticket, undone>>
    /\ Goto(d, Idle)
    /\ UNCHANGED <<collect, booking, clock>>
-----------------------------------------------------------------------------
(* The ticket page.                                                        *)

Transferable(t) == ticket[t].status \in {"booked", "paid"}

TransferRead(h, t, code) ==
    /\ Free(h)
    /\ code = ticket[t].nonce
    /\ Transferable(t)
    /\ Goto(h, [op |-> "transfer", of |-> t, code |-> code])
    /\ UNCHANGED <<collect, booking, ticket, clock, undone>>

\* TransferTicket: by id, whatever the status or the nonce is by now.
TransferTicket(h) ==
    /\ Doing(h, "transfer") /\ ticket[task[h].of].nonce < MaxTransfers
    /\ LET t == task[h].of
       IN  Set(t, [ticket[t] EXCEPT !.nonce = @ + 1])
    /\ Goto(h, Idle)
    /\ UNCHANGED <<collect, booking, clock, undone>>

Cancelable(t) == ticket[t].status \in {"booked", "paid"}

CancelRead(h, t, code) ==
    /\ Free(h)
    /\ code = ticket[t].nonce
    /\ Cancelable(t)
    /\ Goto(h, [op |-> "cancel", of |-> t, code |-> code])
    /\ UNCHANGED <<collect, booking, ticket, clock, undone>>

\* Mutant: CancelTicketByID without its status condition.
CancelAnyway(h) ==
    /\ Doing(h, "cancel")
    /\ Set(task[h].of, [ticket[task[h].of] EXCEPT !.status = "canceled"])
    /\ Goto(h, Idle)
    /\ UNCHANGED <<collect, booking, clock, undone>>

\* CancelTicketByID: WHERE status IN ('booked', 'paid').
CancelTicketByID(h) ==
    /\ Doing(h, "cancel")
    /\ LET t == task[h].of
       IN  IF Cancelable(t) THEN Set(t, [ticket[t] EXCEPT !.status = "canceled"])
                            ELSE UNCHANGED ticket
    /\ Goto(h, Idle)
    /\ UNCHANGED <<collect, booking, clock, undone>>
-----------------------------------------------------------------------------
(* The organizer, and requests that fail.                                  *)

\* Mutant: the tickets get the status of a booking that is confirmed.
MarkConfirmed ==
    /\ booking = "booked"
    /\ booking' = "paid"
    /\ ticket' = [t \in Tickets |->
                    IF ticket[t].status = "booked"
                    THEN [ticket[t] EXCEPT !.status = "confirmed"] ELSE ticket[t]]
    /\ UNCHANGED <<collect, task, clock, undone>>

MarkPaid ==
    /\ booking = "booked"
    /\ booking' = "paid"
    /\ ticket' = [t \in Tickets |->
                    IF ticket[t].status = "booked"
                    THEN [ticket[t] EXCEPT !.status = "paid"] ELSE ticket[t]]
    /\ UNCHANGED <<collect, task, clock, undone>>

\* CancelBookingAndTickets: checked-in tickets too, which keep their record.
CancelBookingAndTickets ==
    /\ booking # "canceled"
    /\ booking' = "canceled"
    /\ ticket' = [t \in Tickets |-> [ticket[t] EXCEPT !.status = "canceled"]]
    /\ UNCHANGED <<collect, task, clock, undone>>

\* A request ends between its statements: the connection or the server is gone.
Abandon(p) ==
    /\ ~Free(p)
    /\ Goto(p, Idle)
    /\ UNCHANGED <<collect, booking, ticket, clock, undone>>

Next ==
    \/ \E d \in Desks :
         \/ \E t \in Tickets, code \in {None} \cup 0..MaxTransfers,
               typed \in Amounts \cup {None} : ScanRead(d, t, code, typed)
         \/ CheckInTicket(d)
         \/ \E t \in Tickets : UndoRead(d, t)
         \/ UndoCheckInTicket(d)
    \/ \E h \in Holders :
         \/ \E t \in Tickets, code \in 0..MaxTransfers :
               TransferRead(h, t, code) \/ CancelRead(h, t, code)
         \/ TransferTicket(h) \/ CancelTicketByID(h)
    \/ MarkPaid \/ CancelBookingAndTickets
    \/ \E p \in Procs : Abandon(p)

Spec == Init /\ [][Next]_vars
-----------------------------------------------------------------------------
(***************************************************************************)
(* "The recorded amount stands until someone undoes the check-in"          *)
(* (HandleScan): desks that scan a ticket at the same time do not overwrite *)
(* each other's time or amount.                                            *)
(***************************************************************************)
RecordStands ==
    [][\A t \in Tickets :
         (ticket[t].status = "checked_in" /\ ticket'[t].status = "checked_in") =>
            /\ ticket'[t].checkedAt = ticket[t].checkedAt
            /\ ticket[t].paidAmount # None =>
                  ticket'[t].paidAmount = ticket[t].paidAmount]_vars

(***************************************************************************)
(* What the scanner's live log and the revenue go by agrees with the       *)
(* status: a ticket that is not canceled has a check-in time exactly while *)
(* it is checked in, and an amount only then and where the door collects.  *)
(***************************************************************************)
RecordMatchesStatus ==
    \A t \in Tickets : ticket[t].status # "canceled" =>
        /\ ticket[t].status = "checked_in" <=> ticket[t].checkedAt # None
        /\ ticket[t].paidAmount # None => collect /\ ticket[t].checkedAt # None

(***************************************************************************)
(* "CHECKED_IN tickets cannot be canceled by the holder" (tickets.sql):    *)
(* whoever was let in keeps the ticket, unless the whole booking is        *)
(* canceled, though the holder's status check is older than the scan.      *)
(***************************************************************************)
HolderKeepsAdmission ==
    \A t \in Tickets :
        (ticket[t].status = "canceled" /\ ticket[t].checkedAt # None)
            => booking = "canceled"

(***************************************************************************)
(* Where the door takes the money nobody is let in without an amount being *)
(* recorded, as long as no check-in of the ticket is undone: an undo       *)
(* between a second scan's read and its update lets that scan check in     *)
(* without one.                                                            *)
(***************************************************************************)
AmountIsRecorded ==
    \A t \in Tickets \ undone :
        (collect /\ ticket[t].status = "checked_in") => ticket[t].paidAmount # None
=============================================================================
