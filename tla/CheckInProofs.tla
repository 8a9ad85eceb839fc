---------------------------- MODULE CheckInProofs ----------------------------
(***************************************************************************)
(* Theorems about CheckIn for any tickets, desks, holders and amounts.     *)
(***************************************************************************)
EXTENDS CheckIn, TLAPS

(***************************************************************************)
(* What a process is doing tells what it has read.                         *)
(***************************************************************************)
LEMMA TaskKinds ==
    ASSUME NEW k \in Task
    PROVE  /\ k.op = "scan" => k \in ScanTask
           /\ k.op = "undo" => k \in UndoTask
           /\ k.op \in {"cancel", "transfer"} => k \in PageTask
  BY DEF Task, Idle, ScanTask, UndoTask, PageTask

(***************************************************************************)
(* Every action leaves the ticket alone or gives it a row of the table.    *)
(***************************************************************************)
LEMMA SetType ==
    ASSUME TypeOK, NEW t \in Tickets, NEW r \in TicketRow, Set(t, r)
    PROVE  ticket' \in [Tickets -> TicketRow]
  BY DEF TypeOK, Set, TicketRow

(***************************************************************************)
(* A process that moves on to a task of the code leaves the others alone.  *)
(***************************************************************************)
LEMMA GotoType ==
    ASSUME TypeOK, NEW p \in Procs, NEW k \in Task, Goto(p, k)
    PROVE  task' \in [Procs -> Task]
  BY DEF TypeOK, Goto

(***************************************************************************)
(* The door's statements keep the types.                                   *)
(***************************************************************************)
LEMMA DoorType ==
    ASSUME TypeOK, NEW d \in Desks
    PROVE  /\ \A t \in Tickets, code \in Codes, typed \in Amounts \cup {None} :
                ScanRead(d, t, code, typed) => TypeOK'
           /\ CheckInTicket(d) => TypeOK'
           /\ \A t \in Tickets : UndoRead(d, t) => TypeOK'
           /\ UndoCheckInTicket(d) => TypeOK'
<1>1. d \in Procs /\ Idle \in Task
  BY DEF Procs, Task
<1>2. ASSUME NEW t \in Tickets, NEW code \in Codes,
             NEW typed \in Amounts \cup {None}, ScanRead(d, t, code, typed)
      PROVE  TypeOK'
  <2> DEFINE k == [op |-> "scan", of |-> t, code |-> code,
                   prior |-> ticket[t].checkedAt,
                   amount |-> IF NeedsAmount(t) THEN typed ELSE None]
  <2>1. k \in Task
    BY DEF Task, ScanTask, TypeOK, TicketRow
  <2>2. task' \in [Procs -> Task]
    BY <1>1, <1>2, <2>1, GotoType DEF ScanRead
  <2> QED BY <1>2, <2>2 DEF ScanRead, TypeOK
<1>3. ASSUME CheckInTicket(d) PROVE TypeOK'
  <2> DEFINE t == task[d].of
             r == [ticket[t] EXCEPT !.status = "checked_in",
                      !.checkedAt = Coalesce(@, clock + 1),
                      !.paidAmount = Coalesce(@, task[d].amount)]
  <2>1. task[d] \in ScanTask
    BY <1>1, <1>3, TaskKinds DEF CheckInTicket, Doing, TypeOK
  <2>2. r \in TicketRow
    <3>1. ticket[t] \in TicketRow /\ task[d].amount \in Amounts \cup {None}
      BY <2>1 DEF TypeOK, ScanTask
    <3>2. /\ Coalesce(ticket[t].checkedAt, clock + 1) \in Nat \cup {None}
          /\ Coalesce(ticket[t].paidAmount, task[d].amount) \in Amounts \cup {None}
      BY <3>1 DEF TypeOK, TicketRow, Coalesce
    <3> HIDE DEF t
    <3> QED BY <3>1, <3>2 DEF TicketRow
  <2>3. /\ ticket' \in [Tickets -> TicketRow]
        /\ clock' \in Nat
    <3>1. CASE ticket[t].status \in {"paid", "checked_in"}
      BY <1>3, <2>1, <2>2, <3>1, SetType DEF CheckInTicket, ScanTask, TypeOK
    <3>2. CASE ticket[t].status \notin {"paid", "checked_in"}
      BY <1>3, <3>2 DEF CheckInTicket, TypeOK, TicketRow
    <3> QED BY <3>1, <3>2
  <2>4. task' \in [Procs -> Task]
    BY <1>1, <1>3, GotoType DEF CheckInTicket
  <2> QED BY <1>3, <2>3, <2>4 DEF CheckInTicket, TypeOK, TicketRow
<1>4. ASSUME NEW t \in Tickets, UndoRead(d, t) PROVE TypeOK'
  <2>1. [op |-> "undo", of |-> t] \in Task
    BY DEF Task, UndoTask
  <2>2. task' \in [Procs -> Task]
    BY <1>1, <1>4, <2>1, GotoType DEF UndoRead
  <2> QED BY <1>4, <2>2 DEF UndoRead, TypeOK
<1>5. ASSUME UndoCheckInTicket(d) PROVE TypeOK'
  <2> DEFINE t == task[d].of
             r == [ticket[t] EXCEPT !.status = "paid", !.checkedAt = None,
                                    !.paidAmount = None]
  <2>1. task[d] \in UndoTask
    BY <1>1, <1>5, TaskKinds DEF UndoCheckInTicket, Doing, TypeOK
  <2>2. t \in Tickets /\ r \in TicketRow
    <3>1. t \in Tickets /\ ticket[t] \in TicketRow
      BY <2>1 DEF TypeOK, UndoTask
    <3> HIDE DEF t
    <3> QED BY <3>1 DEF TicketRow
  <2>3. /\ ticket' \in [Tickets -> TicketRow]
        /\ undone' \subseteq Tickets
    <3>1. CASE ticket[t].status = "checked_in"
      BY <1>5, <2>2, <3>1, SetType DEF UndoCheckInTicket, TypeOK
    <3>2. CASE ticket[t].status # "checked_in"
      BY <1>5, <3>2 DEF UndoCheckInTicket, TypeOK, TicketRow
    <3> QED BY <3>1, <3>2
  <2>4. task' \in [Procs -> Task]
    BY <1>1, <1>5, GotoType DEF UndoCheckInTicket
  <2> QED BY <1>5, <2>3, <2>4 DEF UndoCheckInTicket, TypeOK, TicketRow
<1> QED BY <1>2, <1>3, <1>4, <1>5

(***************************************************************************)
(* The ticket page's statements keep the types.                            *)
(***************************************************************************)
LEMMA PageType ==
    ASSUME TypeOK, NEW h \in Holders
    PROVE  /\ \A t \in Tickets, code \in Nat :
                (TransferRead(h, t, code) \/ CancelRead(h, t, code)) => TypeOK'
           /\ TransferTicket(h) => TypeOK'
           /\ CancelTicketByID(h) => TypeOK'
<1>1. h \in Procs /\ Idle \in Task
  BY DEF Procs, Task
<1>2. ASSUME NEW t \in Tickets, NEW code \in Nat,
             TransferRead(h, t, code) \/ CancelRead(h, t, code)
      PROVE  TypeOK'
  <2>1. \A op \in {"transfer", "cancel"} : [op |-> op, of |-> t, code |-> code] \in Task
    BY DEF Task, PageTask
  <2>2. task' \in [Procs -> Task]
    BY <1>1, <1>2, <2>1, GotoType DEF TransferRead, CancelRead
  <2> QED BY <1>2, <2>2 DEF TransferRead, CancelRead, TypeOK
<1>3. ASSUME TransferTicket(h) PROVE TypeOK'
  <2>1. task[h] \in PageTask
    BY <1>1, <1>3, TaskKinds DEF TransferTicket, Doing, TypeOK
  <2>2. /\ task[h].of \in Tickets
        /\ [ticket[task[h].of] EXCEPT !.nonce = @ + 1] \in TicketRow
    BY <2>1 DEF TypeOK, TicketRow, PageTask
  <2>3. ticket' \in [Tickets -> TicketRow]
    BY <1>3, <2>2, SetType DEF TransferTicket
  <2>4. task' \in [Procs -> Task]
    BY <1>1, <1>3, GotoType DEF TransferTicket
  <2> QED BY <1>3, <2>3, <2>4 DEF TransferTicket, TypeOK, TicketRow
<1>4. ASSUME CancelTicketByID(h) PROVE TypeOK'
  <2>1. task[h] \in PageTask
    BY <1>1, <1>4, TaskKinds DEF CancelTicketByID, Doing, TypeOK
  <2>2. /\ task[h].of \in Tickets
        /\ [ticket[task[h].of] EXCEPT !.status = "canceled"] \in TicketRow
    BY <2>1 DEF TypeOK, TicketRow, PageTask
  <2>3. ticket' \in [Tickets -> TicketRow]
    BY <1>4, <2>2, SetType DEF CancelTicketByID, TypeOK, TicketRow
  <2>4. task' \in [Procs -> Task]
    BY <1>1, <1>4, GotoType DEF CancelTicketByID
  <2> QED BY <1>4, <2>3, <2>4 DEF CancelTicketByID, TypeOK, TicketRow
<1> QED BY <1>2, <1>3, <1>4

(***************************************************************************)
(* Every step keeps the types.                                             *)
(***************************************************************************)
LEMMA TypeStep == TypeOK /\ [Next]_vars => TypeOK'
<1> SUFFICES ASSUME TypeOK, [Next]_vars PROVE TypeOK'
  OBVIOUS
<1>1. {None} \cup 0..MaxTransfers \subseteq Codes /\ 0..MaxTransfers \subseteq Nat
  BY DEF Codes
<1>2. CASE MarkPaid
  <2>1. \A t \in Tickets : [ticket[t] EXCEPT !.status = "paid"] \in TicketRow
    BY DEF TypeOK, TicketRow
  <2> QED BY <1>2, <2>1 DEF MarkPaid, TypeOK
<1>3. CASE CancelBookingAndTickets
  <2>1. \A t \in Tickets : [ticket[t] EXCEPT !.status = "canceled"] \in TicketRow
    BY DEF TypeOK, TicketRow
  <2> QED BY <1>3, <2>1 DEF CancelBookingAndTickets, TypeOK
<1>4. ASSUME NEW p \in Procs, Abandon(p) PROVE TypeOK'
  BY <1>4, GotoType DEF Abandon, TypeOK, Task
<1>5. CASE UNCHANGED vars
  BY <1>5 DEF vars, TypeOK
<1> QED BY <1>1, <1>2, <1>3, <1>4, <1>5, DoorType, PageType DEF Next

(***************************************************************************)
(* Tickets, desks and ticket pages stay in the states the code has.        *)
(***************************************************************************)
THEOREM TypeCorrect == Spec => []TypeOK
<1>1. Init => TypeOK
  BY DEF Init, TypeOK, TicketRow, Task
<1> QED BY <1>1, TypeStep, PTL DEF Spec
-----------------------------------------------------------------------------
(* The record of a check-in.                                               *)

\* An amount is there from the first check-in on, canceled or not.
AmountIsThere ==
    \A t \in Tickets \ undone :
        (collect /\ ticket[t].checkedAt # None) => ticket[t].paidAmount # None

\* What a scan has read tells what the ticket must hold when it is updated.
ScansAsk ==
    \A p \in Procs : Doing(p, "scan") =>
        /\ task[p].amount # None => collect
        /\ (collect /\ task[p].prior = None) => task[p].amount # None
        /\ (task[p].prior # None /\ task[p].of \notin undone)
              => ticket[task[p].of].checkedAt # None

DoorInv == /\ TypeOK /\ RecordMatchesStatus /\ HolderKeepsAdmission
           /\ AmountIsThere /\ ScansAsk

(***************************************************************************)
(* A step that keeps the check-in times keeps what scans may rely on, if   *)
(* it starts none.                                                         *)
(***************************************************************************)
LEMMA ScansStillAsk ==
    ASSUME DoorInv, collect' = collect, undone \subseteq undone',
           \A p \in Procs : Doing(p, "scan")' => task'[p] = task[p],
           \A t \in Tickets \ undone' :
              ticket[t].checkedAt # None => ticket'[t].checkedAt # None
    PROVE  ScansAsk'
<1> SUFFICES ASSUME NEW p \in Procs, Doing(p, "scan")'
             PROVE  /\ task'[p].amount # None => collect'
                    /\ (collect' /\ task'[p].prior = None) => task'[p].amount # None
                    /\ (task'[p].prior # None /\ task'[p].of \notin undone')
                          => ticket'[task'[p].of].checkedAt # None
  BY DEF ScansAsk
<1>1. task'[p] = task[p] /\ Doing(p, "scan")
  BY DEF Doing
<1>2. task[p].of \in Tickets
  BY <1>1, TaskKinds DEF DoorInv, TypeOK, Doing, ScanTask
<1> QED BY <1>1, <1>2 DEF DoorInv, ScansAsk

(***************************************************************************)
(* A process that turns to something other than a scan starts none.        *)
(***************************************************************************)
LEMMA GotoNoScan ==
    ASSUME TypeOK, NEW p \in Procs, NEW k, k.op # "scan", Goto(p, k)
    PROVE  \A q \in Procs : Doing(q, "scan")' => task'[q] = task[q]
  BY DEF TypeOK, Goto, Doing

(***************************************************************************)
(* The scan: its read and its update.                                      *)
(***************************************************************************)
LEMMA ScanKeeps ==
    ASSUME DoorInv, TypeOK', NEW d \in Desks
    PROVE  /\ \A t \in Tickets : \A code, typed :
                ScanRead(d, t, code, typed) => DoorInv'
           /\ CheckInTicket(d) => DoorInv'
<1> USE DEF Procs
<1>1. ASSUME NEW t \in Tickets, NEW code, NEW typed, ScanRead(d, t, code, typed)
      PROVE  DoorInv'
  <2>1. RecordMatchesStatus' /\ HolderKeepsAdmission' /\ AmountIsThere'
    BY <1>1 DEF ScanRead, DoorInv, RecordMatchesStatus, HolderKeepsAdmission,
                AmountIsThere
  <2>2. ASSUME NEW p \in Procs, Doing(p, "scan")', p # d
        PROVE  /\ task'[p].amount # None => collect'
               /\ (collect' /\ task'[p].prior = None) => task'[p].amount # None
               /\ (task'[p].prior # None /\ task'[p].of \notin undone')
                     => ticket'[task'[p].of].checkedAt # None
    <3>1. task'[p] = task[p] /\ Doing(p, "scan")
      BY <1>1, <2>2 DEF ScanRead, Goto, Doing, DoorInv, TypeOK
    <3> QED BY <1>1, <3>1 DEF ScanRead, DoorInv, ScansAsk
  <2>3. /\ task'[d].amount # None => collect'
        /\ (collect' /\ task'[d].prior = None) => task'[d].amount # None
        /\ (task'[d].prior # None /\ task'[d].of \notin undone')
              => ticket'[task'[d].of].checkedAt # None
    <3>1. /\ task'[d].prior = ticket[t].checkedAt /\ task'[d].of = t
          /\ task'[d].amount = IF NeedsAmount(t) THEN typed ELSE None
      BY <1>1 DEF ScanRead, Goto, DoorInv, TypeOK
    <3> QED BY <1>1, <3>1 DEF ScanRead, NeedsAmount
  <2> QED BY <2>1, <2>2, <2>3 DEF DoorInv, ScansAsk
<1>2. ASSUME CheckInTicket(d) PROVE DoorInv'
  <2> DEFINE t == task[d].of
             k == task[d]
  <2>1. k \in ScanTask /\ t \in Tickets /\ Doing(d, "scan")
    BY <1>2, TaskKinds DEF CheckInTicket, Doing, DoorInv, TypeOK, ScanTask
  <2>2. \A q \in Procs : Doing(q, "scan")' => task'[q] = task[q]
    BY <1>2, GotoNoScan DEF CheckInTicket, Idle, DoorInv
  <2>3. CASE ticket[t].status \notin {"paid", "checked_in"}
    <3>1. UNCHANGED <<collect, booking, ticket, undone>>
      BY <1>2, <2>3 DEF CheckInTicket
    <3>2. RecordMatchesStatus' /\ HolderKeepsAdmission' /\ AmountIsThere'
      BY <3>1 DEF DoorInv, RecordMatchesStatus, HolderKeepsAdmission, AmountIsThere
    <3>3. ScansAsk'
      BY <2>2, <3>1, ScansStillAsk
    <3> QED BY <3>2, <3>3 DEF DoorInv
  <2>4. CASE ticket[t].status \in {"paid", "checked_in"}
    <3>1. UNCHANGED <<collect, booking, undone>>
      BY <1>2 DEF CheckInTicket
    <3>2. /\ \A u \in Tickets : u # t => ticket'[u] = ticket[u]
          /\ ticket'[t].status = "checked_in"
          /\ ticket'[t].checkedAt = Coalesce(ticket[t].checkedAt, clock + 1)
          /\ ticket'[t].paidAmount = Coalesce(ticket[t].paidAmount, k.amount)
      <4>1. ticket' = [ticket EXCEPT ![t] =
               [ticket[t] EXCEPT !.status = "checked_in",
                   !.checkedAt = Coalesce(@, clock + 1),
                   !.paidAmount = Coalesce(@, k.amount)]]
        BY <1>2, <2>4 DEF CheckInTicket, Set
      <4>2. ticket \in [Tickets -> TicketRow] /\ ticket[t] \in TicketRow
        BY <2>1 DEF DoorInv, TypeOK
      <4> HIDE DEF t, k
      <4> QED BY <2>1, <4>1, <4>2 DEF TicketRow
    <3>3. ticket'[t].checkedAt # None
      BY <3>2, CheckInAssumption DEF Coalesce, DoorInv, TypeOK
    <3>4. ticket'[t].paidAmount # None => collect
      BY <2>1, <2>4, <3>2 DEF Coalesce, DoorInv, RecordMatchesStatus, ScansAsk
    <3>5. (t \notin undone /\ collect) => ticket'[t].paidAmount # None
      BY <2>1, <3>2 DEF Coalesce, DoorInv, AmountIsThere, ScansAsk
    <3>6. RecordMatchesStatus'
      BY <3>1, <3>2, <3>3, <3>4 DEF DoorInv, RecordMatchesStatus
    <3>7. HolderKeepsAdmission'
      BY <3>1, <3>2 DEF DoorInv, HolderKeepsAdmission
    <3>8. AmountIsThere'
      BY <3>1, <3>2, <3>5 DEF DoorInv, AmountIsThere
    <3>9. ScansAsk'
      BY <2>2, <3>1, <3>2, <3>3, ScansStillAsk
    <3> QED BY <3>6, <3>7, <3>8, <3>9 DEF DoorInv
  <2> QED BY <2>3, <2>4
<1> QED BY <1>1, <1>2

(***************************************************************************)
(* The undo: its read and its update.                                      *)
(***************************************************************************)
LEMMA UndoKeeps ==
    ASSUME DoorInv, TypeOK', NEW d \in Desks
    PROVE  /\ \A t \in Tickets : UndoRead(d, t) => DoorInv'
           /\ UndoCheckInTicket(d) => DoorInv'
<1> USE DEF Procs
<1>1. ASSUME NEW t \in Tickets, UndoRead(d, t) PROVE DoorInv'
  <2>1. RecordMatchesStatus' /\ HolderKeepsAdmission' /\ AmountIsThere'
    BY <1>1 DEF UndoRead, DoorInv, RecordMatchesStatus, HolderKeepsAdmission,
                AmountIsThere
  <2>2. \A q \in Procs : Doing(q, "scan")' => task'[q] = task[q]
    BY <1>1, GotoNoScan DEF UndoRead, DoorInv
  <2>3. ScansAsk'
    BY <1>1, <2>2, ScansStillAsk DEF UndoRead
  <2> QED BY <2>1, <2>3 DEF DoorInv
<1>2. ASSUME UndoCheckInTicket(d) PROVE DoorInv'
  <2> DEFINE t == task[d].of
  <2>1. t \in Tickets
    BY <1>2, TaskKinds DEF UndoCheckInTicket, Doing, DoorInv, TypeOK, UndoTask
  <2>2. \A q \in Procs : Doing(q, "scan")' => task'[q] = task[q]
    BY <1>2, GotoNoScan DEF UndoCheckInTicket, Idle, DoorInv
  <2>3. /\ UNCHANGED <<collect, booking>>
        /\ undone \subseteq undone'
        /\ \A u \in Tickets : u \notin undone' => ticket'[u] = ticket[u]
        /\ \A u \in Tickets : \/ ticket'[u] = ticket[u]
                              \/ /\ ticket'[u].status = "paid"
                                 /\ ticket'[u].checkedAt = None
                                 /\ ticket'[u].paidAmount = None
    <3>1. CASE ticket[t].status = "checked_in"
      <4>1. /\ ticket' = [ticket EXCEPT ![t] =
                 [ticket[t] EXCEPT !.status = "paid", !.checkedAt = None,
                                   !.paidAmount = None]]
            /\ UNCHANGED <<collect, booking>> /\ undone' = undone \cup {t}
        BY <1>2, <3>1 DEF UndoCheckInTicket, Set
      <4>2. ticket \in [Tickets -> TicketRow] /\ ticket[t] \in TicketRow
        BY <2>1 DEF DoorInv, TypeOK
      <4> HIDE DEF t
      <4> QED BY <2>1, <4>1, <4>2 DEF TicketRow
    <3>2. CASE ticket[t].status # "checked_in"
      BY <1>2, <3>2 DEF UndoCheckInTicket
    <3> QED BY <3>1, <3>2
  <2>4. RecordMatchesStatus'
    BY <2>3 DEF DoorInv, RecordMatchesStatus
  <2>5. HolderKeepsAdmission'
    BY <2>3 DEF DoorInv, HolderKeepsAdmission
  <2>6. AmountIsThere'
    BY <2>3 DEF DoorInv, AmountIsThere
  <2>7. ScansAsk'
    BY <2>2, <2>3, ScansStillAsk
  <2> QED BY <2>4, <2>5, <2>6, <2>7 DEF DoorInv
<1> QED BY <1>1, <1>2

(***************************************************************************)
(* A step that leaves the records alone, moves tickets only to `canceled', *)
(* from any other status to `paid' only what was `booked', and cancels     *)
(* admitted ones only with the booking.                                    *)
(***************************************************************************)
LEMMA RecordKept ==
    ASSUME DoorInv, TypeOK', UNCHANGED <<collect, undone>>,
           \A p \in Procs : Doing(p, "scan")' => task'[p] = task[p],
           booking = "canceled" => booking' = "canceled",
           \A t \in Tickets :
              /\ ticket'[t].checkedAt = ticket[t].checkedAt
              /\ ticket'[t].paidAmount = ticket[t].paidAmount
              /\ \/ ticket'[t].status = ticket[t].status
                 \/ /\ ticket'[t].status = "canceled"
                    /\ ticket[t].status \in {"booked", "paid"} \/ booking' = "canceled"
                 \/ ticket'[t].status = "paid" /\ ticket[t].status = "booked"
    PROVE  DoorInv'
<1>1. RecordMatchesStatus'
  BY DEF DoorInv, RecordMatchesStatus
<1>2. HolderKeepsAdmission'
  BY DEF DoorInv, RecordMatchesStatus, HolderKeepsAdmission
<1>3. AmountIsThere'
  BY DEF DoorInv, AmountIsThere
<1>4. ScansAsk'
  BY ScansStillAsk
<1> QED BY <1>1, <1>2, <1>3, <1>4 DEF DoorInv

(***************************************************************************)
(* The ticket page, the organizer and failing requests.                    *)
(***************************************************************************)
LEMMA OthersKeep ==
    ASSUME DoorInv, TypeOK'
    PROVE  /\ \A h \in Holders :
                /\ \A t \in Tickets : \A code :
                     (TransferRead(h, t, code) \/ CancelRead(h, t, code)) => DoorInv'
                /\ TransferTicket(h) => DoorInv'
                /\ CancelTicketByID(h) => DoorInv'
           /\ MarkPaid \/ CancelBookingAndTickets => DoorInv'
           /\ \A p \in Procs : Abandon(p) => DoorInv'
<1> USE DEF Procs
<1>1. ASSUME NEW h \in Holders, NEW t \in Tickets, NEW code,
             TransferRead(h, t, code) \/ CancelRead(h, t, code)
      PROVE  DoorInv'
  <2>1. \A q \in Procs : Doing(q, "scan")' => task'[q] = task[q]
    BY <1>1, GotoNoScan DEF TransferRead, CancelRead, DoorInv
  <2> QED BY <1>1, <2>1, RecordKept DEF TransferRead, CancelRead
<1>2. ASSUME NEW h \in Holders, TransferTicket(h) PROVE DoorInv'
  <2>1. \A q \in Procs : Doing(q, "scan")' => task'[q] = task[q]
    BY <1>2, GotoNoScan DEF TransferTicket, Idle, DoorInv
  <2>2. task[h].of \in Tickets
    BY <1>2, TaskKinds DEF TransferTicket, Doing, DoorInv, TypeOK, PageTask
  <2>3. \A t \in Tickets : /\ ticket'[t].checkedAt = ticket[t].checkedAt
                           /\ ticket'[t].paidAmount = ticket[t].paidAmount
                           /\ ticket'[t].status = ticket[t].status
    BY <1>2, <2>2 DEF TransferTicket, Set, DoorInv, TypeOK, TicketRow
  <2> QED BY <1>2, <2>1, <2>3, RecordKept DEF TransferTicket
<1>3. ASSUME NEW h \in Holders, CancelTicketByID(h) PROVE DoorInv'
  <2>1. \A q \in Procs : Doing(q, "scan")' => task'[q] = task[q]
    BY <1>3, GotoNoScan DEF CancelTicketByID, Idle, DoorInv
  <2>2. task[h].of \in Tickets
    BY <1>3, TaskKinds DEF CancelTicketByID, Doing, DoorInv, TypeOK, PageTask
  <2>3. \A t \in Tickets :
          /\ ticket'[t].checkedAt = ticket[t].checkedAt
          /\ ticket'[t].paidAmount = ticket[t].paidAmount
          /\ \/ ticket'[t].status = ticket[t].status
             \/ ticket'[t].status = "canceled" /\ ticket[t].status \in {"booked", "paid"}
    BY <1>3, <2>2 DEF CancelTicketByID, Cancelable, Set, DoorInv, TypeOK, TicketRow
  <2> QED BY <1>3, <2>1, <2>3, RecordKept DEF CancelTicketByID
<1>4. CASE MarkPaid
  <2>1. \A t \in Tickets :
          /\ ticket'[t].checkedAt = ticket[t].checkedAt
          /\ ticket'[t].paidAmount = ticket[t].paidAmount
          /\ \/ ticket'[t].status = ticket[t].status
             \/ ticket'[t].status = "paid" /\ ticket[t].status = "booked"
    BY <1>4 DEF MarkPaid, DoorInv, TypeOK, TicketRow
  <2> QED BY <1>4, <2>1, RecordKept DEF MarkPaid
<1>5. CASE CancelBookingAndTickets
  <2>1. \A t \in Tickets : /\ ticket'[t].checkedAt = ticket[t].checkedAt
                           /\ ticket'[t].paidAmount = ticket[t].paidAmount
                           /\ ticket'[t].status = "canceled"
    BY <1>5 DEF CancelBookingAndTickets, DoorInv, TypeOK, TicketRow
  <2> QED BY <1>5, <2>1, RecordKept DEF CancelBookingAndTickets
<1>6. ASSUME NEW p \in Procs, Abandon(p) PROVE DoorInv'
  <2>1. \A q \in Procs : Doing(q, "scan")' => task'[q] = task[q]
    BY <1>6, GotoNoScan DEF Abandon, Idle, DoorInv
  <2> QED BY <1>6, <2>1, RecordKept DEF Abandon
<1> QED BY <1>1, <1>2, <1>3, <1>4, <1>5, <1>6

(***************************************************************************)
(* The inductive invariant of the door: records agree with the status, and *)
(* a scan in flight carries the amount the ticket will need.               *)
(***************************************************************************)
THEOREM DoorInvariance == Spec => []DoorInv
<1>1. Init => DoorInv
  <2> SUFFICES ASSUME Init PROVE DoorInv
    OBVIOUS
  <2>1. TypeOK
    BY DEF Init, TypeOK, TicketRow, Task
  <2>2. \A t \in Tickets : /\ ticket[t].checkedAt = None
                           /\ ticket[t].paidAmount = None
                           /\ ticket[t].status \in {"booked", "paid"}
    BY DEF Init
  <2>3. ScansAsk
    BY DEF Init, ScansAsk, Doing, Idle
  <2> QED BY <2>1, <2>2, <2>3 DEF DoorInv, RecordMatchesStatus,
             HolderKeepsAdmission, AmountIsThere
<1>2. DoorInv /\ [Next]_vars => DoorInv'
  <2> SUFFICES ASSUME DoorInv, [Next]_vars PROVE DoorInv'
    OBVIOUS
  <2>1. TypeOK'
    BY TypeStep DEF DoorInv
  <2>2. CASE UNCHANGED vars
    BY <2>1, <2>2, RecordKept DEF vars
  <2> QED BY <2>1, <2>2, ScanKeeps, UndoKeeps, OthersKeep DEF Next
<1> QED BY <1>1, <1>2, PTL DEF Spec

(***************************************************************************)
(* Status, check-in time and amount of a ticket always agree.              *)
(***************************************************************************)
THEOREM RecordAlwaysMatches == Spec => []RecordMatchesStatus
<1>1. DoorInv => RecordMatchesStatus
  BY DEF DoorInv
<1> QED BY <1>1, DoorInvariance, PTL

(***************************************************************************)
(* No holder cancels a ticket that was let in.                             *)
(***************************************************************************)
THEOREM AdmissionAlwaysKept == Spec => []HolderKeepsAdmission
<1>1. DoorInv => HolderKeepsAdmission
  BY DEF DoorInv
<1> QED BY <1>1, DoorInvariance, PTL

(***************************************************************************)
(* Without an undo, everyone the door lets in has an amount recorded where *)
(* it collects one.                                                        *)
(***************************************************************************)
THEOREM AmountAlwaysRecorded == Spec => []AmountIsRecorded
<1>1. DoorInv => AmountIsRecorded
  BY DEF DoorInv, AmountIsRecorded, AmountIsThere, RecordMatchesStatus
<1> QED BY <1>1, DoorInvariance, PTL

(***************************************************************************)
(* No scan overwrites the time or the amount of a check-in that stands.    *)
(***************************************************************************)
THEOREM RecordAlwaysStands == Spec => RecordStands
<1> DEFINE Stands ==
      \A t \in Tickets :
         (ticket[t].status = "checked_in" /\ ticket'[t].status = "checked_in") =>
            /\ ticket'[t].checkedAt = ticket[t].checkedAt
            /\ ticket[t].paidAmount # None =>
                  ticket'[t].paidAmount = ticket[t].paidAmount
<1>1. DoorInv /\ [Next]_vars => [Stands]_vars
  <2> SUFFICES ASSUME DoorInv, Next, NEW t \in Tickets,
                      ticket[t].status = "checked_in", ticket'[t].status = "checked_in"
               PROVE  /\ ticket'[t].checkedAt = ticket[t].checkedAt
                      /\ ticket[t].paidAmount # None =>
                            ticket'[t].paidAmount = ticket[t].paidAmount
    BY DEF vars
  <2>1. ticket[t].checkedAt # None /\ ticket[t] \in TicketRow
    BY DEF DoorInv, RecordMatchesStatus, TypeOK
  <2>2. ASSUME NEW d \in Desks, CheckInTicket(d)
        PROVE  /\ ticket'[t].checkedAt = ticket[t].checkedAt
               /\ ticket[t].paidAmount # None =>
                     ticket'[t].paidAmount = ticket[t].paidAmount
    <3>1. CASE /\ task[d].of = t
               /\ ticket' = [ticket EXCEPT ![t] =
                    [ticket[t] EXCEPT !.status = "checked_in",
                        !.checkedAt = Coalesce(@, clock + 1),
                        !.paidAmount = Coalesce(@, task[d].amount)]]
      <4>1. /\ ticket'[t].checkedAt = Coalesce(ticket[t].checkedAt, clock + 1)
            /\ ticket'[t].paidAmount = Coalesce(ticket[t].paidAmount, task[d].amount)
        BY <2>1, <3>1 DEF DoorInv, TypeOK, TicketRow
      <4> QED BY <2>1, <4>1 DEF Coalesce
    <3>2. CASE ticket'[t] = ticket[t]
      BY <3>2
    <3> QED BY <2>2, <3>1, <3>2 DEF CheckInTicket, Set, DoorInv, TypeOK
  <2>3. ASSUME NEW d \in Desks, UndoCheckInTicket(d)
        PROVE  ticket'[t] = ticket[t]
    <3>1. CASE /\ task[d].of = t
               /\ ticket' = [ticket EXCEPT ![t] =
                    [ticket[t] EXCEPT !.status = "paid", !.checkedAt = None,
                                      !.paidAmount = None]]
      <4>1. ticket'[t].status = "paid"
        BY <2>1, <3>1 DEF DoorInv, TypeOK, TicketRow
      <4> QED BY <4>1
    <3>2. CASE ticket'[t] = ticket[t]
      BY <3>2
    <3> QED BY <2>3, <3>1, <3>2 DEF UndoCheckInTicket, Set, DoorInv, TypeOK
  <2>4. ASSUME NEW h \in Holders, TransferTicket(h) \/ CancelTicketByID(h)
        PROVE  /\ ticket'[t].checkedAt = ticket[t].checkedAt
               /\ ticket'[t].paidAmount = ticket[t].paidAmount
    BY <2>1, <2>4 DEF TransferTicket, CancelTicketByID, Set, DoorInv, TypeOK, TicketRow
  <2>5. CASE MarkPaid \/ CancelBookingAndTickets
    BY <2>1, <2>5 DEF MarkPaid, CancelBookingAndTickets, TicketRow
  <2>6. CASE ticket' = ticket
    BY <2>6
  <2> QED BY <2>2, <2>3, <2>4, <2>5, <2>6
          DEF Next, ScanRead, UndoRead, TransferRead, CancelRead, Abandon
<1> QED BY <1>1, DoorInvariance, PTL DEF Spec, RecordStands
=============================================================================
