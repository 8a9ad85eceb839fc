-------------------------- MODULE BookingRefinement --------------------------
(***************************************************************************)
(* Booking implements Submission: bookings, waitlist rows and tickets give *)
(* every submission one place, and each commit moves it as promised.       *)
(***************************************************************************)
EXTENDS Booking

Made(r) == {b \in {r} \X (1..Copies) : booking[b].status # "none"}

Waits(r) == entry[r] \in {"waiting", "promoted", "expired"}

\* Some booking was made of r, it is the only one, and a fulfilled row names it.
MadeOnce(r, statuses) ==
    \E b \in Made(r) : /\ Made(r) = {b} /\ booking[b].status \in statuses
                       /\ entry[r] = "fulfilled" => fulfilledBy[r] = b

\* No rule of Submission's leads into "broken".  A row that expired while its
\* claim was under way stays expired beside the booking; it can claim no other.
PlaceOf(r) ==
    CASE Made(r) = {} /\ entry[r] = "none" -> "outside"
      [] Made(r) = {} /\ Waits(r) -> "queued"
      [] Made(r) = {} /\ entry[r] = "removed" -> "withdrawn"
      [] ~Claimable(r) /\ MadeOnce(r, {"booked", "paid"}) -> "seated"
      [] ~Claimable(r) /\ MadeOnce(r, {"canceled", "purged"}) -> "left"
      [] OTHER -> "broken"

Seats(R) == SeatCount(R, Need)

Looked(p) == task[p].op = "claim" \/ (task[p].op = "promote" /\ task[p].at = "read")

Place  == [r \in Requests |-> PlaceOf(r)]
Claims == {task[h].req : h \in {p \in Handlers : Claiming(p)}}
Limits == {task[p].ev.limit : p \in {q \in Procs : Looked(q)}}

Promise == INSTANCE Submission WITH
    SeatsOf <- Seats, place <- Place, taken <- SeatsTaken, claims <- Claims,
    limit <- event.limit, looked <- Limits

(***************************************************************************)
(* Whatever claims, promotions, removals, refunds, the sweeper, failures   *)
(* and crashes interleave, every submission goes the way Submission        *)
(* allows: in the queue or seated and never both, seated once, by a commit *)
(* that had the seats.                                                     *)
(***************************************************************************)
KeepsPromise == Promise!Spec
=============================================================================
