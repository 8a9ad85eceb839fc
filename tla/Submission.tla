----------------------------- MODULE Submission -----------------------------
(***************************************************************************)
(* What a submission is promised, without the database: it is seated at    *)
(* once or queued; one that is queued is seated once, when its seats are   *)
(* free, or withdrawn; nobody who left comes back.  Three promises are not *)
(* made.  That seats are free is promised to the queue only: who comes     *)
(* directly may be one too many.  A limit that is lowered does not bind    *)
(* those who looked it up before.  And a claim that has begun seats even   *)
(* who withdraws before it ends.                                           *)
(***************************************************************************)
EXTENDS Integers

CONSTANTS Requests, Unlimited, SeatsOf(_)

VARIABLES
    place,   \* where each submission is
    taken,   \* seats taken
    claims,  \* submissions of which a claim has begun
    limit,
    looked   \* the limits that those at work have looked up

Places == {"outside", "queued", "seated", "withdrawn", "left"}

\* Within a limit that was the event's when it was looked up.
Fits(n) == \E l \in looked : l # Unlimited => taken + n <= l

Move(R, from, to) ==
    /\ \A r \in R : place[r] = from
    /\ place' = [r \in Requests |-> IF r \in R THEN to ELSE place[r]]

Init ==
    /\ place = [r \in Requests |-> "outside"]
    /\ taken = 0
    /\ claims = {}
    /\ limit \in Int \cup {Unlimited}
    /\ looked = {}

\* HandleBooking: seats for all, or a place in the queue.
Arrive(r) ==
    /\ \/ Move({r}, "outside", "seated") /\ taken' = taken + SeatsOf({r})
       \/ Move({r}, "outside", "queued") /\ UNCHANGED taken
    /\ UNCHANGED <<claims, limit>>

\* The seats are there when the claim begins, and stay.
Claim(r) ==
    /\ place[r] = "queued" /\ Fits(SeatsOf({r}))
    /\ claims' = claims \cup {r}
    /\ UNCHANGED <<place, taken, limit>>

\* It fails.
Forget(R) == R \subseteq claims /\ claims' = claims \ R /\ UNCHANGED <<place, taken, limit>>

\* A claim, or a promotion of several: at once, and within the limit.
Seat(R) ==
    /\ \/ Move(R, "queued", "seated")
       \/ R \subseteq claims /\ Move(R, "withdrawn", "seated")
    /\ Fits(SeatsOf(R))
    /\ taken' = taken + SeatsOf(R)
    /\ claims' = claims \ R
    /\ UNCHANGED limit

Withdraw(r) == Move({r}, "queued", "withdrawn") /\ UNCHANGED <<taken, claims, limit>>

\* Seats are given back, by the holder, an admin or the sweeper.
GiveBack(R) ==
    /\ Move(R, "seated", "left") \/ UNCHANGED place
    /\ taken' < taken
    /\ UNCHANGED <<claims, limit>>

\* The last seats of the bookings went before the bookings did.
Leave(R) == Move(R, "seated", "left") /\ UNCHANGED <<taken, claims, limit>>

Resize == limit' # limit /\ UNCHANGED <<place, taken, claims>>

Look == UNCHANGED <<place, taken, claims, limit>>

Next ==
    /\ looked' \subseteq looked \cup {limit}
    /\ \/ Look \/ Resize
       \/ \E r \in Requests : Arrive(r) \/ Claim(r) \/ Withdraw(r)
       \/ \E R \in (SUBSET Requests) \ {{}} :
             Forget(R) \/ Seat(R) \/ GiveBack(R) \/ Leave(R)

Spec == Init /\ [][Next]_<<place, taken, claims, limit, looked>>
=============================================================================
