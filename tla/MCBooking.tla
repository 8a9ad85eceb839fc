----------------------------- MODULE MCBooking -----------------------------
(***************************************************************************)
(* Instances of Booking: two or three submissions, for one seat each or    *)
(* with a pair among them, on an event of one or two seats.                *)
(***************************************************************************)
EXTENDS BookingRefinement, TLC

CONSTANTS r1, r2, r3

Singles == [r \in Requests |-> 1]
OnePair == [r \in Requests |-> IF r = r1 THEN 2 ELSE 1]

Event(limit, donation) ==
    [limit |-> limit, donation |-> donation, test |-> FALSE, atDoor |-> FALSE]

TwoPairs == [r \in Requests |-> IF r = r2 THEN 1 ELSE 2]

PaidOne     == {Event(1, FALSE)}
PaidTwo     == {Event(2, FALSE)}
DonationTwo == {Event(2, TRUE)}
AnyPayment  == {Event(1, FALSE), Event(1, TRUE),
                [Event(1, FALSE) EXCEPT !.atDoor = TRUE]}

\* What an organizer switches between: the limit raised, lowered or lifted,
\* donations for prices, a rehearsal in test mode.
Switched == {Event(1, TRUE), Event(2, FALSE),
             [Event(Unlimited, FALSE) EXCEPT !.test = TRUE]}

\* The handlers are interchangeable; used by runs without temporal properties.
SomeHandler == Permutations(Handlers)
=============================================================================
