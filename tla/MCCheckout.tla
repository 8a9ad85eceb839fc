----------------------------- MODULE MCCheckout -----------------------------
(***************************************************************************)
(* Instances of Checkout: submissions that share a coupon, waitlist rows    *)
(* and those that serve them, or the organizer's price list alone.         *)
(***************************************************************************)
EXTENDS Checkout

CONSTANTS r1, r2, r3, r4, a3, p1, p2, c1, c2, d1, half, three, guest, A, B, e1, e2

\* p1 is the early phase; from moment 1 on only p2 is open.
Phase == (p1 :> [from |-> 0, to |-> 1, ordering |-> 0]) @@
         (p2 :> [from |-> 0, to |-> 3, ordering |-> 1])

\* Half price once, in the early phase; three off once per address, until moment
\* 0; a guest list, once per address, under the code of the first.
Plain(code, type, value) ==
    [code |-> code, type |-> type, value |-> value, from |-> Null, to |-> Null,
     maxUses |-> Null, single |-> FALSE, phases |-> {}, categories |-> {}]
CouponTable ==
    (half  :> [Plain(A, "percental_reduce", 50) EXCEPT !.maxUses = 1, !.phases = {p1}]) @@
    (three :> [Plain(B, "fixed_reduce", 3) EXCEPT !.single = TRUE, !.to = 0]) @@
    (guest :> [Plain(A, "guestlist", Null) EXCEPT !.single = TRUE])

Sel(c, d, a) == [category |-> c, duration |-> d, amount |-> a]
Sends(email, code, selections) == [email |-> email, code |-> code, selections |-> selections]
Asks ==
    (r1 :> Sends(e1, A, <<Sel(c1, Null, Null), Sel(c1, Null, Null)>>)) @@
    (r2 :> Sends(e1, A, <<Sel(c1, Null, 1)>>)) @@
    (r3 :> Sends(e2, B, <<Sel(c1, d1, 2)>>)) @@
    (a3 :> Sends(e2, B, <<Sel(c1, d1, 2)>>)) @@
    (r4 :> Sends(e2, Null, <<Sel(c1, d1, Null)>>))

\* a3 is the organizer's promotion of r3's row.
Rowof == [r \in Requests |-> IF r = a3 THEN r3 ELSE r]

Price(p, c, d, a) == [id |-> 0, phase |-> p, category |-> c, duration |-> d, amount |-> a]

\* Rows that wait, priced in the early phase or for a donation.
Waits(items, coupon, off) ==
    [status |-> "waiting", coupon |-> coupon, items |-> items, discount |-> off,
     code |-> CouponTable[coupon].code]
InPhase == [phase |-> p1, category |-> c1, duration |-> Null, amount |-> 5]
Gift == [phase |-> Null, category |-> Null, duration |-> Null, amount |-> 2]

Plan(charge, limit, guests, rows, times, admin) ==
    [mode |-> charge, limit |-> limit, guests |-> guests,
     entry |-> [r \in Requests |-> IF r \in DOMAIN rows THEN rows[r] ELSE NoEntry],
     edits |-> times, until |-> 0, admin |-> admin, live |-> {p1, c1, d1, half, three},
     prices |-> {Price(p1, c1, Null, 5), Price(p1, c1, d1, 7)},
     donation |-> IF charge = "donation" THEN [suggested |-> 3, min |-> 1] ELSE Null]
Later(p) == [p EXCEPT !.until = 1]
Guestlist(p) == [p EXCEPT !.live = {p1, c1, guest}, !.prices = {Price(p1, c1, Null, 5)}]

\* Two direct bookings that share a coupon for one use, or for one per address.
Unlimiteds ==
    {Later(Plan("matrix", Unlimited, {r1, r2}, <<>>, 2, {"coupon", "delete"})),
     Guestlist(Plan("matrix", Unlimited, {r1, r2}, <<>>, 2, {"contact", "cancel", "price"}))}

\* The second does not fit and joins the waitlist, to be served by a claim.
Claims ==
    {Later(Plan("matrix", 2, {r1, r2}, <<>>, 2, {"coupon", "cancel", "delete"}))}

\* A claim, an organizer's promotion of the same row and a booking.
Rivals ==
    {Plan("donation", 1, {r4, a3}, r3 :> Waits(<<Gift>>, three, 2), 2,
          {"donation", "cancel", "coupon"})}

\* A promotion of two rows with one address and coupon, of one row against the
\* deletes of what it names, and of rows priced in different modes.
Promotions ==
    {Guestlist(Plan("donation", 3, {},
                    r1 :> Waits(<<Gift, Gift>>, guest, 4) @@ r2 :> Waits(<<Gift>>, guest, 2),
                    2, {"cancel", "coupon", "promote"})),
     Plan("donation", 1, {}, r2 :> Waits(<<InPhase>>, half, 3), 3,
          {"coupon", "delete", "mode", "promote"}),
     Plan("donation", 2, {r4},
          r2 :> Waits(<<InPhase>>, half, 3) @@ r3 :> Waits(<<Gift>>, three, 2),
          2, {"delete", "mode", "promote"})}

\* The organizer's price list alone.
Pages == {[Plan("matrix", Unlimited, {}, <<>>, 2, {"page", "create", "delete", "price"})
             EXCEPT !.live = {p1, c1, half, three}, !.prices = {Price(p1, c1, Null, 5)}]}

Everything == Unlimiteds \cup Claims \cup Rivals \cup Promotions \cup Pages
=============================================================================
