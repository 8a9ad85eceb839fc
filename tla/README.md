# A specification of kreise.berlin

kreise.berlin sells tickets for small events: a Go backend over PostgreSQL, a
Next.js frontend, one background sweeper, mails through SES and banners in an
object store. This directory holds TLA+ modules that model the backend's core,
TLC configurations that check them on small instances, and TLAPS proofs about
them. Paths below are relative to `src/`; `B/` stands for
`backend/internal/`.

What the system must get right is small and easy to get wrong: **an event has a
limited number of seats**, and they are taken, reserved, paid for, given back
and promised to waiting people by requests that run at the same time, by
goroutines that outlive their request and by a sweeper, all of them coordinated
only through PostgreSQL at READ COMMITTED.

## 1. Inventory

| Component | Source | State it keeps | Operations | Modelled in |
|---|---|---|---|---|
| Seat allocation | `B/waitlist/alloc.go` | none (pure) | `AllocateFIFO` | `Allocation`, `AllocateLoop` |
| Booking and capacity | `B/booking/booking.go`, `waitlist_branch.go`, `backend/sqlc/queries/bookings.sql`, `B/database/tx.go` | `bookings`, `tickets`, `events.participant_limit` | submit a booking: count under the event lock, insert or join the waitlist | `Booking` |
| Waitlist | `B/booking/waitlist_promote.go`, `waitlist_public.go`, `waitlist_admin.go`, `queries/waitlist.sql` | `waitlist_entries` (status, `created_at`, `claim_deadline`, `fulfilled_booking_id`) | promote after a cancel, claim link, self-removal, admin promote and remove | `Booking` |
| Reservation sweeper | `B/booking/sweeper.go` | none of its own | cancel lapsed reservations, expire promoted rows, promote | `Booking` |
| Payment administration | `B/booking/admin.go` | `bookings.status`, `payment_method`, `contact_email` | mark paid (one, many), refund, purge test bookings, rotate the waitlist, edit the contact, resend | `Booking`, `Checkout` (the contact); resend: no |
| Ticket page | `B/tickets/handlers.go` | `tickets.status`, `qr_token_nonce` | view, cancel, transfer | `CheckIn`, `Booking` (cancel) |
| Door | `B/booking/checkin.go`, `queries/tickets.sql` | `tickets.checked_in_at`, `checked_in_by`, `paid_amount_minor` | scan (ask for the amount, then check in), manual check-in, undo | `CheckIn`, `Booking` (the seat only) |
| Pricing and coupons | `B/pricing`, `B/booking/quote.go`, `B/events/pricing_handlers.go` | `price_phases`, `price_categories`, `price_durations`, `prices`, `donation_configs`, `coupons` and their filters, `coupon_redemptions` | quote, redeem, edit the price list, show it | `Pricing`, `Checkout` |
| Event administration | `B/events/handlers.go`, `team.go`, `program.go` | `events`, `event_admins`, `event_managers`, `program_entries` | create, edit, publish, unpublish, archive, assign and unassign, program | `Events`, `Booking` (the settings it depends on); program: no |
| Banner | `B/events/banner.go`, `B/objectstore` | `events.banner_ref`, objects | upload, stream | `Events` |
| Users and sessions | `B/users`, `B/auth` | `users`, `setup_tokens`, `password_reset_tokens`, `sessions` | invite, set up, log in and out, reset, change role, disable, impersonate | `Staff` |
| Authorization | `B/authz` | none | `Allow`, the route guards | `Events`, `Staff` |
| Rate limiter | `B/booking/rate_limit.go` | buckets per address | allow, collect | not modelled (section 8) |
| Tokens, CSRF, audit, mail rendering, configuration, commands | `B/tokens`, `B/csrf`, `B/audit`, `B/mail`, `backend/cmd` | none or append-only | | not modelled (section 8) |
| Frontend, chart, CI | `frontend`, `chart` | none between requests | | not modelled |

**How they interact.** Handlers run one goroutine per request. They share no
memory (but for the rate limiter): everything goes through rows. A transaction
is opened by `database.WithTx`, which commits or, on an error or a panic, rolls
back. Cancels of every kind (refund, holder cancel, the sweeper's) are followed
by `PromoteAfterCancel`: in a detached goroutine for the first two (for tickets
through the hook that `cmd/server/main.go` wires), inline for the sweeper. The
promotion of a paid event changes no row: it mails claim links, and the race is
decided when they are clicked. The one lock that matters is the event row's,
taken by `FOR UPDATE` (`CountActiveSeatsForEventLocking`,
`LockEventForCapacity`), by every update of the event, and against which every
insert of a booking or a ticket waits (its foreign key takes `FOR KEY SHARE`).
A booking with a coupon also locks the coupon's row (`RedeemCoupon`). Staff
requests pass the session middleware, then the guard of their route, then write;
they lock nothing.

**What is hard here.**

* *Snapshots older than locks.* At READ COMMITTED a statement sees what was
  committed when it started. A statement that both takes the lock and counts
  counts what it saw before it waited.
* *Reads before the transaction.* Limit, payment mode, the waitlist row and the
  ticket are read outside the transaction that acts on them.
* *Several promotions at once*, each over the whole queue.
* *Updates whose `WHERE` matches nothing* and that nobody asks about.
* *Goroutines in memory*: a restart loses a promotion or a mail.
* *Work lists*: the sweeper walks over rows it listed earlier.
* *Time*: reservations lapse and claim deadlines pass, but only a sweep acts on
  either.
* *Locks taken in two strengths*: a booking shares the coupon it names before it
  asks for it exclusively.
* *Two stores*: the banner's object and the row that names it are written one
  after the other.

**What makes each component correct.**

* Allocation: it returns exactly what the skip-if-it-does-not-fit rule asks
  for, conserves seats, and lets only smaller requests overtake.
* Booking and waitlist: no seat is given out twice; a request gets at most one
  booking; a fulfilled row names the booking made from it; a promotion is in
  turn and leaves nobody who fits; final states are final; no lock is leaked; a
  waiter is served after a cancel.
* Payment, tickets, door: tickets agree with their booking whatever the order
  of payments, refunds, cancels and scans.
* Sweeper: a lapsed reservation ends, a paid one does not.
* Door: time and amount of a check-in agree with the status; the first record
  stands; the holder cannot cancel what was let in; nobody gets in without an
  amount where one is due.
* Coupons: `max_uses` and `single_use_per_email` hold; a discount is the right
  one and counted; a frozen quote is honoured; everybody gets an answer.
* Accounts: somebody can manage; an old password opens no session; a session that
  is refused stays refused.
* Events: the creator can edit, an outsider cannot; a form undoes no lifecycle
  step; the banner in the row names an object that exists.

The hazards behind these properties are listed, each at its line, in
`PROJECT.json`.

## 2. Plan

In this order; all of these exist.

1. `Allocation`, `AllocateLoop`: the allocation as a rule, a function and a loop.
2. `Booking`: seats and waitlist of one event. It composes submission,
   promotion, claims, administration, payments and the sweeper over one
   database, and uses `Allocation` for the promotion.
3. `CheckIn`: desks, the holder's transfer and cancel, the organizer, over one
   booking's tickets.
4. `AllocationProofs`, `BookingProofs`, `BookingRowProofs`, `CheckInProofs`.
5. `Submission`: what a submission is promised; `BookingRefinement`: `Booking`
   implements it.
6. `Pricing`, `Checkout`: the price engine, and quotes, coupons, row locks and the
   organizer's price list around the booking transaction.
7. `Staff`: accounts, links, sessions, impersonation.
8. `Events`: authorization, events, banners, teams.

9. `AllocateLoopProofs`, `StaffProofs`, `EventsProofs`, `CheckoutProofs`, and in
   `BookingRowProofs` the step simulation of `KeepsPromise`.

To come: nothing is left to prove of what the runs check but liveness, which is
out of the prover's reach. Next are lemmas that make the arguments shorter, and
the parts listed in section 8.

## 3. The modules and how they correspond to the code

### `Allocation`, `AllocateLoop`

`Allocation` states the rule twice: `AllocateFIFO(remaining, queue, need)` is the
function of `alloc.go` over a queue (the loop's variable becomes the recursive
function `Left`), `IsAllocation(P, W, stamp, need, remaining)` says the same of
sets of waiters with arrival stamps: a waiter is picked exactly when its seats
fit into what the picked ones before it leave. `Booking` uses the second form:
it needs no induction over a queue in a proof, and a set of rows with
`created_at` is what the query returns. `AllocateLoop` is the Go loop with one
action per path through an iteration (`Skip`, `Promote`, `Return`); its run
shows that the three agree, and `AllocateLoopProofs` proves it.

### `Booking`

One event, its `bookings`, `tickets` and `waitlist_entries`, the processes that
work on them, and the sweeper.

| TLA+ | Code |
|---|---|
| `event` | the `events` row: `participant_limit`, `pricing_mode`, `test_mode`, `payment_at_door` |
| `booking`, `ticket` | status (and payment method) of the rows of `bookings`, `tickets`; `none` before the insert, `purged` after `HandlePurgeTestBookings` |
| `entry`, `fulfilledBy` | status and `fulfilled_booking_id` of the row a request made in `waitlist_entries` |
| `stamp`, `clock` | `created_at`, the order of the queue; fixed at BEGIN |
| `lapsed`, `overdue` | `reservation_expires_at`, `claim_deadline` in the past |
| `invited` | whose holder has a claim link |
| `lock` | a transaction holding the event row `FOR UPDATE` while other steps may come in between |
| `task` | per handler or goroutine: where it is, and everything it has read |
| `sweep` | the sweeper's loop and the rows it listed |

A *process* is a handler goroutine, a promotion goroutine that outlives its
request, or the sweeper. A **step** is what no other commit can come into: a
read outside a transaction is one, a transaction with a single statement that
matters is one, and a longer one is split where its statements could see
different data. That gives `HandleBooking` four steps (`BookRead`, `BookBegin`,
`BookCount`, and `BookSeats` or `BookWaitlist`): `created_at` is fixed at BEGIN,
the count at the *start* of the locking statement, and what follows needs the
event row. The claim has three (`ClaimRead`, `ClaimLock`, `ClaimCommit`); the
count and the second read of the row are statements of their own, begun after
the lock was granted, so they belong to `ClaimLock`. A promotion has two and a
mail (`PromoteRead`; `PromoteNobody`, `PromoteDonation` or `PromoteInvite`;
`SendMail`). Refund and holder cancel have a read and a write, then continue as
the promotion. The admin's promotion reads the row (`PickRow`), the event
(`PickEvent`) and acts on both (`AdminFulfil`, `AdminPromote`). The sweeper lists
(`SweepList`), cancels one listed booking per step (`SweepCancel`), promotes
inline (`SweepPromote`, `SweepPromoted`), and does the same for promoted rows
past their deadline (`SweepEntries`, `SweepExpire`); a failing statement skips a
row (`SweepSkip`). `Drop` is any process that fails or panics: `WithTx` rolls
back. `Crash` is the server stopping: every process is gone, rows stay.

Three operations of one statement are single steps whatever was read before,
because the statement repeats the condition: mark-paid, removal of a row,
check-in. `Lapse` and `DeadlinePasses` are time. `UpdateEvent` is the organizer.

Abstractions: names, mail addresses, prices, coupons, the claim token (whoever
was mailed a link has it), replies and logs are left out. `Ops` selects what the
environment of an instance does, so that each run is small enough to be
exhaustive; the proofs are for every `Ops`.

`MCBooking` gives the constants their values.

### `CheckIn`

The door in detail, which `Booking` reduces to "paid, checked in, paid again".
State: the booking's status, and per ticket its status, `checked_in_at`,
`paid_amount_minor` and nonce. `HandleScan` and `HandleScanManual` (phase 2) are
the same two statements with and without a code: `ScanRead` reads, checks the
nonce, refuses unpaid and canceled tickets and decides whether an amount is
needed (`collect`: the payment method is `at_door` or `donation`);
`CheckInTicket` is the update by id with its `COALESCE`s. `UndoRead` /
`UndoCheckInTicket`, `TransferRead` / `TransferTicket` and `CancelRead` /
`CancelTicketByID` are the other handlers, `MarkPaid` and
`CancelBookingAndTickets` the organizer (and the sweeper), `Abandon` a request
that ends in between. Nonces are random and unique in the code; here they are
numbered in the order of commits, so a token is its ticket and its number.
`undone` is a history variable.

### `Submission`, `BookingRefinement`

`Submission` is what a submission is promised, without a database: a place
(`outside`, `queued`, `seated`, `withdrawn`, `left`) and the number of seats
taken. Who is queued is seated once, alone or with others in one promotion, and
only within a limit that was the event's when it was looked up. It names three
promises the code does not make: who books directly may be one too many
(`overselling`), a lowered limit does not bind those who have read the old one,
and a claim that has begun seats even who withdraws before it ends.
`BookingRefinement` maps the bookings, the waitlist row and the tickets of a
request to its place (a row and a booking that contradict one another map to a
place no step leads to), the claims under way to `claims`, and the limits that
handlers carry to `looked`. A row that could be claimed although its request has
a booking contradicts it; one that is merely `expired` does not, since the code
leaves it so when the sweeper's expiry comes between a claim's second read and
its commit (section 7). `KeepsPromise` is `Promise!Spec`: initial states and
every step of `Booking` are ones of `Submission`.

### `Pricing`, `Checkout`

`Pricing` holds what is a function of rows: which phase is active, which price a
cell has, the discount, the coupon checks. There is no handler that edits a
phase, a category, a duration or a coupon, so their contents are constants
(`PhaseRow`, `CouponRow`) and the state says which of them exist.

| TLA+ | Code |
|---|---|
| `mode` | `events.pricing_mode`, which `HandleUpdate` may switch |
| `live`, `prices`, `donation`, `filters` | the rows of the price list, `donation_configs`, the coupon filters |
| `redeemed` | `coupon_redemptions` |
| `booking`, `entry` | contact, coupon, tickets' prices and discount of a booking; the frozen quote of a waitlist row |
| `task` | a handler's place, the time it took, what it has read, the coupon it holds |
| `lock`, `Shares`, `held` | the event row `FOR UPDATE`; rows held `FOR KEY SHARE` by foreign keys; the coupon `FOR UPDATE` |
| `promo` | `PromoteAfterCancel`: the waiting rows it holds `FOR UPDATE`, and those it serves |
| `dying`, `touched` | rows that a `DELETE` under way holds; waitlist rows that its `ON DELETE SET NULL` has updated |
| `view` | a pricing page between its queries, and the lists that a failed query left empty |

Every query of `pricing.Compute` is a step (`GetActivePhase`, `GetPrice` per
participant or `PriceDonation`, `GetCoupon`, `CheckUses`, `CheckFilters`), since
the organizer may edit between any two. The transaction is `Admit` (the count,
under the event lock if there is a limit) or `Join`, `Insert`, `LockCoupon`,
`Redeem`, `Commit`; `Abort` is the victim of a deadlock of two bookings.

A waitlist row with its frozen quote is served in one of three transactions, and
in each a refused redemption is ignored. `Claim` is the waiter's: it locks the
event, counts and reads the row. `ReadEntry`, `ReadEvent`, `LockEvent` are the
organizer's promotion of one row (a request of its own, `RowOf` says whose row):
it goes by the row as it was before the transaction, counts no seats, and on a
paid event only mails. `CallPromoter`, `StartPromotion`, `LockEntry` per waiting
row, `Allocate` and then `Turn`, `Insert`, `LockCoupon`, `Redeem` for one picked
row after the other are `PromoteAfterCancel`. All rows that it picked share one
transaction: `Mates(r)` are the requests in r's transaction, `Tx(r)` is its owner
in `lock`, `Redemptions(r)` what it sees of the redemptions, and `Fail` undoes
all of them, since the loop returns its first error through `WithTx`.

`SwitchMode` to `EditContact` are the organizer. A delete is two or more steps:
`DeleteCoupon` and its like wait for the locks on their row and hold it (`dying`:
whoever would name it waits); then `ForgetRow` ends the delete of a phase,
category or duration, while that of a coupon goes to one waiting row after the
other (`TouchEntry`, which waits for a promotion that holds the row) and ends with
`ForgetCoupon`; cascades are as the foreign keys say. `AbortPromotion` and
`AbortDelete` are the ends that PostgreSQL may choose for the circles this
makes. `OpenPage`, `ReadPage` and `MissPage` are a pricing page, whose handlers
drop the errors of the list queries.

`Seats` is only what the limit needs: which rows a promotion picks is any choice
that fits and leaves out none that would, the queue's order is `Booking`'s.
Left out are the order of row locks within one statement over bookings or
tickets (`ON DELETE SET NULL` there, the purge), the queue of those who wait for
one row, and the delay, without a circle, of an organizer's insert by the event
row's lock. The event row that a submission reads first is read with its first
pricing query. What the paid event's promotions do to rows is `Booking`'s.

### `Staff`

Users, sessions and links. A request is admitted in one step (the middleware
reads session and user in one query) and writes in a later one: `Login` and
`OpenSession`, `Impersonate` to `LeaveOwn`, `CheckRole` and `SetRole`, `Disable`
and `Bump`, `FollowLink` and `ResetPassword`. `Invalidate` and `Renew` are apart
because the update sees only links committed before it. `End` and `Lapse` are
logout and time. Users are addresses, since an address is unique and no row is
deleted. `unbumped` (disabled, sign-out not done) and `raced` (handlers overtaken
by a change of who is an admin) are history.

### `Events`

`Receive` reads the session's user, `Guard` is `HTTPGuard` with `Allow`, and the
handler's statements follow one by one. `LoadForm` and `SaveForm` are the edit
page and `HandleUpdate`; `ReadBanner`, `Put`, `SetBanner`, `SetBannerFails`,
`DeleteOld`, `DeleteNew` are an upload; `CheckTarget`, `Assign`, `Unassign` the
team; `ChangeAccount` is what `Staff` does to a user meanwhile. The contents of
the form are one value, `form`; the settings among them matter in `Booking`.
`unsure` (events whose banner was written although an error was reported),
`removed` (creators taken off a team or changed) and `overtaken` (requests that
lost a right after the middleware read it, whether before the guard by a change of
the account or after it by a change of the team) are history.

## 4. What the runs check

| Run | Instance | Properties | Shows |
|---|---|---|---|
| `allocate_loop` | every queue of up to 3 waiters, 0 to 3 seats each, -1 to 9 free | `TypeOK`, `SeatsConserved`, `ResultIsTheRule`, `OnlySmallerOvertake` | the loop returns what the rule asks for and nothing else does |
| `claims` | a pair and a single, 2 handlers and the sweeper, settings switched at any time (a donation for 1 seat, 2 paid seats, or no limit in test mode), failures, crashes, lost mails, purge | `TypeOK`, `LockIsReleased`, `LockedCountIsStable`, `KeepsPromise` | the claim race is decided under the lock, failures leave none behind, and every submission goes the way `Submission` allows |
| `donation` | donation event, 2 seats, two pairs and a single, holder cancels, admin promotions, removals | `WaitlistNeverOversells`, `PromotionIsFairAndFull` | parallel promotions never serve beyond the limit, out of turn, or too few |
| `payment` | paid event, 2 seats, a pair and a single, all of payments, claims, admin, sweeper with failures, holder cancels, door | `TicketsFollowBooking`, `OneBookingPerRequest`, `FulfilledNamesBooking`, `FinalStaysFinal` | the status conditions of the statements are enough, in every order |
| `liveness` | paid, donation or at-the-door event, 1 seat, 2 requests | `LapsedReservationEnds`, `PendingPromotionServes` | the sweeper gets round; a promotion once started serves |
| `check_in` | 1 ticket, 2 desks, 2 ticket pages, amounts 0 and 5, up to 3 check-ins and 2 transfers | `TypeOK`, `RecordMatchesStatus`, `HolderKeepsAdmission`, `AmountIsRecorded`, `RecordStands` | the conditions and `COALESCE`s of the updates make up for the reads before them |
| `coupons` | 8 plans: two submissions sharing a coupon (half price once; a guest list once per address) on an unlimited event; a booking and a claim of 2 seats; a claim, an organizer's promotion of the same row and a booking; promotions of one or two waiting rows against deletes, switches of the mode and a booking; the price list and a page alone; 2 or 3 edits | `TypeOK`, `UsesWithinLimit`, `OncePerEmail`, `DiscountIsCounted`, `LockOrder`, `DiscountIsFair`, `PageMissesOnlyNewRows`, `OnlyDeletesStopServing`, `EveryRequestIsAnswered` | the second count under the coupon's lock is what holds the limits; bookings deadlock each other only without a limit, promotions and deletes of coupons only with one, and both end |
| `staff` | 6 plans: two accounts, one signed in as admin, 3 to 5 requests of the kinds that interfere, 2 at once | `TypeOK`, `SessionProvesPassword`, `RevivedOnlyUnbumped`, `AdminsRunOutOnlyInARace` | password versions do their work across every overlap |
| `events` | 5 plans: two staff, no or one event, 3 or 4 requests of the kinds that interfere, 2 at once, 3 objects, a failing store | `TypeOK`, `BannerServable`, `CreatorManages`, `ReadableIsListed`, `FormSparesLifecycle`, `OutsidersChangeNothing` | unlocked requests harm nothing but what the exceptions in the properties name |
| `overselling`, `price_upsert`, `last_admin` | the smallest instances | `NoOverselling`, `OnePricePerCell`, `GlobalAdminRemains` | section 7 |

**Bounds and why they are enough.** Two handlers and the sweeper make three
concurrent processes; every race listed in `PROJECT.json` is between two of
them, and a task that has ended frees its handler for the next, so the number of
operations in a behaviour is not bounded by `Handlers`. Requests are two or
three: one seat then has a holder, and two waiters that race for it or overtake
one another; `claims` has two, since its switching settings and its failures
are the point. A pair among them makes "does not fit, skip" happen, and a second pair
makes it happen with one seat left (one ticket of a pair is given back: the
older pair is skipped, the single served). `Copies = 2`
lets a second booking of one request happen where the code would make it (and
`OneBookingPerRequest` says where it does not; in `donation` it does, see
section 7). `stamp` and `clock` are bounded by the number of requests, since a
request is submitted once; submitting again is another request. In `check_in`, tickets meet only in
`MarkPaid` and `CancelBookingAndTickets`, which treat all alike, so one is
enough; three check-ins allow a scan, an undo, and a scan with another one in
flight. `Checkout`, `Staff` and `Events` bound the requests or edits of a
behaviour (`plan.edits`, `left`) and group the operations into plans: a race between
operations of two plans would have to go through a row that only one of them
writes. A third request would repeat one of the two, for the counts compare a
number with a limit of one, and a version, a slug, a key or a role with another
one. In `coupons`, plans begin with rows that wait already, so that the race is over
serving them; `plan.until` lets one phase close and one coupon expire in the plans
where a quote is frozen or refused over it. Two waiting rows are what it takes for
one to undo the other, and one waiting row and its coupon for the circle of a
promotion and a delete. `SYMMETRY` is used
in runs without liveness only. Deadlock checking is off: when every
request has been dealt with and nobody cancels, the system rightly stops.

Each property is paired, in `PROJECT.json`, with a mutation of the model that is
a plausible bug of the code (a dropped status condition, a count not repeated
under the lock, a missing rollback, strict FIFO, an inverted short-circuit) and
that makes the same run fail. The mutated operators stand in the modules before
the operators they mutate, and are used by nothing.

## 5. Fairness

`FairSpec` assumes, per handler, strong fairness of the steps of a request that
has been accepted, and per process strong fairness of the promotion: Go runs
goroutines that can run, and PostgreSQL queues the waiters of a row lock, so a
transaction that waits for a lock that keeps coming free gets it. Strong
fairness stands for that queue: the lock is taken and freed by others in
between. Mails and the sweeper's loop (`time.Ticker` in `RunSweeper`) are weakly
fair. Nobody is assumed to submit, click, pay or cancel. Failures and crashes
are not part of the liveness runs: what a crash loses is lost (section 7).

`Checkout`'s `FairSpec` is of the same kind: the steps of a request, which wait
for rows, and those of a delete are strongly fair. A promotion is weakly fair:
until it has the event row it holds nothing that others want, and from then on
its steps are enabled until they are taken or the circle it is in is broken.
Nobody has to come, claim, promote or edit. `EveryRequestIsAnswered` needs
`Abort`, `AbortPromotion` and `AbortDelete`: PostgreSQL ends one of a circle
(external to this code). Connections that are lost are left aside, here and in
the safety properties: what such a transaction wrote is rolled back.
`Staff` and `Events` state safety only: nothing there waits for anything.

## 6. What is proved, and what is only checked

Every safety and action property that a passing run checks is a theorem, for any
values of the constants that the assumptions at the end of this section allow.

`AllocationProofs`:

* `AllocationFits`: the seats of those picked add up to no more than what was
  free. The argument: the picked waiter with the largest stamp was admitted
  because the others before it leave room for it.
* `AllocationUnique`: two sets that both satisfy the rule are equal, by looking
  at the earliest waiter on which they differ.
* `AllocationExists`: a queue without ties has an allocation. The set is built
  stamp by stamp; the least stamp up to which it could not be built leads to a
  contradiction.

`AllocateLoopProofs`, for queues of any length:

* `LoopInvariance`: after each iteration `remaining` is `Left(...)[next - 1]` and
  `out` are those who fitted so far; the loop ends at the end of the queue, or
  with nothing left.
* `LoopConservesSeats`, `NoLargerOvertakes`, `LoopIsTheRule`, `LoopTypeCorrect`:
  its consequences. The last but one needs that `Left` never grows and that the
  set the loop returns satisfies the rule; that no other does is
  `AllocationUnique`.

`BookingProofs`, for any requests, needs, handlers, settings and environment:

* `TypeCorrect`: `Spec => []TypeOK`.
* `SeatInvariance`: `SeatInv` is invariant. It is the inductive invariant:
  `TypeOK`; `LimitsSeen` (a claim holding the lock, or a promotion past its
  read, goes by an event that had a limit, without which "seats left" has no
  meaning); `StampOrder` (stamps are distinct, none lies ahead of the clock,
  each row has one: without it a promotion's order would not be an order);
  `LockIsReleased` and `LockedCountIsStable`. The last two need each other: a
  step that takes seats needs the lock free or held by itself, hence none can
  come between a claim's count and its commit.
* `LockAlwaysReleased`, `LockedCountAlwaysStable`: two of its parts.
* `NeverOversells`: the action property `WaitlistNeverOversells`. Only four
  actions take seats (`WhoTakesSeats`); for a claim the bound is
  `LockedCountIsStable`, for a promotion it is `AllocationFits`, whose
  hypothesis on stamps is `StampOrder`.

`BookingRowProofs`, on top of it:

* `TicketsAlwaysFollow`: `Spec => []TicketsFollowBooking`, inductive with
  `TypeOK`. Rows are created with the status of their booking, a cancel takes all
  tickets or nothing, and every other statement moves one ticket within the
  statuses its booking allows.
* `RowInvariance`: `RowInv` is invariant. Beside the row properties it needs
  `SubmittedOnce`: a submission under way is handled once and has no waitlist
  row yet, so making its row cannot overwrite one that is settled.
* `FulfilledAlwaysNames`, `FinalAlwaysFinal`: its consequences. Every step is
  shown to be one of a few moves of bookings (`BookingsMove`) and of waitlist rows
  (`EntriesMove`), none of which goes back.
* `OnceInvariance`, `OneBookingEach`: one booking per request. `SeatedOnce` is what
  is needed beside the above: who has a booking has no row that can be claimed,
  and no submission or claim under the lock is at work on them. All but six
  kinds of step make no booking and begin nothing that will (`WhoIsQuiet`).
  The theorem assumes `OutOfTurnIsPaid`: if admins may promote out of turn, no
  setting is a donation event. Without that it is false (section 7), and the
  `donation` run, which has both, does not ask for it.
* `PromotionsAreFairAndFull`: who is left waiting does not fit, and is overtaken by
  smaller requests only, whenever a promotion of a donation event commits and
  whatever fails or crashes around it (one that fails is rolled back and commits
  nothing). `SeatsGiven` says that bookings take exactly the seats asked for,
  `AllocationExists` that a promotion that found nobody had nobody who fits.
* `OversellingIsBounded`: parallel submissions may oversell (section 7), but it
  never adds up. With settings limited to `L` seats, and `B` seats asked for by as
  many submissions as are in flight at once, no more than `L + B` are ever taken.
  Inductive is `SeatsPromised`, which adds to the seats taken those of the
  submissions that counted, fit, and are still to be inserted: a booking takes what
  was promised to it (`PromisedSeatsTaken`), and a count, a claim or a promotion
  starts again from at most `L`. The bound is reached: with `B` in flight, a
  promotion may fill the event first. It assumes `OutOfTurnIsPaid`: an admin who
  fulfils a row of a donation event counts nothing.
* `PromiseIsKept`: `KeepsPromise`, step by step. `Placed` says that no state of the
  invariant maps to "broken" and gives each submission's place; `StepKinds` sorts
  the steps into those that give seats back or do nothing (`GivingBack`), and the
  ones that `Arriving`, `BeginningClaim`, `EndingClaim`, `Promoting`,
  `QueueMoving`, `Resizing` and `Forgetting` match with `Submission`'s. It assumes
  `OutOfTurnIsPaid`, as `OneBookingEach` does.

`CheckInProofs`, for any tickets, desks, ticket pages and amounts:

* `TypeCorrect`, and `DoorInvariance`: `DoorInv` is inductive. It adds to the
  properties what makes them so: `ScansAsk`, that a scan in flight has read
  either no check-in, and then carries an amount if one is due, or one, and then
  the ticket still has it unless somebody undid it; and `AmountIsThere`, which
  says the same of canceled tickets.
* `RecordAlwaysMatches`, `AdmissionAlwaysKept`, `AmountAlwaysRecorded`: its
  consequences; `RecordAlwaysStands`: the action property, action by action.

`CheckoutProofs`, for any price list, coupons and submissions:

* `Invariance`: `Inv` is inductive. Its parts are foreign keys and the index of the
  codes; `Sound`, what a handler knows of its coupon at each step; `Counted`, that
  the redemptions which a transaction sees, its own and those of the rows it serves
  with it included, keep within the limits, and that a redemption found to fit
  fits until the commit because of `CouponsHeldOnce`: whoever counts holds the
  coupon's row; `EventHeldOnce` and `PromotionHolds`, that transactions of a
  limited event exclude one another and a promotion serves rows that it holds and
  that wait; `DyingFree`, that nobody has a lock on a row that a delete holds; and
  `PageIsCurrent`. The ends of all transactions, commits and rollbacks, rest on
  one lemma (`TransactionEnds`).
* `LimitsHold`, `OneRedemptionEach`, `DirectDiscountsCount`,
  `PagesLackOnlyNewRows`, `TypeCorrect`: its consequences.
* `CirclesOfWaits`: any circle of waits, of whatever length, is one of two kinds. If
  a delete is in it, the delete of a coupon waits in it for a promotion
  (`DeletesWaitForPromotions`: the delete of any other row waits for nothing but
  the delete of a coupon). If not, it has two bookings that already deadlock each
  other (`CirclesArePairs`), and the event has no limit: on a limited one, bookings
  and promotions wait for each other only before they hold the event row
  (`LimitedWaits`), and who holds it waits for deletes alone.
* `DiscountsAreFair`: the rounding, for every price and percentage. That a subtotal is a
  number at all is an induction over the positions that `FoldSeq` takes.
* `ServingEndsByDeletes`: the action property `OnlyDeletesStopServing`. Of the steps
  that undo a transaction, the ones of a refused redemption and of a deadlock of
  bookings cannot be a late row's (`BookStops`), which leaves a missing row among
  those served together and the circle with a delete (`PromotionStops`).

`StaffProofs`, for any accounts, links, sessions and requests:

* `StaffInvariance`: `StaffInv` is inductive. Its core is `Credential`: whatever
  carries a version of a user, a session or a request that will open one, carries
  one the user has had; and if it is the present one, the user is active, and the
  password that was shown is the present one. Every step leaves a version as it is
  or makes a new one with what it changes (`AccountsGrow`).
* `TypeCorrect`, `SessionsProvePasswords`, `RefusedStaysRefused`: its consequences.
* `AdminInvariance`, `AdminsRunOutInRaces`: a request that is not overtaken still
  sees what its check of the admins saw (`Sees`), so its write leaves one.

`EventsProofs`, for any staff, events and requests:

* `TypeInvariance`, `TypeCorrect`; from them alone `ListsAreComplete` and
  `FormsSpareLifecycle`.
* `BannersAreServable` rests on `KeyInv`: no two events name one object, the key an
  upload is about to store is known to it alone, and what is about to be deleted
  is named by nobody (or by an event in `unsure`).
* `CreatorsManage`, `OutsidersDoNothing` rest on `RightsInv`: a request that is not
  overtaken has the account it was admitted with until its guard, and the right
  to read its event after it.

**Assumptions.** Each module names its own; TLC evaluates them in every run.

* `BookingAssumption`: finitely many requests, each for at least one participant
  (the handler refuses an empty list), the model values distinct. The door's and
  the loop's are of the same kind.
* `CheckoutAssumption`, `PricingAssumption`: amounts are not negative and a fixed
  discount is positive, as `00002_initial_schema.sql` checks
  (`amount_minor >= 0`) and the handlers validate (`pricing_handlers.go:168`,
  `:403`).
* `RowsAssumption` (`Checkout`, `Staff`), `NullAssumption` (`Events`): rows of
  different tables differ, and no row is `Null`.
* `PlansAssumption`: a behaviour begins with rows that earlier ones could leave.
  In `Checkout` these are the foreign keys and `UNIQUE (event_id, code)`, in
  `Staff` that a session with the user's present version was opened by somebody
  active with the present password, in `Events` that banners are stored, each
  under its own key, and creators manage what they created.

What the proofs found in the model: `OutsidersChangeNothing` was false beyond the
bounds of its run, since a request may be overtaken between the middleware and its
guard, too (`Loses`, and the plan `Latecomers` that now shows it); `KeepsPromise`
was false in the `payment` instance, which no run had asked it of (section 7, the
row that expires under its claim).

**What is model-checked only.** Liveness, which needs fairness and `ENABLED`:
`LapsedReservationEnds`, `PendingPromotionServes`, `EveryRequestIsAnswered`. And on
donation events with admins who promote out of turn, `KeepsPromise` and
`OneBookingPerRequest` are neither proved nor true. Induction over data (queues, sums)
is not in the library in a form these provers can use; where a theorem needed it,
it is done with a least counterexample (`Least`, `SumIsNat`).

## 7. Where the code differs from what it says

Three are runs that find a behaviour, with the comment it contradicts quoted in
`PROJECT.json`.

* `overselling`: `CountActiveSeatsForEventLocking` locks and counts in one
  statement. The count is as old as the statement, not as the lock: of two
  submissions for the last seat, the second waits, then goes by a count that
  misses the first.
* `price_upsert`: a price without a duration is never updated, a second one is
  inserted, and a quote takes either.
* `last_admin`: an invited account that was never set up counts as a global
  admin, so the only one who can log in may be demoted.

Others were met while modelling; the modules contain them and the properties are
stated so that they hold with them.

Waitlist and sweeper:

* A booking marked paid after the sweeper listed it is canceled
  (`sweeper.go:53`): `CancelBookingAndTickets` asks only whether it is canceled
  already, though `service.go:20` speaks of unpaid ones.
* An expired row passes the check of the admin's promotion
  (`waitlist_admin.go:108`), but the update matches only waiting rows: success is
  reported, a link is mailed and nothing happened.
* On a donation event the admin's promotion goes by a status read before the lock,
  and `MarkWaitlistFulfilled` matching no row goes unnoticed
  (`waitlist_admin.go:164`): two promotions of one row make two paid bookings.
  For the same reason a row removed between the second read of a claim and its
  commit still gets its booking.
* Neither the sweeper's `MarkWaitlistExpired` nor the admin's promotion takes the
  event lock. A waiting row that is promoted, passes its deadline and expires while
  its claim is past the second read stays `expired` beside the booking the claim
  makes (`waitlist.sql:56` matches nothing); it names no booking, and its status
  says that the holder got no seat.
* A request that counted a full event joins the waitlist after the promotion of
  the cancel that freed a seat (`booking.go:116`); nothing promotes it until the
  next cancel, though `docs/ROADMAP.md:685` says a cancellation triggers the
  right promotion.
* Claims and promotions go by the limit read before the lock
  (`waitlist_promote.go:43`): lowering it does not bind them.

Coupons and prices:

* Two bookings with one coupon on an event without a limit may wait for each
  other: each shares the coupon's row by its foreign key, then wants it
  exclusively. One is answered `internal_error`; nothing retries.
* Cancels and refunds never give a redemption back, so `max_uses` counts
  canceled bookings too.
* Correcting the contact of a booking between another's count and its commit lets
  one address redeem a single-use coupon twice (`OncePerEmail` names it).
* Deleting a phase or category empties the filter that named it: a coupon
  restricted to it applies to everything from then on.
* A frozen quote that names a deleted phase, category or duration can never be
  served, although `waitlist_branch.go:17` says it "freezes everything needed". On
  an event that was switched to donations, such a row undoes every
  promotion that picks it, with all the rows picked beside it, and each following
  promotion picks it again (`waitlist_promote.go:83-125`).
* `PromoteAfterCancel` has all waiting rows `FOR UPDATE` when it comes to the coupon
  that one of them names; the delete of that coupon has the coupon when it comes to
  those rows, to set their `coupon_id` to `NULL`. The two deadlock, on a limited
  event and without any booking. Either may be the victim: the delete is answered
  with an error, or the promotion is rolled back, logged, and not tried
  again until the next cancel (`LockOrder` and `OnlyDeletesStopServing` name it). A
  delete of a phase or category that the coupon is filtered by may stand between
  the two.
* The admin's promotion on a donation event goes by the row as it was before its
  transaction and counts no seats (`waitlist_admin.go:154`): a coupon deleted in
  between makes it fail over a foreign key.
* The pricing pages drop the errors of their list queries
  (`pricing_handlers.go:111`, `:117`, `:121`, `:127`, `public_handlers.go:129`,
  `:135`, `:139`): a page may show prices whose phases, categories or durations are
  missing, or no prices, and answers 200 (`PageMissesOnlyNewRows` names it).
* A coupon deleted and recreated under its code gets the redemptions of rows that
  were frozen with the first.

Staff and events:

* Deactivating a user is two statements and the second one's error is dropped:
  reactivation then brings the old sessions back (`RevivedOnlyUnbumped`).
* Two resends of an invitation at once leave two links that work, though
  `users.sql:83` says the previous one stops working; one link followed twice at
  once sets two passwords, the later one wins.
* Reactivating an account that was never set up makes it active. A password
  reset leaves other reset links good, and signs nobody in though its comment
  says so.
* `authz.go:38` says only an event_admin refunds; `rolePermissions` lets managers.
  An event_admin placed among an event's managers finds it listed but may not open
  it; team rows outlive a change of role.
* Two editors of one event overwrite each other's form. An upload whose update
  reports an error although it took effect deletes the object the row names, and
  overlapping uploads leave objects nobody names.

At the door: two scans of one ticket that both read
it before either updates it are both answered "ok" (`tickets.sql:60` expects the
caller to tell them apart); a code that was superseded by a transfer between a
scan's read and its update still admits; and a check-in whose scan read an older
one, undone meanwhile, records no amount.

## 8. What is not modelled, and why

* The rate limiter: a token bucket of `golang.org/x/time/rate` per address under
  one mutex. It changes no row, and a bucket that is collected after an unused
  hour would be full anyway.
* Signed tokens, CSRF, configuration, migrations: stateless or run once.
* The program of an event, the display name of the profile: single-row
  statements whose result nothing else reads.
* Audit and mail logs: append-only, and read by nothing in the program.
* Mail rendering, SES, S3, image handling: I/O. That a mail may be lost is
  modelled.
* `HandleResendConfirmation`, listings and exports: they change nothing.
* The frontend shows what the API answers. `B/db` is generated from
  `backend/sqlc/queries`, which is what the modules translate.
* Several replicas of the server: the chart runs one; the model's processes would
  not differ, but there would be a sweeper in each.
