------------------------------ MODULE Checkout ------------------------------
(***************************************************************************)
(* Quotes, coupons and the price list of one event: HandleQuote,           *)
(* HandleBooking from its quote to its commit, the waitlist row that       *)
(* freezes a quote and the transactions that later serve it (a claim, an   *)
(* organizer's promotion of one row, PromoteAfterCancel with all the rows  *)
(* it picks), the pricing handlers of the organizer (internal/pricing,     *)
(* internal/booking, internal/events).                                     *)
(*                                                                         *)
(* A quote is computed by plain queries, one after the other, and used in  *)
(* a transaction that begins later: every query is a step, and the         *)
(* organizer edits between any two.  Row locks are those PostgreSQL takes: *)
(* a booking, its tickets and a waitlist row hold FOR KEY SHARE on the     *)
(* coupon, phases, categories and durations they name until the commit     *)
(* (Shares); RedeemCoupon takes the coupon FOR UPDATE (held); a limited    *)
(* event is locked FOR UPDATE from the seat count to the commit (lock);    *)
(* PromoteAfterCancel holds every waiting row FOR UPDATE (promo.rows); a   *)
(* DELETE holds its row (dying) while it goes on to the rows that refer to *)
(* it (touched).  Writes become visible at the commit.  Seats, tickets and *)
(* the waitlist's order are Booking's; a waitlist row here is claimed, and *)
(* a promotion started, at any moment.                                     *)
(***************************************************************************)
EXTENDS Pricing, FiniteSets

CONSTANTS
    Requests,    \* submissions, and organizers' promotions of one waitlist row
    RowOf,       \* the submission whose waitlist row a request serves
    Promoter,    \* PromoteAfterCancel, where it is named as the owner of a lock
    Ask,         \* what each one sends: email, code, selections
    Emails,      \* addresses, for the organizer's correction of a contact
    Unlimited,   \* participant_limit IS NULL
    Amounts,     \* amounts an organizer sets
    Plans        \* initial price lists, who comes, what the organizer does and,
                 \* bounds, how often and until when

Rows == Phases \cup Categories \cup Durations \cup Coupons

\* A ticket's price, and a waitlist row.
Item == [phase : Phases \cup {Null}, category : Categories \cup {Null},
         duration : Durations \cup {Null}, amount : Nat]
Row  == [status : {"waiting", "fulfilled"}, coupon : Coupons \cup {Null}, items : Seq(Item),
         discount : Nat, code : {Null} \cup {CouponRow[c].code : c \in Coupons}]
NoEntry == [status |-> "none", coupon |-> Null, items |-> <<>>, discount |-> 0, code |-> Null]

ASSUME CheckoutAssumption ==
    /\ IsFiniteSet(Requests) /\ Null \notin Requests
    /\ RowOf \in [Requests -> Requests]
    /\ \A r \in Requests : RowOf[RowOf[r]] = RowOf[r] /\ Ask[r] = Ask[RowOf[r]]
    /\ \A r \in Requests :
          /\ Ask[r].selections # <<>>
          /\ Ask[r].selections \in Seq([category : Categories, duration : Durations \cup {Null},
                                        amount : Nat \cup {Null}])
    /\ Amounts \subseteq Nat

\* A coupon is no row of another table, and rows and requests have names of
\* their own.
ASSUME RowsAssumption ==
    /\ Coupons \cap (Phases \cup Categories \cup Durations) = {}
    /\ Requests \cap Rows = {}
    /\ Promoter \notin Requests \cup Rows \cup {Null}

\* An initial price list keeps the foreign keys and UNIQUE (event_id, code); a
\* waitlist row, of an event with a limit, names a coupon that is there and
\* whatever was priced when it joined.
ASSUME PlansAssumption ==
    \A p \in Plans :
      /\ p.live \subseteq Rows /\ p.mode \in {"matrix", "donation"}
      /\ \A c, d \in p.live \cap Coupons : CouponRow[c].code = CouponRow[d].code => c = d
      /\ \A c \in p.live \cap Coupons :
            CouponRow[c].phases \cup CouponRow[c].categories \subseteq p.live
      /\ p.prices \subseteq [id : Nat, phase : p.live \cap Phases,
                             category : p.live \cap Categories,
                             duration : (p.live \cap Durations) \cup {Null}, amount : Nat]
      /\ p.donation \in [suggested : Nat, min : Nat] \cup {Null}
      /\ p.entry \in [Requests -> {NoEntry} \cup Row]
      /\ \A r \in Requests : p.entry[r].coupon \in p.live \cup {Null}
      /\ \A r \in Requests : p.entry[r].status = "waiting" =>
            /\ p.limit # Unlimited /\ RowOf[r] = r
            /\ Len(p.entry[r].items) = Len(Ask[r].selections)
            /\ p.entry[r].coupon # Null => p.entry[r].code = CouponRow[p.entry[r].coupon].code

VARIABLES
    plan,        \* the plan of this behaviour
    now,
    mode,        \* events.pricing_mode
    live,        \* rows of the four tables that exist
    born,        \* rows that were ever inserted
    prices, donation,
    filters,     \* coupon_phase_filters and coupon_category_filters
    redeemed,    \* coupon_redemptions: coupon and booking
    booking, entry,  \* `corrected': history, the contact was edited
    task,        \* the handler of each submission
    lock,        \* who holds the event row
    promo,       \* PromoteAfterCancel: the waiting rows it holds, those it serves
    dying,       \* rows that a DELETE holds which has not committed
    touched,     \* waitlist rows that the DELETE of their coupon has reached
    edits,
    view         \* a pricing page being read: rows, tables whose query failed,
                 \* prices, rows born before

config == <<mode, live, born, prices, donation, filters>>
locks  == <<lock, promo, dying, touched>>
vars == <<plan, now, config, redeemed, booking, entry, task, locks, edits, view>>

Idle      == [pc |-> "new", when |-> 0, phase |-> Null, items |-> <<>>,
              coupon |-> Null, discount |-> 0, held |-> Null,
              redeems |-> FALSE, late |-> FALSE]
NoBooking == [status |-> "none", email |-> Null, coupon |-> Null,
              items |-> <<>>, discount |-> 0, late |-> FALSE, corrected |-> FALSE]
NoPromo   == [pc |-> "off", mode |-> "matrix", rows |-> {}, batch |-> {}]

Matrix  == mode = "matrix"
Limited == plan.limit # Unlimited
Email(r) == Ask[r].email
Code(r)  == IF task[r].late THEN entry[RowOf[r]].code ELSE Ask[r].code
Coupon(r) == CouponRow[task[r].coupon]

Submitted(r) == RowOf[r] = r

CouponsWith(code) == {c \in live \cap Coupons : CouponRow[c].code = code}

-----------------------------------------------------------------------------
(* Locks and the transaction's end.                                        *)

Named(items) == (UNION {{items[i].phase, items[i].category, items[i].duration}
                          : i \in DOMAIN items}) \ {Null}

\* Mutant: coupon_id is no foreign key.
MReferences(r) == Named(task[r].items)

\* Rows named by a handler's booking and tickets, by foreign key.
References(r) == Named(task[r].items) \cup ({task[r].coupon} \ {Null})

\* PromoteAfterCancel serves the rows it picked in one transaction.
Mates(r) == IF r \in promo.batch THEN promo.batch ELSE {r}
Tx(r)    == IF r \in promo.batch THEN Promoter ELSE r

InTransaction(r) == task[r].pc \in {"inserted", "locked", "recorded"}
Shares(r) == IF InTransaction(r) THEN References(r) ELSE {}
Unlocked(x) == \A s \in Requests : x \notin Shares(s) /\ task[s].held # x

Goto(r, pc)   == task' = [task EXCEPT ![r].pc = pc]
Answer(r, pc) == task' = [task EXCEPT ![r] = [Idle EXCEPT !.pc = pc]]

\* A query: only the handler knows what it read.
Reads       == UNCHANGED <<plan, now, config, redeemed, booking, entry, locks, edits, view>>
\* Inside the transaction: row locks too.
Uncommitted == UNCHANGED <<plan, now, config, redeemed, booking, entry, dying, touched,
                           edits, view>>

\* The end of a transaction frees what it holds.
Release(tx) == /\ lock' = IF lock = tx THEN Null ELSE lock
               /\ promo' = IF tx = Promoter THEN NoPromo ELSE promo

\* An error rolls the whole transaction back: every request served in it is
\* answered, its waitlist row is as it was.
Undone(R) == [s \in Requests |->
    IF s \in R
      THEN [Idle EXCEPT !.pc = IF task[s].late /\ Submitted(s) THEN "waiting" ELSE "failed"]
      ELSE task[s]]

\* Mutant: no rollback, the transaction stays open.
MFail(r) == task' = Undone(Mates(r)) /\ UNCHANGED <<lock, promo>>

Fail(r) == task' = Undone(Mates(r)) /\ Release(Tx(r))

-----------------------------------------------------------------------------
(* pricing.Compute.                                                        *)

\* priceMatrix reads the active phase; the time of the quote is taken here.
GetActivePhase(r) ==
    /\ task[r].pc = "new" /\ r \in plan.guests /\ Submitted(r) /\ Matrix
    /\ \/ \E p \in ActivePhases(live, now) :
            task' = [task EXCEPT ![r].pc = "pricing", ![r].phase = p, ![r].when = now]
       \/ /\ ActivePhases(live, now) = {}
          /\ Answer(r, "failed")
    /\ Reads

\* One GetPrice for each selection.
GetPrice(r) ==
    LET t == task[r]
        n == Len(t.items) + 1
        sel == Ask[r].selections[n]
        rows == PricesFor(prices, t.phase, sel)
    IN
    /\ t.pc = "pricing" /\ n <= Len(Ask[r].selections)
    /\ \/ \E row \in rows :
            task' = [task EXCEPT ![r].items = Append(@,
                       [phase |-> row.phase, category |-> row.category,
                        duration |-> row.duration, amount |-> row.amount])]
       \/ /\ rows = {}
          /\ Answer(r, "failed")
    /\ Reads

\* priceDonation: the amount given or the suggested one, at least the minimum.
PriceDonation(r) ==
    LET gift(sel) == IF sel.amount # Null THEN sel.amount ELSE donation.suggested
        gifts == [i \in DOMAIN Ask[r].selections |->
                    [phase |-> Null, category |-> Null, duration |-> Null,
                     amount |-> gift(Ask[r].selections[i])]]
        accepted == /\ donation # Null
                    /\ \A i \in DOMAIN gifts : gifts[i].amount >= donation.min
    IN
    /\ task[r].pc = "new" /\ r \in plan.guests /\ Submitted(r) /\ ~Matrix
    /\ \/ /\ accepted
          /\ task' = [task EXCEPT ![r].pc = "pricing", ![r].items = gifts, ![r].when = now]
       \/ /\ ~accepted
          /\ Answer(r, "failed")
    /\ Reads

Priced(r) == /\ task[r].pc = "pricing"
             /\ Len(task[r].items) = Len(Ask[r].selections)

\* No code was sent: the total is the subtotal.
NoCoupon(r) ==
    /\ Priced(r) /\ Ask[r].code = Null
    /\ Goto(r, "quoted")
    /\ Reads

\* GetCouponByCode and the coupon's period.
GetCoupon(r) ==
    LET found == {c \in CouponsWith(Ask[r].code) : InPeriod(CouponRow[c], task[r].when)} IN
    /\ Priced(r) /\ Ask[r].code # Null
    /\ \/ \E c \in found :
            task' = [task EXCEPT ![r].pc = "checking", ![r].coupon = c]
       \/ /\ found = {}
          /\ Answer(r, "failed")
    /\ Reads

\* The redemptions that a handler's transaction sees: those committed and its
\* own.
Redemptions(r) ==
    redeemed \cup {<<task[s].held, s>> : s \in {m \in Mates(r) : task[m].redeems}}

\* The contact address of a booking.
Contact(s) == IF booking[s].status = "none" THEN Email(s) ELSE booking[s].email

Uses(c, seen) == Cardinality({s \in Requests : <<c, s>> \in seen})
UsesOf(c, email, seen) ==
    Cardinality({s \in Requests : <<c, s>> \in seen /\ Contact(s) = email})

\* What checkCouponEligibility and RedeemCoupon both ask of the redemptions.
Redeemable(c, r) ==
    /\ UsesLeft(CouponRow[c], Uses(c, Redemptions(r)))
    /\ CouponRow[c].single => UsesOf(c, Email(r), Redemptions(r)) = 0

CheckUses(r) ==
    /\ task[r].pc = "checking"
    /\ IF Redeemable(task[r].coupon, r)
         THEN Goto(r, "filtering") ELSE Answer(r, "failed")
    /\ Reads

\* The filter lists of a coupon that was deleted meanwhile are empty.
CheckFilters(r) ==
    LET f == filters[task[r].coupon]
        allowed == FiltersAllow(f \cap Phases, f \cap Categories, task[r].items)
    IN
    /\ task[r].pc = "filtering"
    /\ \/ /\ allowed
          /\ task' = [task EXCEPT ![r].pc = "quoted",
                                  ![r].discount = Discount(Coupon(r), Subtotal(task[r].items))]
       \/ /\ ~allowed
          /\ Answer(r, "failed")
    /\ Reads

\* HandleQuote answers with the quote and keeps nothing.
ShowQuote(r) ==
    /\ task[r].pc = "quoted"
    /\ Answer(r, "shown")
    /\ Reads

-----------------------------------------------------------------------------
(* The booking transaction, and those that serve waitlist rows.            *)

SeatsOf(R) == FoldSet(LAMBDA r, sum : Len(Ask[r].selections) + sum, 0, R)
Seats == FoldSet(LAMBDA r, sum : Len(booking[r].items) + sum, 0,
                 {r \in Requests : booking[r].status = "active"})
Fits(r) == Seats + Len(Ask[r].selections) <= plan.limit
LockFree == lock = Null
Waiting == {r \in Requests : entry[r].status = "waiting"}

\* Mutant: the seats are counted without locking the event.
MAdmit(r) ==
    /\ task[r].pc = "quoted"
    /\ Limited => LockFree /\ Fits(r)
    /\ Goto(r, "admitted")
    /\ Reads

\* CountActiveSeatsForEventLocking, only when the event has a limit.
Admit(r) ==
    /\ task[r].pc = "quoted"
    /\ Limited => LockFree /\ Fits(r)
    /\ Goto(r, "admitted")
    /\ lock' = IF Limited THEN r ELSE lock
    /\ UNCHANGED promo /\ Uncommitted

\* Too few seats: createWaitlistEntry freezes the quote and commits.  The row
\* names the coupon by foreign key: one being deleted is waited for.
Join(r) ==
    LET t == task[r] IN
    /\ t.pc = "quoted" /\ Limited /\ LockFree /\ ~Fits(r) /\ t.coupon \notin dying
    /\ \/ /\ t.coupon \in live \cup {Null}
          /\ entry' = [entry EXCEPT ![r] =
                [status |-> "waiting", coupon |-> t.coupon, items |-> t.items,
                 discount |-> t.discount,
                 code |-> IF t.coupon = Null THEN Null ELSE Coupon(r).code]]
          /\ Answer(r, "waiting")
          /\ UNCHANGED <<lock, promo>>
       \/ /\ t.coupon \notin live \cup {Null}
          /\ Fail(r) /\ UNCHANGED entry
    /\ UNCHANGED <<plan, now, config, redeemed, booking, dying, touched, edits, view>>

\* What a waitlist row says when it is read.
Frozen(row, pc) ==
    [Idle EXCEPT !.pc = pc, !.late = TRUE, !.items = entry[row].items,
                 !.coupon = entry[row].coupon, !.discount = entry[row].discount]

\* HandleWaitlistClaim: lock, count, read the row, go on with the frozen quote.
Claim(r) ==
    /\ Submitted(r) /\ task[r].pc = "waiting" /\ entry[r].status = "waiting"
    /\ LockFree /\ Fits(r)
    /\ lock' = r
    /\ task' = [task EXCEPT ![r] = Frozen(r, "admitted")]
    /\ UNCHANGED promo /\ Uncommitted

\* HandleAdminWaitlistPromote reads the row, then the event; on a paid event it
\* mails the waiter.  The transaction goes by that row and counts no seats.
ReadEntry(r) ==
    /\ ~Submitted(r) /\ r \in plan.guests
    /\ task[r].pc = "new" /\ entry[RowOf[r]].status = "waiting"
    /\ task' = [task EXCEPT ![r] = Frozen(RowOf[r], "found")]
    /\ Reads

ReadEvent(r) ==
    /\ task[r].pc = "found"
    /\ \/ Matrix /\ Answer(r, "shown")
       \/ ~Matrix /\ Goto(r, "called")
    /\ Reads

LockEvent(r) ==
    /\ task[r].pc = "called" /\ LockFree
    /\ Goto(r, "admitted")
    /\ lock' = r
    /\ UNCHANGED promo /\ Uncommitted

\* PromoteAfterCancel goes on to the next row it picked.
Turn(r) ==
    /\ r \in promo.batch /\ task[r].pc = "queued"
    /\ \A s \in promo.batch : task[s].pc \in {"queued", "recorded"}
    /\ Goto(r, "admitted")
    /\ Reads

\* CreateBooking, CreateTicket: a named row that is gone breaks the foreign key;
\* one that another transaction has FOR UPDATE or deletes is waited for.
Insert(r) ==
    LET names == References(r)
        code  == Code(r)
    IN
    /\ task[r].pc = "admitted"
    /\ names \cap dying = {}
    /\ \A s \in Requests \ Mates(r) : task[s].held \notin names
    /\ \/ /\ names \subseteq live
          /\ Goto(r, IF code = Null THEN "recorded" ELSE "inserted")
          /\ UNCHANGED <<lock, promo>>
       \/ /\ ~(names \subseteq live)
          /\ Fail(r)
    /\ Uncommitted

Lockable(c, r) ==
    /\ c \notin dying
    /\ \A s \in Requests \ Mates(r) : c \notin Shares(s) /\ task[s].held # c

\* Mutant: RedeemCoupon reads the coupon without FOR UPDATE.
MLockCoupon(r) ==
    /\ task[r].pc = "inserted"
    /\ \E c \in CouponsWith(Code(r)) :
         task' = [task EXCEPT ![r].pc = "locked", ![r].held = c]
    /\ Reads

\* GetCouponByCodeForUpdate.  A waitlist row's coupon may be gone; the error is
\* dropped there.
LockCoupon(r) ==
    LET found == CouponsWith(Code(r)) IN
    /\ task[r].pc = "inserted"
    /\ \/ \E c \in found :
            /\ Lockable(c, r)
            /\ task' = [task EXCEPT ![r].pc = "locked", ![r].held = c]
       \/ /\ found = {} /\ task[r].late
          /\ Goto(r, "recorded")
    /\ Reads

\* Mutant: a refused redemption does not stop a direct booking either.
MRedeem(r) ==
    /\ task[r].pc = "locked"
    /\ task' = [task EXCEPT ![r].pc = "recorded",
                            ![r].redeems = Redeemable(task[r].held, r)]
    /\ Reads

\* Mutant: a refused redemption stops a served waitlist row too.
MRedeemStrict(r) ==
    LET ok == Redeemable(task[r].held, r) IN
    /\ task[r].pc = "locked"
    /\ \/ /\ ok
          /\ task' = [task EXCEPT ![r].pc = "recorded", ![r].redeems = TRUE]
          /\ UNCHANGED <<lock, promo>>
       \/ ~ok /\ Fail(r)
    /\ Uncommitted

\* The counts again, under the lock.  A direct booking that fails them rolls
\* back; serving a waitlist row goes on without a redemption.
Redeem(r) ==
    LET ok == Redeemable(task[r].held, r) IN
    /\ task[r].pc = "locked"
    /\ \/ /\ ok \/ task[r].late
          /\ task' = [task EXCEPT ![r].pc = "recorded", ![r].redeems = ok]
          /\ UNCHANGED <<lock, promo>>
       \/ /\ ~ok /\ ~task[r].late
          /\ Fail(r)
    /\ Uncommitted

Booked(t, r) ==
    [status |-> "active", email |-> Email(r), coupon |-> t.coupon, items |-> t.items,
     discount |-> t.discount, late |-> t.late, corrected |-> FALSE]

\* Everything the transaction wrote, for every row it serves.
Commit(r) ==
    LET R == Mates(r)
        served == {RowOf[s] : s \in {m \in R : task[m].late}}
    IN
    /\ \A s \in R : task[s].pc = "recorded"
    /\ booking' = [s \in Requests |-> IF s \in R THEN Booked(task[s], s) ELSE booking[s]]
    /\ redeemed' = Redemptions(r)
    /\ entry' = [s \in Requests |-> IF s \in served
                   THEN [entry[s] EXCEPT !.status = "fulfilled"] ELSE entry[s]]
    /\ task' = [s \in Requests |-> IF s \in R
                  THEN [Idle EXCEPT !.pc = "booked"] ELSE task[s]]
    /\ Release(Tx(r))
    /\ UNCHANGED <<plan, now, config, dying, touched, edits, view>>

\* Both wait for a row the other one has.
Blocks(r, s) == /\ s \notin Mates(r) /\ task[s].pc = "inserted"
                /\ CouponsWith(Code(s)) \cap Shares(r) # {}
Deadlocked(r, s) == Blocks(r, s) /\ Blocks(s, r)

\* PostgreSQL ends one of them with an error; WithTx does not try again.
Abort(r) ==
    /\ \E s \in Requests : Deadlocked(r, s)
    /\ Fail(r)
    /\ Uncommitted

-----------------------------------------------------------------------------
(* PromoteAfterCancel, after a cancel, a sweep or by hand.  One at a time:  *)
(* others wait for the event row with nothing in their hands.              *)

\* The event is read before it is locked; without a limit there is no more to do.
CallPromoter ==
    /\ "promote" \in plan.admin /\ promo.pc = "off" /\ Limited
    /\ promo' = [promo EXCEPT !.pc = "called", !.mode = mode]
    /\ UNCHANGED <<task, lock>> /\ Uncommitted

StartPromotion ==
    /\ promo.pc = "called" /\ LockFree
    /\ \/ /\ Seats < plan.limit
          /\ promo' = [promo EXCEPT !.pc = "listing"] /\ lock' = Promoter
       \/ /\ Seats >= plan.limit
          /\ promo' = NoPromo /\ UNCHANGED lock
    /\ UNCHANGED task /\ Uncommitted

\* ListWaitingForEventLocking takes one row after the other; one that a delete
\* has reached is waited for.
LockEntry(r) ==
    /\ promo.pc = "listing" /\ r \in (Waiting \ promo.rows) \ touched
    /\ promo' = [promo EXCEPT !.rows = @ \cup {r}]
    /\ UNCHANGED <<task, lock>> /\ Uncommitted

\* AllocateFIFO: what it picks fits and, in whatever order the rows joined,
\* leaves out none that would.  A paid event's rows are only mailed.
Allocate(P) ==
    LET seats == Seats + SeatsOf(P) IN
    /\ promo.pc = "listing" /\ promo.rows = Waiting
    /\ P \subseteq Waiting /\ seats <= plan.limit
    /\ \A r \in Waiting \ P : seats + Len(Ask[r].selections) > plan.limit
    /\ \/ /\ promo.mode = "donation" /\ P # {}
          /\ promo' = [promo EXCEPT !.pc = "serving", !.batch = P]
          /\ task' = [r \in Requests |-> IF r \in P THEN Frozen(r, "queued") ELSE task[r]]
          /\ UNCHANGED lock
       \/ /\ promo.mode = "matrix" \/ P = {}
          /\ Release(Promoter) /\ UNCHANGED task
    /\ Uncommitted

-----------------------------------------------------------------------------
(* The organizer.  Each handler is one statement, or one transaction nobody *)
(* else can tell from one, but for a delete: it waits for the locks on its  *)
(* row, holds the row, and then goes through those that refer to it.        *)

Edits(op) ==
    /\ op \in plan.admin /\ edits < plan.edits
    /\ edits' = edits + 1
    /\ UNCHANGED <<plan, now, task, lock, promo, touched, view>>

\* HandleUpdate: the event's pricing mode, whatever was sold or frozen in the
\* other one.
SwitchMode(m) ==
    /\ mode # m /\ LockFree
    /\ mode' = m
    /\ UNCHANGED <<live, born, prices, donation, filters, redeemed, booking, entry, dying>>
    /\ Edits("mode")

CreateRow(x) ==
    /\ x \notin born
    /\ live' = live \cup {x} /\ born' = born \cup {x}
    /\ UNCHANGED <<mode, prices, donation, redeemed, booking, entry, dying>>

CreatePhase(p)    == CreateRow(p) /\ UNCHANGED filters /\ Edits("create")
CreateCategory(c) == CreateRow(c) /\ UNCHANGED filters /\ Edits("create")
CreateDuration(d) == CreateRow(d) /\ UNCHANGED filters /\ Edits("create")

\* The DELETE has its row: nobody can name it until it commits.
HoldRow(x) ==
    /\ x \in live \ dying /\ Unlocked(x)
    /\ dying' = dying \cup {x}
    /\ UNCHANGED <<config, redeemed, booking, entry>>

DeletePhase(p)    == HoldRow(p) /\ Edits("delete")
DeleteCategory(c) == HoldRow(c) /\ Edits("delete")
DeleteDuration(d) == HoldRow(d) /\ Edits("delete")
DeleteCoupon(c)   == HoldRow(c) /\ Edits("coupon")

\* Its prices and its filter rows go by ON DELETE CASCADE; a filter row that the
\* delete of its coupon has taken is waited for.  Tickets forget it and keep
\* their amount.
ForgetRow(x) ==
    /\ x \in dying \ Coupons
    /\ \A c \in dying \cap Coupons : x \notin filters[c]
    /\ dying' = dying \ {x}
    /\ live' = live \ {x}
    /\ prices' = {row \in prices : x \notin {row.phase, row.category, row.duration}}
    /\ filters' = [c \in Coupons |-> filters[c] \ {x}]
    /\ UNCHANGED <<mode, born, donation, redeemed, booking, entry, touched,
                   plan, now, task, lock, promo, edits, view>>

\* The waiting rows that name a coupon.
Naming(c) == {r \in Waiting : entry[r].coupon = c}

\* ON DELETE SET NULL updates one waitlist row after the other; one that a
\* promotion holds is waited for.
TouchEntry(r) ==
    /\ r \in Waiting \ touched /\ entry[r].coupon \in dying
    /\ r \notin promo.rows
    /\ touched' = touched \cup {r}
    /\ UNCHANGED <<plan, now, config, redeemed, booking, entry, task, lock, promo, dying,
                   edits, view>>

\* Its redemptions go with it; bookings and waitlist rows forget it.
ForgetCoupon(c) ==
    LET forget(row) == IF row.coupon = c THEN [row EXCEPT !.coupon = Null] ELSE row IN
    /\ c \in dying /\ Naming(c) \subseteq touched
    /\ dying' = dying \ {c} /\ touched' = touched \ Naming(c)
    /\ live' = live \ {c}
    /\ filters' = [filters EXCEPT ![c] = {}]
    /\ redeemed' = {x \in redeemed : x[1] # c}
    /\ booking' = [r \in Requests |-> forget(booking[r])]
    /\ entry' = [r \in Requests |-> forget(entry[r])]
    /\ UNCHANGED <<mode, born, prices, donation, plan, now, task, lock, promo, edits, view>>

SetPrice(p, c, d, a) ==
    /\ {p, c, d} \subseteq (live \ dying) \cup {Null}
    /\ prices' = UpsertPrice(prices, [id |-> edits + 1, phase |-> p, category |-> c,
                                      duration |-> d, amount |-> a])
    /\ UNCHANGED <<mode, live, born, donation, filters, redeemed, booking, entry, dying>>
    /\ Edits("price")

DeletePrice(row) ==
    /\ row \in prices
    /\ prices' = prices \ {row}
    /\ UNCHANGED <<mode, live, born, donation, filters, redeemed, booking, entry, dying>>
    /\ Edits("price")

SetDonation(suggested, min) ==
    /\ min <= suggested
    /\ donation' = [suggested |-> suggested, min |-> min]
    /\ UNCHANGED <<mode, live, born, prices, filters, redeemed, booking, entry, dying>>
    /\ Edits("donation")

\* The code is unique; a filter row refers to a row that exists.
CreateCoupon(c) ==
    LET f == CouponRow[c].phases \cup CouponRow[c].categories IN
    /\ CouponsWith(CouponRow[c].code) = {} /\ f \subseteq live \ dying
    /\ CreateRow(c)
    /\ filters' = [filters EXCEPT ![c] = f]
    /\ Edits("coupon")

\* A canceled booking keeps its redemption.
Cancel(r) ==
    /\ booking[r].status = "active"
    /\ booking' = [booking EXCEPT ![r].status = "canceled"]
    /\ UNCHANGED <<config, redeemed, entry, dying>>
    /\ Edits("cancel")

\* HandleEditBooking.
EditContact(r, email) ==
    /\ booking[r].status # "none" /\ booking[r].email # email
    /\ booking' = [booking EXCEPT ![r].email = email, ![r].corrected = TRUE]
    /\ UNCHANGED <<config, redeemed, entry, dying>>
    /\ Edits("contact")

-----------------------------------------------------------------------------
(* A pricing page: the event, then four lists in this order, outside any    *)
(* transaction.                                                            *)

Lists  == <<Phases, Categories, Durations>>
Unread == [step |-> 0, rows |-> {}, lost |-> {}, prices |-> {}, before |-> {}]

Looks == UNCHANGED <<plan, now, config, redeemed, booking, entry, task, locks, edits>>

OpenPage ==
    /\ view.step = 0 /\ "page" \in plan.admin
    /\ view' = [view EXCEPT !.step = 1, !.before = born]
    /\ Looks

\* Mutant: the prices are read first.
MReadPage ==
    /\ view.step \in 1..4
    /\ view' = IF view.step > 1
                 THEN [view EXCEPT !.step = @ + 1,
                                   !.rows = @ \cup (live \cap Lists[view.step - 1])]
                 ELSE [view EXCEPT !.step = @ + 1, !.prices = prices]
    /\ Looks

ReadPage ==
    /\ view.step \in 1..4
    /\ view' = IF view.step < 4
                 THEN [view EXCEPT !.step = @ + 1,
                                   !.rows = @ \cup (live \cap Lists[view.step])]
                 ELSE [view EXCEPT !.step = @ + 1, !.prices = prices]
    /\ Looks

\* A query that fails: its error is dropped, its list is empty, the page goes on.
MissPage ==
    /\ view.step \in 1..4
    /\ view' = IF view.step < 4
                 THEN [view EXCEPT !.step = @ + 1, !.lost = @ \cup Lists[view.step]]
                 ELSE [view EXCEPT !.step = @ + 1]
    /\ Looks

Tick == /\ now < plan.until
        /\ now' = now + 1
        /\ UNCHANGED <<plan, config, redeemed, booking, entry, task, locks, edits, view>>

-----------------------------------------------------------------------------
(* Waits and circles of waits.  An owner of locks is a request, Promoter or *)
(* the row that a DELETE holds.                                             *)

Owners == Requests \cup {Promoter} \cup dying

\* The next statement of r's transaction waits for a lock that o holds.
Awaits(r, o) ==
    \/ task[r].pc \in {"quoted", "called"} /\ lock = o
    \/ task[r].pc = "quoted" /\ Limited /\ o \in dying \cap {task[r].coupon}
    \/ task[r].pc = "admitted" /\ o \in dying \cap References(r)
    \/ task[r].pc = "inserted" /\ o \in dying \cap CouponsWith(Code(r))
    \/ \E s \in Requests \ Mates(r) :
         /\ o = Tx(s)
         /\ \/ task[r].pc = "admitted" /\ task[s].held \in References(r)
            \/ task[r].pc = "inserted" /\ task[s].held \in CouponsWith(Code(r))
            \/ Blocks(s, r)

WaitsFor(a, o) ==
    \/ a \in Requests \ promo.batch /\ Awaits(a, o)
    \/ /\ a = Promoter
       /\ \/ promo.pc = "called" /\ lock = o
          \/ LET left == Waiting \ promo.rows IN
             /\ promo.pc = "listing" /\ left \subseteq touched
             /\ \E r \in left : entry[r].coupon = o
          \/ \E r \in promo.batch : Awaits(r, o)
    \/ LET left == Naming(a) \ touched IN
       /\ a \in dying /\ o = Promoter
       /\ left # {} /\ left \subseteq promo.rows
    \/ a \in dying \ Coupons /\ o \in dying \cap Coupons /\ a \in filters[o]

\* The promotion and the delete of coupon c wait for each other, or the
\* promotion waits for the delete of a row that c is filtered by.
Entangled(c, x) == /\ c \in dying \cap Coupons /\ WaitsFor(c, Promoter)
                   /\ x \in dying /\ WaitsFor(Promoter, x)
                   /\ x = c \/ WaitsFor(x, c)

\* PostgreSQL ends one of the circle: the promotion, with every row it serves,
AbortPromotion ==
    /\ \E c, x \in dying : Entangled(c, x)
    /\ task' = Undone(promo.batch) /\ Release(Promoter)
    /\ Uncommitted

\* or a delete, whose organizer is told.
AbortDelete(y) ==
    /\ \E c, x \in dying : Entangled(c, x) /\ y \in {c, x}
    /\ dying' = dying \ {y} /\ touched' = touched \ Naming(y)
    /\ UNCHANGED <<plan, now, config, redeemed, booking, entry, task, lock, promo, edits, view>>

-----------------------------------------------------------------------------
Init ==
    /\ plan \in Plans
    /\ now = 0
    /\ mode = plan.mode
    /\ live = plan.live /\ born = plan.live
    /\ prices = plan.prices
    /\ donation = plan.donation
    /\ filters = [c \in Coupons |-> IF c \in plan.live
                    THEN CouponRow[c].phases \cup CouponRow[c].categories ELSE {}]
    /\ redeemed = {}
    /\ booking = [r \in Requests |-> NoBooking]
    /\ entry = plan.entry
    /\ task = [r \in Requests |-> [Idle EXCEPT !.pc =
                  IF plan.entry[r].status = "waiting" THEN "waiting" ELSE "new"]]
    /\ lock = Null /\ promo = NoPromo /\ dying = {} /\ touched = {}
    /\ edits = 0 /\ view = Unread

Compute(r) == \/ GetActivePhase(r) \/ GetPrice(r) \/ PriceDonation(r) \/ NoCoupon(r)
              \/ GetCoupon(r) \/ CheckUses(r) \/ CheckFilters(r) \/ ReadEvent(r)

Book(r) == \/ Admit(r) \/ Join(r) \/ LockEvent(r) \/ Turn(r) \/ Insert(r)
           \/ LockCoupon(r) \/ Redeem(r) \/ Commit(r) \/ Abort(r)

Promotion == \/ StartPromotion \/ AbortPromotion
             \/ \E r \in Requests : LockEntry(r)
             \/ \E P \in SUBSET Waiting : Allocate(P)

Deletes == \/ \E x \in dying \ Coupons : ForgetRow(x)
           \/ \E r \in Waiting : TouchEntry(r)
           \/ \E c \in dying \cap Coupons : ForgetCoupon(c)
           \/ \E x \in dying : AbortDelete(x)

Organizer ==
    \/ \E m \in {"matrix", "donation"} : SwitchMode(m)
    \/ \E p \in Phases : CreatePhase(p) \/ DeletePhase(p)
    \/ \E c \in Categories : CreateCategory(c) \/ DeleteCategory(c)
    \/ \E d \in Durations : CreateDuration(d) \/ DeleteDuration(d)
    \/ \E p \in Phases, c \in Categories, d \in Durations \cup {Null}, a \in Amounts :
          SetPrice(p, c, d, a)
    \/ \E row \in prices : DeletePrice(row)
    \/ \E s, m \in Amounts : SetDonation(s, m)
    \/ \E c \in Coupons : CreateCoupon(c) \/ DeleteCoupon(c)
    \/ \E r \in Requests : Cancel(r)
    \/ \E r \in Requests, e \in Emails : EditContact(r, e)
    \/ OpenPage \/ ReadPage \/ MissPage

Next == \/ \E r \in Requests :
              Compute(r) \/ ShowQuote(r) \/ Book(r) \/ Claim(r) \/ ReadEntry(r)
        \/ CallPromoter \/ Promotion
        \/ Organizer \/ Deletes
        \/ Tick

Spec == Init /\ [][Next]_vars

\* A handler, a promotion or a delete that has begun runs to its end, and
\* PostgreSQL gives a row lock to those that wait for it in turn (what a promotion
\* has before it gets the event row stops nobody: weak fairness is enough for it).
\* Nobody has to come, claim, promote or edit.
FairSpec == /\ Spec
            /\ \A r \in Requests : SF_vars(Compute(r) \/ Book(r))
            /\ WF_vars(Promotion) /\ SF_vars(Deletes)

-----------------------------------------------------------------------------
(* Properties.                                                             *)

\* The state is well formed: every reference is to a row of its table, and the
\* event row is held only by a transaction of a limited event that is under way.
TypeOK ==
    /\ live \subseteq born /\ born \subseteq Rows /\ dying \subseteq live
    /\ \A row \in prices : {row.phase, row.category, row.duration} \subseteq live \cup {Null}
    /\ \A c \in Coupons : filters[c] \subseteq live /\ (filters[c] # {} => c \in live)
    /\ \A x \in redeemed : x[1] \in live /\ booking[x[2]].status # "none"
    /\ \A r \in Requests : {booking[r].coupon, entry[r].coupon} \subseteq live \cup {Null}
    /\ lock # Null => Limited
    /\ lock \in Requests => task[lock].pc \in {"admitted", "inserted", "locked", "recorded"}
    /\ lock = Promoter <=> promo.pc \in {"listing", "serving"}
    /\ promo.batch \subseteq promo.rows /\ promo.rows \subseteq Waiting

\* internal/pricing/redeem.go "concurrent bookings cannot exceed limits": a
\* coupon is never redeemed more often than max_uses, whatever quotes were
\* handed out, and the redemptions of served waitlist rows count too, several of
\* one promotion included.
UsesWithinLimit ==
    \A c \in live \cap Coupons :
      CouponRow[c].maxUses # Null => Uses(c, redeemed) <= CouponRow[c].maxUses

\* Two bookings with one contact address both redeem a single-use coupon only if
\* the organizer corrected a contact: the count goes by the address of today, and
\* the coupon's lock does not stop a correction.
OncePerEmail ==
    \A c \in Coupons : \A r, s \in Requests :
      /\ CouponRow[c].single /\ r # s /\ {<<c, r>>, <<c, s>>} \subseteq redeemed
      /\ booking[r].email = booking[s].email
      => booking[r].corrected \/ booking[s].corrected

\* A booking made directly with a coupon is counted among the coupon's
\* redemptions for as long as it names the coupon.
DiscountIsCounted ==
    \A r \in Requests :
      booking[r].coupon # Null /\ ~booking[r].late
        => <<booking[r].coupon, r>> \in redeemed

\* Of bookings, claims, promotions and deletes, with the event, coupon, price
\* list and waitlist rows they lock: a circle of waits, however long, has two
\* bookings in it that redeem one coupon of an event without a limit and wait for
\* each other, or it has a promotion, which holds all waiting rows, and the delete
\* of a coupon, which needs one of them (waitlist_promote.go ListWaitingForEvent-
\* Locking against ON DELETE SET NULL).
LockOrder ==
    LET waiting == {a \in Owners : \E o \in Owners : WaitsFor(a, o)} IN
    \A C \in (SUBSET waiting) \ {{}} :
      (\A a \in C : \E o \in C : WaitsFor(a, o))
        => \/ ~Limited /\ \E r, s \in C \cap Requests : Deadlocked(r, s)
           \/ Promoter \in C /\ \E c \in C \cap Coupons : WaitsFor(c, Promoter)

\* No handler is stuck: what it waits for is released, a circle of waits is
\* broken, and time and again it has not begun or has come to an answer.
EveryRequestIsAnswered ==
    \A r \in Requests : []<>(task[r].pc \in {"new", "shown", "booked", "waiting", "failed"})

\* What a quote takes off is the coupon's share to the nearest minor unit, half
\* units up, and never more than the subtotal.
DiscountIsFair ==
    \A r \in Requests :
      task[r].pc \in {"quoted", "admitted"} /\ ~task[r].late /\ task[r].coupon # Null =>
        LET sub == Subtotal(task[r].items)
            off == task[r].discount
        IN  /\ off \in 0..sub
            /\ Coupon(r).type = "percental_reduce" =>
                 100 * off - Coupon(r).value * sub \in -49..50
            /\ Coupon(r).type = "fixed_reduce" => off = Coupon(r).value \/ off = sub
            /\ Coupon(r).type = "guestlist" => off = sub

\* waitlist_promote.go "a coupon applied at waitlist-join stays valid through
\* promotion": a transaction that serves waitlist rows is undone only if some row
\* it serves, perhaps another one, names what no longer exists, or as one of a
\* circle with the delete of a coupon; never because a coupon is used up, has
\* lapsed or was redeemed under that address before.
OnlyDeletesStopServing ==
    [][\A r \in Requests :
         task[r].late /\ task'[r].pc \in {"waiting", "failed"} =>
           \/ \E s \in Mates(r) : ~(References(s) \subseteq live)
           \/ r \in promo.batch /\ \E c, x \in dying : Entangled(c, x)]_vars

\* A pricing page shows a price without its phase, category or duration only if
\* that row is newer than the page or the query of its table failed: the prices
\* are read last.
PageMissesOnlyNewRows ==
    view.step = 5 =>
      \A row \in view.prices :
        {row.phase, row.category, row.duration} \cap view.before
          \subseteq view.rows \cup view.lost

\* 00002_initial_schema.sql "UNIQUE (phase_id, category_id, duration_id)": a
\* cell of the price matrix has one price.
OnePricePerCell == \A x, y \in prices : Cell(x) = Cell(y) => x = y
=============================================================================
