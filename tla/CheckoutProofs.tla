--------------------------- MODULE CheckoutProofs ---------------------------
(***************************************************************************)
(* Theorems about Checkout for any price list, coupons and submissions.    *)
(***************************************************************************)
EXTENDS Checkout, FiniteSetTheorems, WellFoundedInduction, TLAPS

-----------------------------------------------------------------------------
(* Sums of amounts.                                                        *)

\* FoldSeq takes any element of a set next.
Pick(s) == CHOOSE i \in s : TRUE

Step(items, g, s) ==
    IF s = {} THEN 0 ELSE items[Pick(s)].amount + g[s \ {Pick(s)}]

IsSum(g, items) ==
    g = [s \in SUBSET (DOMAIN items) |-> Step(items, g, s)]

(***************************************************************************)
(* Among numbers there is a least one.                                     *)
(***************************************************************************)
LEMMA Least ==
    ASSUME NEW S, S \subseteq Nat, S # {}
    PROVE  \E n \in S : \A m \in S : n <= m
<1>1. PICK n \in S : \A m \in S : ~ (<<m, n>> \in OpToRel(<, Nat))
  BY NatLessThanWellFounded, WFMin
<1>2. ASSUME NEW m \in S PROVE n <= m
  <2>1. <<m, n>> \in Nat \X Nat
    OBVIOUS
  <2>2. ~ (m < n)
    BY <1>1, <2>1 DEF OpToRel
  <2> QED BY <2>2
<1> QED BY <1>2

(***************************************************************************)
(* A sum over the positions of a sequence exists, up to any size ...       *)
(***************************************************************************)
LEMMA SumUpTo ==
    ASSUME NEW items, IsFiniteSet(DOMAIN items)
    PROVE  \A n \in Nat : \E g : \A s \in SUBSET (DOMAIN items) :
              Cardinality(s) <= n => g[s] = Step(items, g, s)
<1> DEFINE D == DOMAIN items
           Works(g, n) == \A s \in SUBSET D : Cardinality(s) <= n => g[s] = Step(items, g, s)
           Bad == {n \in Nat : ~ (\E g : Works(g, n))}
<1>1. ASSUME NEW n \in Bad, \A m \in Bad : n <= m PROVE FALSE
  <2>1. CASE n = 0
    <3> DEFINE g == [s \in SUBSET D |-> 0]
    <3>1. ASSUME NEW s \in SUBSET D, Cardinality(s) <= 0 PROVE g[s] = Step(items, g, s)
      <4>1. s = {}
        BY <3>1, FS_Subset, FS_CardinalityType, FS_EmptySet
      <4> QED BY <4>1 DEF Step
    <3>2. Works(g, n)
      <4> HIDE DEF g
      <4> QED BY <3>1, <2>1
    <3> QED BY <3>2
  <2>2. CASE n # 0
    <3>1. n - 1 \in Nat /\ n - 1 \notin Bad
      BY <1>1, <2>2
    <3>2. PICK f : Works(f, n - 1)
      BY <3>1
    <3> DEFINE g == [s \in SUBSET D |-> Step(items, f, s)]
    <3>3. \A s \in SUBSET D : Cardinality(s) <= n - 1 => g[s] = f[s]
      BY <3>2
    <3>4. ASSUME NEW s \in SUBSET D, Cardinality(s) <= n PROVE g[s] = Step(items, g, s)
      <4>1. CASE s = {}
        BY <4>1 DEF Step
      <4>2. CASE s # {}
        <5>1. Pick(s) \in s
          BY <4>2 DEF Pick
        <5>2. s \ {Pick(s)} \in SUBSET D /\ IsFiniteSet(s)
          BY FS_Subset
        <5>3. Cardinality(s \ {Pick(s)}) <= n - 1
          <6>1. Cardinality(s) \in Nat
            BY <5>2, FS_CardinalityType
          <6>2. Cardinality(s \ {Pick(s)}) = Cardinality(s) - 1
            BY <5>1, <5>2, FS_RemoveElement
          <6>3. n \in Nat
            OBVIOUS
          <6> HIDE DEF Bad, Works, g
          <6> QED BY <6>1, <6>2, <6>3, <3>4
        <5>4. g[s \ {Pick(s)}] = f[s \ {Pick(s)}]
          BY <5>2, <5>3, <3>3
        <5>5. g[s] = Step(items, f, s)
          OBVIOUS
        <5> HIDE DEF g
        <5> QED BY <5>4, <5>5, <4>2 DEF Step
      <4> QED BY <4>1, <4>2
    <3>5. Works(g, n)
      <4> HIDE DEF g
      <4> QED BY <3>4
    <3> QED BY <3>5
  <2> QED BY <2>1, <2>2
<1>2. Bad = {}
  <2> HIDE DEF Bad
  <2>1. Bad \subseteq Nat
    BY DEF Bad
  <2> QED BY <1>1, <2>1, Least
<1>3. \A n \in Nat : \E g : Works(g, n)
  <2> HIDE DEF Works
  <2> QED BY <1>2
<1> QED BY <1>3

(***************************************************************************)
(* ... so the recursion of FoldSeq defines a function ...                  *)
(***************************************************************************)
LEMMA SumExists ==
    ASSUME NEW items, IsFiniteSet(DOMAIN items)
    PROVE  \E g : IsSum(g, items)
<1> DEFINE D == DOMAIN items
<1>1. Cardinality(D) \in Nat
  BY FS_CardinalityType
<1>2. PICK f : \A s \in SUBSET D : Cardinality(s) <= Cardinality(D) => f[s] = Step(items, f, s)
  BY <1>1, SumUpTo
<1>3. \A s \in SUBSET D : f[s] = Step(items, f, s)
  BY <1>2, FS_Subset
<1> DEFINE g == [s \in SUBSET D |-> f[s]]
<1>4. ASSUME NEW s \in SUBSET D PROVE Step(items, f, s) = Step(items, g, s)
  BY DEF Step, Pick
<1>5. g = [s \in SUBSET D |-> Step(items, g, s)]
  <2>1. \A s \in SUBSET D : f[s] = Step(items, g, s)
    BY <1>3, <1>4
  <2> QED BY <2>1
<1> QED BY <1>5 DEF IsSum

(***************************************************************************)
(* ... whose values are numbers: a smallest set of positions with another  *)
(* value would have a smaller one.                                         *)
(***************************************************************************)
LEMMA SumIsNat ==
    ASSUME NEW items, IsFiniteSet(DOMAIN items),
           \A i \in DOMAIN items : items[i].amount \in Nat,
           NEW g, IsSum(g, items), NEW s \in SUBSET (DOMAIN items)
    PROVE  g[s] \in Nat
<1> DEFINE D == DOMAIN items
           Bad == {x \in SUBSET D : g[x] \notin Nat}
<1>1. ASSUME NEW x \in Bad, \A y \in Bad : <<y, x>> \notin StrictSubsetOrdering(D)
      PROVE  FALSE
  <2>1. g[x] = Step(items, g, x)
    BY DEF IsSum
  <2>2. x # {}
    BY <2>1 DEF Step
  <2>3. Pick(x) \in x
    BY <2>2 DEF Pick
  <2>4. x \ {Pick(x)} \in SUBSET D /\ x \ {Pick(x)} \subseteq x /\ x \ {Pick(x)} # x
    BY <2>3
  <2>5. x \ {Pick(x)} \notin Bad
    BY <2>4, <1>1 DEF StrictSubsetOrdering
  <2>6. g[x \ {Pick(x)}] \in Nat
    BY <2>4, <2>5
  <2>7. items[Pick(x)].amount \in Nat
    BY <2>3
  <2>8. g[x] = items[Pick(x)].amount + g[x \ {Pick(x)}]
    BY <2>1, <2>2 DEF Step
  <2> QED BY <2>6, <2>7, <2>8
<1>2. Bad \subseteq FiniteSubsetsOf(D)
  BY FS_Subset DEF FiniteSubsetsOf
<1>3. Bad = {}
  <2> HIDE DEF Bad
  <2> QED BY <1>1, <1>2, WFMin, FS_StrictSubsetOrderingWellFounded
<1> QED BY <1>3

(***************************************************************************)
(* A subtotal of amounts that are not negative is not negative.            *)
(***************************************************************************)
LEMMA SubtotalIsNat ==
    ASSUME NEW items, IsFiniteSet(DOMAIN items),
           \A i \in DOMAIN items : items[i].amount \in Nat
    PROVE  Subtotal(items) \in Nat
<1> DEFINE sum == CHOOSE g : IsSum(g, items)
<1>1. Subtotal(items) = sum[DOMAIN items]
  BY DEF Subtotal, FoldSeq, FoldFunction, FoldFunctionOnSet, MapThenFoldSet, IsSum, Step, Pick
<1>2. IsSum(sum, items)
  BY SumExists
<1> HIDE DEF sum
<1> QED BY <1>1, <1>2, SumIsNat

-----------------------------------------------------------------------------
(* The inductive invariant.                                                *)

\* A transaction that is under way, or whose turn in a promotion will come.
Open == {"queued", "admitted", "inserted", "locked", "recorded"}
Answers == {"shown", "booked", "waiting", "failed"}
Quoting == {"pricing", "checking", "filtering", "quoted"}
Steps == Open \cup Answers \cup Quoting \cup {"new", "found", "called"}

PriceType == [id : Nat, phase : Phases, category : Categories,
              duration : Durations \cup {Null}, amount : Nat]
DonationType == [suggested : Nat, min : Nat]
Addresses == Emails \cup {Null} \cup {Ask[r].email : r \in Requests}
Codes == {Null} \cup {CouponRow[c].code : c \in Coupons}
CouponRef == Coupons \cup {Null}
Modes == {"matrix", "donation"}
TaskType == [pc : Steps, when : Int, phase : Phases \cup {Null}, items : Seq(Item),
             coupon : CouponRef, discount : Nat, held : CouponRef,
             redeems : BOOLEAN, late : BOOLEAN]
BookingType == [status : {"none", "active", "canceled"}, email : Addresses, coupon : CouponRef,
                items : Seq(Item), discount : Nat, late : BOOLEAN, corrected : BOOLEAN]
EntryType == [status : {"none", "waiting", "fulfilled"}, coupon : CouponRef, items : Seq(Item),
              discount : Nat, code : Codes]
PromoType == [pc : {"off", "called", "listing", "serving"}, mode : Modes,
              rows : SUBSET Requests, batch : SUBSET Requests]
ViewType == [step : Nat, rows : SUBSET Rows, lost : SUBSET Rows, prices : SUBSET PriceType,
             before : SUBSET Rows]

\* Every variable has its type.
Typed ==
    /\ plan \in Plans /\ now \in Int /\ mode \in Modes
    /\ live \subseteq born /\ born \subseteq Rows
    /\ prices \subseteq PriceType
    /\ donation \in DonationType \cup {Null}
    /\ filters \in [Coupons -> SUBSET (Phases \cup Categories)]
    /\ redeemed \subseteq Coupons \X Requests
    /\ booking \in [Requests -> BookingType]
    /\ entry \in [Requests -> EntryType]
    /\ task \in [Requests -> TaskType]
    /\ lock \in Requests \cup {Promoter, Null}
    /\ promo \in PromoType
    /\ dying \subseteq live /\ touched \subseteq Requests
    /\ edits \in Nat
    /\ view \in ViewType

\* Foreign keys and the unique index of the codes.
PricesRefer == \A row \in prices :
    {row.phase, row.category, row.duration} \subseteq live \cup {Null}
FiltersRefer == \A c \in Coupons : filters[c] \subseteq live /\ (filters[c] # {} => c \in live)
CodesDiffer == \A c, d \in live \cap Coupons : CouponRow[c].code = CouponRow[d].code => c = d
RedemptionsRefer == \A x \in redeemed : x[1] \in live /\ booking[x[2]].status # "none"
RowsRefer == \A r \in Requests : {booking[r].coupon, entry[r].coupon} \subseteq live \cup {Null}

\* A booking is the last thing its handler leaves.
Answered == \A r \in Requests :
    IF booking[r].status = "none" THEN ~booking[r].corrected ELSE task[r].pc = "booked"

\* Only a limited event has a waitlist; the submission of a row that waits has
\* been told so, and is not being served unless it is late.
Told(r, t) == Limited /\ Submitted(r) /\ (t.pc = "waiting" \/ (t.pc \in Open /\ t.late))
Waitlist == \A r \in Waiting : Told(r, task[r])

\* What a handler knows of its coupon at each of its steps.
Sound(r, t) ==
    /\ t.late => t.pc \in Open \cup {"found", "called"} /\ Limited
    /\ t.pc \in {"queued", "found", "called"} => t.late
    /\ t.pc \in Quoting => Submitted(r)
    /\ t.pc \in {"new", "pricing"} => t.coupon = Null
    /\ t.pc \in {"checking", "filtering"} => t.coupon # Null
    /\ t.held # Null => t.pc \in {"locked", "recorded"} /\ t.held \in live
    /\ t.pc = "locked" => t.held # Null
    /\ t.redeems => t.pc = "recorded" /\ t.held # Null
    /\ t.pc \in {"inserted", "locked", "recorded"} => t.coupon \in live \cup {Null}
    /\ ~t.late /\ t.coupon # Null =>
         /\ Ask[r].code # Null /\ CouponRow[t.coupon].code = Ask[r].code
         /\ t.pc \in {"locked", "recorded"} => t.held = t.coupon
         /\ t.pc = "recorded" => t.redeems
         /\ t.pc \in {"quoted", "admitted"} =>
              t.discount = Discount(CouponRow[t.coupon], Subtotal(t.items))

Handlers == \A r \in Requests : Sound(r, task[r])

\* One transaction holds a coupon, one the event: of a promotion, or of the one
\* request that is under way on a limited event.
CouponsHeldOnce == \A r, s \in Requests :
    s \notin Mates(r) /\ task[r].held # Null => task[r].held # task[s].held
EventHeldOnce ==
    /\ lock # Null => Limited
    /\ lock \in Requests => task[lock].pc \in Open \ {"queued"} /\ lock \notin promo.batch
    /\ \A r \in Requests : Limited /\ task[r].pc \in Open => lock = Tx(r)

\* A promotion has the event row while it lists and serves; it serves rows that
\* it listed, and those wait.
PromotionHolds ==
    /\ promo.pc # "off" => Limited
    /\ lock = Promoter <=> promo.pc \in {"listing", "serving"}
    /\ promo.pc \notin {"listing", "serving"} => promo.rows = {}
    /\ promo.pc # "serving" => promo.batch = {}
    /\ promo.batch \subseteq promo.rows /\ promo.rows \subseteq Waiting
    /\ \A r \in promo.batch : task[r].pc \in Open /\ task[r].late

\* Nobody holds a row that a DELETE has.
DyingFree == \A x \in dying : Unlocked(x)

\* The redemptions of a coupon, those of a transaction under way included, keep
\* within its limits.
Seen(c, S) == {s \in Requests : <<c, s>> \in S}
FitsIn(c, R) ==
    /\ CouponRow[c].maxUses # Null => Cardinality(R) <= CouponRow[c].maxUses
    /\ CouponRow[c].single => \A s, u \in R :
         s # u /\ Contact(s) = Contact(u) => booking[s].corrected \/ booking[u].corrected
Counted == \A c \in Coupons :
    /\ FitsIn(c, Seen(c, redeemed))
    /\ \A r \in Requests : FitsIn(c, Seen(c, Redemptions(r)))

\* Of the rows that exist since before the page, those of the lists read so far
\* are on it, but for lists that were not there.
PageIsCurrent ==
    /\ view.before \subseteq born
    /\ view.step \in 0..5
    /\ view.step < 5 => view.prices = {}
    /\ \A j \in 1..3 : j < view.step =>
         view.before \cap Lists[j] \cap live \subseteq view.rows \cup view.lost

Inv ==
    /\ Typed
    /\ PricesRefer /\ FiltersRefer /\ CodesDiffer /\ RedemptionsRefer /\ RowsRefer
    /\ Answered /\ Waitlist /\ Handlers /\ CouponsHeldOnce /\ EventHeldOnce
    /\ PromotionHolds /\ DyingFree /\ Counted
    /\ DiscountIsCounted /\ PageIsCurrent /\ PageMissesOnlyNewRows

-----------------------------------------------------------------------------
(* Amounts of items and discounts.                                         *)

LEMMA SubtotalTyped == ASSUME NEW items \in Seq(Item) PROVE Subtotal(items) \in Nat
<1>1. DOMAIN items = 1..Len(items) /\ Len(items) \in Nat
  OBVIOUS
<1>2. IsFiniteSet(DOMAIN items)
  BY <1>1, FS_Interval
<1>3. \A i \in DOMAIN items : items[i].amount \in Nat
  <2>1. \A i \in DOMAIN items : items[i] \in Item
    BY <1>1
  <2> QED BY <2>1 DEF Item
<1> QED BY <1>2, <1>3, SubtotalIsNat

(***************************************************************************)
(* PercentMinor rounds to the nearest minor unit, half units up, and never *)
(* takes off more than there is.                                           *)
(***************************************************************************)
LEMMA PercentIsFair ==
    ASSUME NEW amount \in Nat, NEW percent \in 1..100
    PROVE  /\ PercentMinor(amount, percent) \in 0..amount
           /\ 100 * PercentMinor(amount, percent) - percent * amount \in -49..50
<1> DEFINE n == amount * percent
<1>1. n \in Nat /\ n = percent * amount
  OBVIOUS
<1>2. n <= 100 * amount
  <2>1. (100 - percent) \in Nat /\ amount * (100 - percent) \in Nat
    OBVIOUS
  <2>2. amount * (100 - percent) = 100 * amount - n
    OBVIOUS
  <2> HIDE DEF n
  <2> QED BY <2>1, <2>2, <1>1
<1>3. PercentMinor(amount, percent) = n \div 100 + IF n % 100 >= 50 THEN 1 ELSE 0
  BY DEF PercentMinor
<1> HIDE DEF n
<1> QED BY <1>1, <1>2, <1>3

(***************************************************************************)
(* A discount is a share of the subtotal, never more than all of it.       *)
(***************************************************************************)
LEMMA DiscountFair ==
    ASSUME NEW c, ValidCoupon(c), NEW sub \in Nat
    PROVE  /\ Discount(c, sub) \in 0..sub
           /\ c.type = "percental_reduce" => 100 * Discount(c, sub) - c.value * sub \in -49..50
           /\ c.type = "fixed_reduce" => Discount(c, sub) = c.value \/ Discount(c, sub) = sub
           /\ c.type = "guestlist" => Discount(c, sub) = sub
<1>1. CASE c.type = "percental_reduce"
  <2>1. c.value \in 1..100
    BY <1>1 DEF ValidCoupon
  <2>2. ComputeDiscount(c, sub) = PercentMinor(sub, c.value)
    BY <1>1 DEF ComputeDiscount
  <2>3. PercentMinor(sub, c.value) \in 0..sub
    BY <2>1, PercentIsFair
  <2>4. Discount(c, sub) = PercentMinor(sub, c.value)
    BY <2>2, <2>3 DEF Discount
  <2> QED BY <1>1, <2>1, <2>3, <2>4, PercentIsFair
<1>2. CASE c.type = "fixed_reduce"
  <2>1. c.value \in Nat
    BY <1>2 DEF ValidCoupon
  <2>2. ComputeDiscount(c, sub) = c.value
    BY <1>2 DEF ComputeDiscount
  <2> QED BY <1>2, <2>1, <2>2 DEF Discount
<1>3. CASE c.type = "guestlist"
  <2>1. ComputeDiscount(c, sub) = sub
    BY <1>3 DEF ComputeDiscount
  <2> QED BY <1>3, <2>1 DEF Discount
<1> QED BY <1>1, <1>2, <1>3 DEF ValidCoupon, Kinds

-----------------------------------------------------------------------------
(* A step of one handler.                                                  *)

\* What only commits, deletes and organizers change.
Steady == UNCHANGED <<plan, now, config, redeemed, booking, dying, touched, edits, view>>

LEMMA TaskStep ==
    ASSUME Inv, Steady, Typed', RowsRefer', Answered', Waitlist', Handlers',
           CouponsHeldOnce', EventHeldOnce', PromotionHolds', DyingFree', Counted'
    PROVE  Inv'
  BY DEF Inv, Steady, config, PricesRefer, FiltersRefer, CodesDiffer, RedemptionsRefer,
         DiscountIsCounted, PageIsCurrent, PageMissesOnlyNewRows

\* Those who share a transaction.
LEMMA MatesFacts ==
    ASSUME Typed, NEW r \in Requests, NEW s \in Requests
    PROVE  /\ r \in Mates(r) /\ Mates(r) \subseteq Requests
           /\ s \in Mates(r) => Mates(s) = Mates(r) /\ Tx(s) = Tx(r)
           /\ s \notin Mates(r) => r \notin Mates(s) /\ r # s
  BY DEF Typed, PromoType, Mates, Tx

LEMMA Names ==
    ASSUME NEW r \in Requests
    PROVE  /\ Promoter # r /\ Promoter # Null /\ r # Null /\ Tx(r) # Null
           /\ Tx(r) = Promoter <=> r \in promo.batch
           /\ r \notin Rows /\ Promoter \notin Rows /\ Null \notin Rows
  BY CheckoutAssumption, RowsAssumption, PricingAssumption DEF Tx, Rows

Becomes(r, k) ==
    /\ k \in TaskType
    /\ task' \in [Requests -> TaskType]
    /\ task'[r] = k
    /\ \A s \in Requests \ {r} : task'[s] = task[s]

LEMMA StepBecomes ==
    ASSUME Typed, NEW r \in Requests, NEW k \in TaskType, task' = [task EXCEPT ![r] = k]
    PROVE  Becomes(r, k)
  BY DEF Typed, Becomes

\* The event row is held from the count of the seats to the end of the transaction.
HoldsEvent(r, k) ==
    \/ /\ lock' = lock
       /\ lock = r => k.pc \in Open \ {"queued"}
       /\ Limited /\ k.pc \in Open => lock = Tx(r)
    \/ /\ lock = Null /\ k.pc = "admitted"
       /\ lock' = IF Limited THEN r ELSE lock

\* Nobody else holds its coupon, and no DELETE has a row that it names.
HoldsCoupons(r, k) ==
    /\ k.held # Null => /\ \A s \in Requests \ Mates(r) : task[s].held # k.held
                        /\ k.held \notin dying
    /\ k.pc \in {"inserted", "locked", "recorded"} =>
         (Named(k.items) \cup ({k.coupon} \ {Null})) \cap dying = {}

\* The waitlist rows are sound.
EntriesFit(rows, r, k) ==
    /\ rows \in [Requests -> EntryType]
    /\ \A s \in Requests :
          /\ rows[s].coupon \in live \cup {Null}
          /\ rows[s].status = "waiting" => Told(s, IF s = r THEN k ELSE task[s])
    /\ \A s \in promo.rows : rows[s].status = "waiting"

(***************************************************************************)
(* Nothing changes but the handler's own knowledge, its locks and the      *)
(* waitlist rows.                                                          *)
(***************************************************************************)
LEMMA RowStep ==
    ASSUME Inv, NEW r \in Requests, NEW k, Becomes(r, k), Steady, promo' = promo,
           NEW rows, EntriesFit(rows, r, k), entry' = rows, booking[r].status = "none",
           Sound(r, k), HoldsEvent(r, k), HoldsCoupons(r, k), Counted',
           r \in promo.batch => k.pc \in Open /\ k.late
    PROVE  Inv'
<1>1. Typed'
  <2>1. lock' \in Requests \cup {Promoter, Null}
    BY DEF Inv, Typed, HoldsEvent
  <2> QED BY <2>1 DEF Inv, Typed, Becomes, EntriesFit, Steady, config
<1>2. /\ live' = live /\ booking' = booking /\ dying' = dying /\ Limited' = Limited
      /\ \A s : Mates(s)' = Mates(s) /\ Tx(s)' = Tx(s)
  BY DEF Steady, config, Limited, Mates, Tx
<1>3. RowsRefer'
  BY <1>2 DEF Inv, RowsRefer, EntriesFit
<1>4. Answered'
  BY <1>2 DEF Inv, Answered, Becomes
<1>5. Waitlist'
  <2>1. \A s, t : Told(s, t) => Told(s, t)'
    BY <1>2 DEF Told
  <2>2. ASSUME NEW s \in Requests, rows[s].status = "waiting" PROVE Told(s, task[s])'
    <3>1. task'[s] = IF s = r THEN k ELSE task[s]
      BY DEF Becomes
    <3>2. Told(s, task'[s])
      BY <2>2, <3>1 DEF EntriesFit
    <3> QED BY <3>2, <1>2 DEF Told
  <2> QED BY <2>2 DEF Waitlist, Waiting
<1>6. Handlers'
  <2>1. \A s, t : Sound(s, t) => Sound(s, t)'
    BY <1>2 DEF Sound
  <2> QED BY <2>1 DEF Handlers, Becomes, Inv
<1>7. CouponsHeldOnce'
  <2>1. ASSUME NEW s \in Requests, NEW u \in Requests, u \notin Mates(s), task'[s].held # Null
        PROVE  task'[s].held # task'[u].held
    <3>1. s \notin Mates(u) /\ s # u
      BY <2>1, MatesFacts DEF Inv
    <3>2. CASE s = r
      BY <2>1, <3>1, <3>2 DEF Becomes, HoldsCoupons
    <3>3. CASE s # r /\ u = r
      BY <2>1, <3>1, <3>3 DEF Becomes, HoldsCoupons
    <3>4. CASE s # r /\ u # r
      BY <2>1, <3>4 DEF Becomes, Inv, CouponsHeldOnce
    <3> QED BY <3>2, <3>3, <3>4
  <2> QED BY <2>1, <1>2 DEF CouponsHeldOnce
<1>8. lock # lock' => lock = Null /\ lock' = r /\ Limited /\ k.pc = "admitted"
  BY DEF HoldsEvent
<1>9. lock # lock' => promo.pc \notin {"listing", "serving"} /\ promo.batch = {}
  BY <1>8, Names DEF Inv, PromotionHolds
<1>10. EventHeldOnce'
  <2>1. lock' # Null => Limited
    BY DEF HoldsEvent, Inv, EventHeldOnce
  <2>2. lock' \in Requests => task'[lock'].pc \in Open \ {"queued"} /\ lock' \notin promo.batch
    <3>1. CASE lock' = r
      BY <3>1, <1>8, <1>9 DEF HoldsEvent, Becomes, Open, Inv, EventHeldOnce
    <3>2. CASE lock' # r
      BY <3>2, <1>8 DEF Becomes, Inv, EventHeldOnce
    <3> QED BY <3>1, <3>2
  <2>3. ASSUME NEW s \in Requests, Limited, task'[s].pc \in Open PROVE lock' = Tx(s)
    <3>1. CASE s = r
      BY <3>1, <2>3, <1>9, Names DEF HoldsEvent, Becomes, Tx
    <3>2. CASE s # r
      BY <3>2, <2>3, <1>8, Names DEF Becomes, Inv, EventHeldOnce
    <3> QED BY <3>1, <3>2
  <2> QED BY <2>1, <2>2, <2>3, <1>2 DEF EventHeldOnce
<1>11. PromotionHolds'
  <2>1. lock' = Promoter <=> promo.pc \in {"listing", "serving"}
    BY <1>8, <1>9, Names DEF Inv, PromotionHolds
  <2>2. promo.rows \subseteq Waiting'
    BY DEF EntriesFit, Waiting, Inv, Typed, PromoType
  <2>3. \A s \in promo.batch : task'[s].pc \in Open /\ task'[s].late
    BY DEF Becomes, Inv, PromotionHolds, Typed, PromoType
  <2> QED BY <2>1, <2>2, <2>3, <1>2 DEF Inv, PromotionHolds
<1>12. DyingFree'
  <2>1. ASSUME NEW x \in dying, NEW s \in Requests PROVE x \notin Shares(s)' /\ task'[s].held # x
    <3>1. CASE s = r
      <4>1. x # Null
        BY Names DEF Inv, Typed
      <4> QED BY <3>1, <4>1
           DEF Becomes, HoldsCoupons, Shares, InTransaction, References
    <3>2. CASE s # r
      <4>1. x \notin Shares(s) /\ task[s].held # x
        BY DEF Inv, DyingFree, Unlocked
      <4> QED BY <3>2, <4>1 DEF Becomes, Shares, InTransaction, References
    <3> QED BY <3>1, <3>2
  <2> QED BY <2>1, <1>2 DEF DyingFree, Unlocked
<1> QED BY <1>1, <1>3, <1>4, <1>5, <1>6, <1>7, <1>10, <1>11, <1>12, TaskStep

\* What a step that neither commits nor redeems leaves to be counted.
LEMMA SameCounted ==
    ASSUME Inv, Steady, promo' = promo, NEW r \in Requests, NEW k, Becomes(r, k),
           ~task[r].redeems, ~k.redeems
    PROVE  Counted'
<1>1. /\ redeemed' = redeemed /\ booking' = booking
      /\ \A s : Mates(s)' = Mates(s)
  BY DEF Steady, Mates
<1>2. ASSUME NEW s \in Requests PROVE Redemptions(s)' = Redemptions(s)
  <2>1. \A m \in Mates(s) : /\ task'[m].redeems <=> task[m].redeems
                            /\ task[m].redeems => task'[m].held = task[m].held
    BY MatesFacts DEF Becomes, Inv
  <2> QED BY <1>1, <2>1 DEF Redemptions
<1>3. ASSUME NEW c \in Coupons
      PROVE  /\ FitsIn(c, Seen(c, redeemed))'
             /\ \A s \in Requests : FitsIn(c, Seen(c, Redemptions(s)))'
  <2>1. FitsIn(c, Seen(c, redeemed)) /\ Seen(c, redeemed)' = Seen(c, redeemed)
    BY <1>1 DEF Inv, Counted, Seen
  <2>2. ASSUME NEW s \in Requests
        PROVE  /\ FitsIn(c, Seen(c, Redemptions(s)))
               /\ Seen(c, Redemptions(s))' = Seen(c, Redemptions(s))
    BY <1>2 DEF Inv, Counted, Seen
  <2>3. FitsIn(c, Seen(c, redeemed))'
    BY <2>1, <1>1 DEF FitsIn, Contact, Email
  <2>4. ASSUME NEW s \in Requests PROVE FitsIn(c, Seen(c, Redemptions(s)))'
    BY <2>2, <1>1 DEF FitsIn, Contact, Email
  <2> QED BY <2>3, <2>4
<1> QED BY <1>3 DEF Counted

\* Only the handler's own knowledge and locks.
LEMMA HandlerStep ==
    ASSUME Inv, NEW r \in Requests, NEW k, Becomes(r, k), Steady, promo' = promo,
           entry' = entry, booking[r].status = "none",
           Sound(r, k), HoldsEvent(r, k), HoldsCoupons(r, k), Counted',
           r \in Waiting => Told(r, k),
           r \in promo.batch => k.pc \in Open /\ k.late
    PROVE  Inv'
<1>1. EntriesFit(entry, r, k)
  BY DEF Inv, Typed, RowsRefer, Waitlist, Waiting, PromotionHolds, EntriesFit
<1> QED BY <1>1, RowStep

LEMMA IdleTyped == Idle \in TaskType
<1>1. <<>> \in Seq(Item)
  OBVIOUS
<1>2. 0 \in Nat /\ 0 \in Int /\ "new" \in Steps /\ FALSE \in BOOLEAN
  BY DEF Steps
<1>3. Null \in Phases \cup {Null} /\ Null \in CouponRef
  BY DEF CouponRef
<1> QED BY <1>1, <1>2, <1>3, Zenon DEF Idle, TaskType

\* An answer that leaves nothing behind.
LEMMA AnsweredTyped ==
    ASSUME NEW pc \in Steps
    PROVE  LET k == [Idle EXCEPT !.pc = pc] IN
           /\ k \in TaskType /\ k.pc = pc /\ k.items = <<>>
           /\ k.coupon = Null /\ k.held = Null /\ ~k.redeems /\ ~k.late
<1> QED BY IdleTyped DEF Idle, TaskType

\* A handler that is not booked has left no booking.
LEMMA NotBooked ==
    ASSUME Inv, NEW r \in Requests, task[r].pc # "booked"
    PROVE  booking[r].status = "none" /\ ~booking[r].corrected
  BY DEF Inv, Answered

\* Nothing outside its transaction holds or redeems.
LEMMA OutsideTx ==
    ASSUME Inv, NEW r \in Requests, task[r].pc \notin Open
    PROVE  /\ task[r].held = Null /\ ~task[r].redeems /\ lock # r /\ r \notin promo.batch
           /\ task[r].pc \notin {"found", "called"} => ~task[r].late
  BY Names DEF Inv, Handlers, Sound, Open, EventHeldOnce, PromotionHolds

\* A read outside the transaction.
LEMMA ReadKeeps ==
    ASSUME Inv, NEW r \in Requests, task[r].pc \notin Open \cup {"booked", "waiting"},
           NEW k \in TaskType, task' = [task EXCEPT ![r] = k], Reads,
           k.pc \notin Open, k.held = Null, ~k.redeems, Sound(r, k)
    PROVE  Inv'
<1>1. Steady /\ entry' = entry /\ lock' = lock /\ promo' = promo
  BY DEF Reads, Steady, locks
<1>2. /\ ~task[r].redeems /\ lock # r /\ r \notin promo.batch
      /\ booking[r].status = "none" /\ r \notin Waiting
  BY OutsideTx, NotBooked DEF Inv, Waitlist, Told
<1>3. Becomes(r, k)
  BY StepBecomes DEF Inv
<1>4. HoldsEvent(r, k) /\ HoldsCoupons(r, k)
  BY <1>1, <1>2 DEF HoldsEvent, HoldsCoupons, Open
<1>5. Counted'
  BY <1>1, <1>2, <1>3, SameCounted
<1> QED BY <1>1, <1>2, <1>3, <1>4, <1>5, HandlerStep

\* A read outside the transaction that is answered with an error, or with what
\* was asked for.
LEMMA RefusalKeeps ==
    ASSUME Inv, NEW r \in Requests, task[r].pc \notin Open \cup {"booked", "waiting"},
           NEW pc \in {"failed", "shown"}, Answer(r, pc), Reads
    PROVE  Inv'
<1> DEFINE k == [Idle EXCEPT !.pc = pc]
<1>1. /\ k \in TaskType /\ k.pc = pc /\ k.coupon = Null /\ k.held = Null
      /\ ~k.redeems /\ ~k.late
  BY AnsweredTyped DEF Steps, Answers
<1>2. task' = [task EXCEPT ![r] = k]
  BY DEF Answer
<1> HIDE DEF k
<1>3. k.pc \notin Open /\ Sound(r, k)
  BY <1>1 DEF Sound, Open, Quoting
<1> QED BY <1>1, <1>2, <1>3, ReadKeeps

\* A query of a direct booking's quote.
LEMMA QuoteKeeps ==
    ASSUME Inv, NEW r \in Requests, task[r].pc \in Quoting \cup {"new"}, Submitted(r),
           NEW k \in TaskType, task' = [task EXCEPT ![r] = k], Reads,
           k.pc \in Quoting, k.held = task[r].held, k.late = task[r].late,
           k.redeems = task[r].redeems,
           k.pc = "pricing" => k.coupon = Null,
           k.pc \in {"checking", "filtering"} => k.coupon # Null,
           k.coupon # Null =>
             /\ Ask[r].code # Null /\ CouponRow[k.coupon].code = Ask[r].code
             /\ k.pc = "quoted" =>
                  k.discount = Discount(CouponRow[k.coupon], Subtotal(k.items))
    PROVE  Inv'
<1>1. task[r].pc \notin Open \cup {"booked", "waiting", "found", "called"}
  BY DEF Quoting, Open
<1>2. ~k.late /\ k.held = Null /\ ~k.redeems
  BY <1>1, OutsideTx
<1>3. k.pc \notin Open
  BY DEF Quoting, Open
<1>4. Sound(r, k)
  BY <1>2 DEF Sound, Quoting
<1> QED BY <1>1, <1>2, <1>3, <1>4, ReadKeeps

-----------------------------------------------------------------------------
(* pricing.Compute.                                                        *)

LEMMA GetActivePhaseKeeps ==
    ASSUME Inv, NEW r \in Requests, GetActivePhase(r) PROVE Inv'
<1>1. /\ task[r] \in TaskType /\ task[r].pc = "new" /\ task[r].coupon = Null
      /\ now \in Int /\ Reads /\ Submitted(r)
  BY DEF Inv, Typed, Handlers, Sound, GetActivePhase, Quoting
<1>2. CASE Answer(r, "failed")
  BY <1>1, <1>2, RefusalKeeps DEF Open
<1>3. ASSUME NEW p \in ActivePhases(live, now),
             task' = [task EXCEPT ![r].pc = "pricing", ![r].phase = p, ![r].when = now]
      PROVE  Inv'
  <2> DEFINE k == [task[r] EXCEPT !.pc = "pricing", !.phase = p, !.when = now]
  <2>1. p \in Phases
    BY DEF ActivePhases
  <2>2. k \in TaskType
    <3>1. "pricing" \in Steps /\ p \in Phases \cup {Null}
      BY <2>1 DEF Steps, Quoting
    <3> QED BY <1>1, <3>1, Zenon DEF TaskType
  <2>3. /\ k.pc = "pricing" /\ k.coupon = Null /\ k.held = task[r].held
        /\ k.late = task[r].late /\ k.redeems = task[r].redeems
    BY <1>1 DEF TaskType
  <2>4. task' = [task EXCEPT ![r] = k]
    BY <1>3
  <2> HIDE DEF k
  <2> QED BY <1>1, <2>2, <2>3, <2>4, QuoteKeeps DEF Quoting
<1> QED BY <1>2, <1>3 DEF GetActivePhase

LEMMA GetPriceKeeps ==
    ASSUME Inv, NEW r \in Requests, GetPrice(r) PROVE Inv'
<1>1. /\ task[r] \in TaskType /\ task[r].pc = "pricing" /\ task[r].coupon = Null
      /\ Reads /\ Submitted(r)
  BY DEF Inv, Typed, Handlers, Sound, GetPrice, Quoting
<1>2. CASE Answer(r, "failed")
  BY <1>1, <1>2, RefusalKeeps DEF Open
<1>3. ASSUME NEW row \in prices,
             task' = [task EXCEPT ![r].items = Append(@,
                       [phase |-> row.phase, category |-> row.category,
                        duration |-> row.duration, amount |-> row.amount])]
      PROVE  Inv'
  <2> DEFINE item == [phase |-> row.phase, category |-> row.category,
                      duration |-> row.duration, amount |-> row.amount]
             k == [task[r] EXCEPT !.items = Append(task[r].items, item)]
  <2>1. item \in Item
    <3>1. row \in PriceType
      BY DEF Inv, Typed
    <3> QED BY <3>1 DEF PriceType, Item
  <2>2. k \in TaskType
    <3>1. Append(task[r].items, item) \in Seq(Item)
      <4>1. task[r].items \in Seq(Item)
        BY <1>1 DEF TaskType
      <4> HIDE DEF item
      <4> QED BY <4>1, <2>1
    <3> HIDE DEF item
    <3> QED BY <1>1, <3>1, Zenon DEF TaskType
  <2>3. /\ k.pc = "pricing" /\ k.coupon = Null /\ k.held = task[r].held
        /\ k.late = task[r].late /\ k.redeems = task[r].redeems
    BY <1>1 DEF TaskType
  <2>4. task' = [task EXCEPT ![r] = k]
    BY <1>3
  <2> HIDE DEF k
  <2> QED BY <1>1, <2>2, <2>3, <2>4, QuoteKeeps DEF Quoting
<1> QED BY <1>2, <1>3 DEF GetPrice, PricesFor

LEMMA PriceDonationKeeps ==
    ASSUME Inv, NEW r \in Requests, PriceDonation(r) PROVE Inv'
<1>1. /\ task[r] \in TaskType /\ task[r].pc = "new" /\ task[r].coupon = Null
      /\ now \in Int /\ Reads /\ Submitted(r)
  BY DEF Inv, Typed, Handlers, Sound, PriceDonation, Quoting
<1>2. CASE Answer(r, "failed")
  BY <1>1, <1>2, RefusalKeeps DEF Open
<1> DEFINE gift(sel) == IF sel.amount # Null THEN sel.amount ELSE donation.suggested
           gifts == [i \in DOMAIN Ask[r].selections |->
                       [phase |-> Null, category |-> Null, duration |-> Null,
                        amount |-> gift(Ask[r].selections[i])]]
<1>3. ASSUME donation # Null,
             task' = [task EXCEPT ![r].pc = "pricing", ![r].items = gifts, ![r].when = now]
      PROVE  Inv'
  <2> DEFINE k == [task[r] EXCEPT !.pc = "pricing", !.items = gifts, !.when = now]
  <2>1. gifts \in Seq(Item)
    <3> DEFINE Sel == [category : Categories, duration : Durations \cup {Null},
                       amount : Nat \cup {Null}]
    <3>1. donation.suggested \in Nat
      BY <1>3 DEF Inv, Typed, DonationType
    <3>2. Ask[r].selections \in Seq(Sel)
      BY CheckoutAssumption
    <3>3. \A i \in DOMAIN Ask[r].selections : Ask[r].selections[i] \in Sel
      <4> HIDE DEF Sel
      <4> QED BY <3>2
    <3>4. \A i \in DOMAIN Ask[r].selections : gift(Ask[r].selections[i]) \in Nat
      BY <3>1, <3>3
    <3>5. DOMAIN Ask[r].selections = 1..Len(Ask[r].selections) /\ Len(Ask[r].selections) \in Nat
      <4> HIDE DEF Sel
      <4> QED BY <3>2
    <3>6. gifts \in [1..Len(Ask[r].selections) -> Item]
      <4> HIDE DEF gift
      <4> QED BY <3>4, <3>5 DEF Item
    <3> HIDE DEF gifts
    <3> QED BY <3>5, <3>6
  <2>2. k \in TaskType
    <3>1. "pricing" \in Steps
      BY DEF Steps, Quoting
    <3> HIDE DEF gifts
    <3> QED BY <1>1, <2>1, <3>1, Zenon DEF TaskType
  <2>3. /\ k.pc = "pricing" /\ k.coupon = Null /\ k.held = task[r].held
        /\ k.late = task[r].late /\ k.redeems = task[r].redeems
    BY <1>1 DEF TaskType
  <2>4. task' = [task EXCEPT ![r] = k]
    <3> HIDE DEF gifts
    <3> QED BY <1>3
  <2> HIDE DEF k
  <2> QED BY <1>1, <2>2, <2>3, <2>4, QuoteKeeps DEF Quoting
<1> QED BY <1>2, <1>3 DEF PriceDonation

\* Only the step of the handler changes.
LEMMA GotoTyped ==
    ASSUME Typed, NEW r \in Requests, NEW pc \in Steps, Goto(r, pc)
    PROVE  \E k \in TaskType :
             /\ task' = [task EXCEPT ![r] = k]
             /\ k.pc = pc /\ k.items = task[r].items /\ k.coupon = task[r].coupon
             /\ k.discount = task[r].discount /\ k.held = task[r].held
             /\ k.redeems = task[r].redeems /\ k.late = task[r].late
<1> DEFINE k == [task[r] EXCEPT !.pc = pc]
<1>1. task[r] \in TaskType
  BY DEF Typed
<1>2. k \in TaskType
  BY <1>1, Zenon DEF TaskType
<1>3. /\ k.pc = pc /\ k.items = task[r].items /\ k.coupon = task[r].coupon
      /\ k.discount = task[r].discount /\ k.held = task[r].held
      /\ k.redeems = task[r].redeems /\ k.late = task[r].late
  BY <1>1 DEF TaskType
<1>4. task' = [task EXCEPT ![r] = k]
  BY DEF Goto
<1> HIDE DEF k
<1> QED BY <1>2, <1>3, <1>4

LEMMA NoCouponKeeps ==
    ASSUME Inv, NEW r \in Requests, NoCoupon(r) PROVE Inv'
<1>1. /\ task[r].pc = "pricing" /\ task[r].coupon = Null /\ Reads /\ Submitted(r)
      /\ Goto(r, "quoted")
  BY DEF Inv, Handlers, Sound, NoCoupon, Priced, Quoting
<1>2. PICK k \in TaskType :
        /\ task' = [task EXCEPT ![r] = k]
        /\ k.pc = "quoted" /\ k.coupon = Null /\ k.held = task[r].held
        /\ k.redeems = task[r].redeems /\ k.late = task[r].late
  <2>1. "quoted" \in Steps
    BY DEF Steps, Quoting
  <2> QED BY <1>1, <2>1, GotoTyped DEF Inv
<1> QED BY <1>1, <1>2, QuoteKeeps DEF Quoting

LEMMA GetCouponKeeps ==
    ASSUME Inv, NEW r \in Requests, GetCoupon(r) PROVE Inv'
<1>1. /\ task[r] \in TaskType /\ task[r].pc = "pricing" /\ Ask[r].code # Null
      /\ Reads /\ Submitted(r)
  BY DEF Inv, Typed, Handlers, Sound, GetCoupon, Priced, Quoting
<1>2. CASE Answer(r, "failed")
  BY <1>1, <1>2, RefusalKeeps DEF Open
<1>3. ASSUME NEW c \in CouponsWith(Ask[r].code),
             task' = [task EXCEPT ![r].pc = "checking", ![r].coupon = c]
      PROVE  Inv'
  <2> DEFINE k == [task[r] EXCEPT !.pc = "checking", !.coupon = c]
  <2>1. c \in Coupons /\ c # Null /\ CouponRow[c].code = Ask[r].code
    BY PricingAssumption DEF CouponsWith
  <2>2. k \in TaskType
    <3>1. "checking" \in Steps /\ c \in CouponRef
      BY <2>1 DEF Steps, Quoting, CouponRef
    <3> QED BY <1>1, <3>1, Zenon DEF TaskType
  <2>3. /\ k.pc = "checking" /\ k.coupon = c /\ k.held = task[r].held
        /\ k.late = task[r].late /\ k.redeems = task[r].redeems
    BY <1>1 DEF TaskType
  <2>4. task' = [task EXCEPT ![r] = k]
    BY <1>3
  <2> HIDE DEF k
  <2> QED BY <1>1, <2>1, <2>2, <2>3, <2>4, QuoteKeeps DEF Quoting
<1> QED BY <1>2, <1>3 DEF GetCoupon

\* A handler that checks a coupon has one, with the code that was sent.
LEMMA CodeSent ==
    ASSUME Inv, NEW r \in Requests, task[r].pc \in Quoting, task[r].coupon # Null
    PROVE  /\ Ask[r].code # Null /\ CouponRow[task[r].coupon].code = Ask[r].code
           /\ task[r].coupon \in Coupons
  BY OutsideTx DEF Inv, Typed, Handlers, Sound, TaskType, CouponRef, Quoting, Open

LEMMA CheckUsesKeeps ==
    ASSUME Inv, NEW r \in Requests, CheckUses(r) PROVE Inv'
<1>1. /\ task[r].pc = "checking" /\ Reads /\ Submitted(r)
      /\ task[r].coupon # Null
  BY DEF Inv, Handlers, Sound, CheckUses, Quoting
<1>2. CASE Answer(r, "failed")
  BY <1>1, <1>2, RefusalKeeps DEF Open
<1>3. CASE Goto(r, "filtering")
  <2>1. PICK k \in TaskType :
          /\ task' = [task EXCEPT ![r] = k]
          /\ k.pc = "filtering" /\ k.coupon = task[r].coupon /\ k.held = task[r].held
          /\ k.redeems = task[r].redeems /\ k.late = task[r].late
    <3>1. "filtering" \in Steps
      BY DEF Steps, Quoting
    <3> QED BY <1>3, <3>1, GotoTyped DEF Inv
  <2> QED BY <1>1, <2>1, CodeSent, QuoteKeeps DEF Quoting
<1> QED BY <1>2, <1>3 DEF CheckUses

LEMMA ShowQuoteKeeps ==
    ASSUME Inv, NEW r \in Requests, ShowQuote(r) PROVE Inv'
  BY RefusalKeeps DEF ShowQuote, Open

LEMMA CheckFiltersKeeps ==
    ASSUME Inv, NEW r \in Requests, CheckFilters(r) PROVE Inv'
<1>1. /\ task[r] \in TaskType /\ task[r].pc = "filtering" /\ task[r].coupon # Null
      /\ Reads /\ Submitted(r)
  BY DEF Inv, Typed, Handlers, Sound, CheckFilters, Quoting
<1>2. CASE Answer(r, "failed")
  BY <1>1, <1>2, RefusalKeeps DEF Open
<1> DEFINE off == Discount(CouponRow[task[r].coupon], Subtotal(task[r].items))
<1>3. ASSUME task' = [task EXCEPT ![r].pc = "quoted", ![r].discount = off]
      PROVE  Inv'
  <2> DEFINE k == [task[r] EXCEPT !.pc = "quoted", !.discount = off]
  <2>1. off \in Nat
    <3>1. Subtotal(task[r].items) \in Nat
      BY <1>1, SubtotalTyped DEF TaskType
    <3>2. ValidCoupon(CouponRow[task[r].coupon])
      BY <1>1, CodeSent, PricingAssumption DEF Quoting
    <3> QED BY <3>1, <3>2, DiscountFair
  <2> HIDE DEF off
  <2>2. k \in TaskType
    <3>1. "quoted" \in Steps
      BY DEF Steps, Quoting
    <3> QED BY <1>1, <2>1, <3>1, Zenon DEF TaskType
  <2>3. /\ k.pc = "quoted" /\ k.coupon = task[r].coupon /\ k.held = task[r].held
        /\ k.late = task[r].late /\ k.redeems = task[r].redeems
        /\ k.items = task[r].items /\ k.discount = off
    BY <1>1 DEF TaskType
  <2>4. task' = [task EXCEPT ![r] = k]
    BY <1>3
  <2> HIDE DEF k
  <2>5. k.discount = Discount(CouponRow[k.coupon], Subtotal(k.items))
    BY <2>3 DEF off
  <2> QED BY <1>1, <2>2, <2>3, <2>4, <2>5, CodeSent, QuoteKeeps DEF Quoting
<1> QED BY <1>2, <1>3 DEF CheckFilters, Coupon

LEMMA ReadEventKeeps ==
    ASSUME Inv, NEW r \in Requests, ReadEvent(r) PROVE Inv'
<1>1. /\ task[r].pc = "found" /\ Reads /\ ~task[r].redeems /\ task[r].held = Null
      /\ task[r].late /\ Limited
  BY OutsideTx DEF ReadEvent, Open, Inv, Handlers, Sound
<1>2. CASE Answer(r, "shown")
  BY <1>1, <1>2, RefusalKeeps DEF Open
<1>3. CASE Goto(r, "called")
  <2>1. PICK k \in TaskType :
          /\ task' = [task EXCEPT ![r] = k]
          /\ k.pc = "called" /\ k.coupon = task[r].coupon /\ k.held = task[r].held
          /\ k.redeems = task[r].redeems /\ k.late = task[r].late
    <3>1. "called" \in Steps
      BY DEF Steps
    <3> QED BY <1>3, <3>1, GotoTyped DEF Inv
  <2>2. Sound(r, k)
    BY <1>1, <2>1 DEF Sound, Open, Quoting
  <2> QED BY <1>1, <2>1, <2>2, ReadKeeps DEF Open
<1> QED BY <1>2, <1>3 DEF ReadEvent

LEMMA ComputeKeeps ==
    ASSUME Inv, NEW r \in Requests, Compute(r) PROVE Inv'
  BY GetActivePhaseKeeps, GetPriceKeeps, PriceDonationKeeps, NoCouponKeeps, GetCouponKeeps,
     CheckUsesKeeps, CheckFiltersKeeps, ReadEventKeeps DEF Compute

\* What is read of a waitlist row.
LEMMA FrozenTyped ==
    ASSUME Typed, NEW r \in Requests, NEW pc \in Steps
    PROVE  LET k == Frozen(r, pc) IN
           /\ k \in TaskType /\ k.pc = pc /\ k.late /\ k.held = Null /\ ~k.redeems
           /\ k.coupon = entry[r].coupon /\ k.items = entry[r].items
<1> DEFINE k == [Idle EXCEPT !.pc = pc, !.late = TRUE, !.items = entry[r].items,
                             !.coupon = entry[r].coupon, !.discount = entry[r].discount]
<1>1. /\ entry[r].items \in Seq(Item) /\ entry[r].coupon \in CouponRef
      /\ entry[r].discount \in Nat /\ TRUE \in BOOLEAN
  BY DEF Typed, EntryType
<1>2. k \in TaskType
  BY <1>1, IdleTyped, Zenon DEF TaskType
<1>3. /\ k.pc = pc /\ k.late /\ k.held = Null /\ ~k.redeems
      /\ k.coupon = entry[r].coupon /\ k.items = entry[r].items
  BY DEF Idle
<1>4. Frozen(r, pc) = k
  BY DEF Frozen
<1> HIDE DEF k
<1> QED BY <1>2, <1>3, <1>4

LEMMA ReadEntryKeeps ==
    ASSUME Inv, NEW r \in Requests, ReadEntry(r) PROVE Inv'
<1> DEFINE k == Frozen(RowOf[r], "found")
<1>1. /\ task[r].pc = "new" /\ Reads /\ task' = [task EXCEPT ![r] = k] /\ Limited
      /\ RowOf[r] \in Requests
  BY CheckoutAssumption DEF ReadEntry, Inv, Waitlist, Waiting, Told
<1>2. /\ k \in TaskType /\ k.pc = "found" /\ k.late /\ k.held = Null /\ ~k.redeems
  BY <1>1, FrozenTyped DEF Inv, Steps
<1> HIDE DEF k
<1>3. Sound(r, k)
  BY <1>1, <1>2 DEF Sound, Open, Quoting
<1> QED BY <1>1, <1>2, <1>3, ReadKeeps DEF Open

-----------------------------------------------------------------------------
(* The transactions.                                                       *)

\* A step within a transaction.
LEMMA WithinTx ==
    ASSUME Inv, NEW r \in Requests, task[r].pc \in Open,
           NEW k \in TaskType, task' = [task EXCEPT ![r] = k], Steady,
           UNCHANGED <<entry, lock, promo>>,
           k.pc \in Open \ {"queued"}, k.late = task[r].late,
           Sound(r, k), HoldsCoupons(r, k), Counted'
    PROVE  Inv'
<1>1. Becomes(r, k) /\ booking[r].status = "none"
  BY StepBecomes, NotBooked DEF Inv, Open
<1>2. HoldsEvent(r, k)
  BY DEF HoldsEvent, Inv, EventHeldOnce
<1>3. r \in Waiting => Told(r, k)
  BY DEF Inv, Waitlist, Told, Open
<1>4. r \in promo.batch => k.pc \in Open /\ k.late
  BY DEF Inv, PromotionHolds
<1> QED BY <1>1, <1>2, <1>3, <1>4, HandlerStep

\* It enters or goes on with nothing held.
LEMMA Enters ==
    ASSUME Inv, NEW r \in Requests,
           task[r].pc \notin {"booked", "queued", "inserted", "locked", "recorded"},
           r \notin promo.batch,
           NEW k \in TaskType, task' = [task EXCEPT ![r] = k], Steady, entry' = entry,
           promo' = promo, lock = Null, lock' = IF Limited THEN r ELSE lock,
           k.pc = "admitted", k.held = Null, ~k.redeems, Sound(r, k),
           r \in Waiting => k.late
    PROVE  Inv'
<1>1. Becomes(r, k) /\ booking[r].status = "none"
  BY StepBecomes, NotBooked DEF Inv
<1>2. HoldsEvent(r, k) /\ HoldsCoupons(r, k)
  BY DEF HoldsEvent, HoldsCoupons
<1>3. ~task[r].redeems
  BY DEF Inv, Handlers, Sound
<1>4. Counted'
  BY <1>1, <1>3, SameCounted
<1>5. r \in Waiting => Told(r, k)
  BY DEF Inv, Waitlist, Told, Open
<1> QED BY <1>1, <1>2, <1>4, <1>5, HandlerStep

LEMMA AdmitKeeps ==
    ASSUME Inv, NEW r \in Requests, Admit(r) PROVE Inv'
<1>1. /\ task[r].pc = "quoted" /\ Steady /\ entry' = entry /\ promo' = promo
      /\ Goto(r, "admitted") /\ lock' = IF Limited THEN r ELSE lock
      /\ Limited => lock = Null
  BY DEF Admit, LockFree, Uncommitted, Steady
<1>2. lock = Null
  BY <1>1 DEF Inv, EventHeldOnce
<1>3. PICK k \in TaskType :
        /\ task' = [task EXCEPT ![r] = k]
        /\ k.pc = "admitted" /\ k.items = task[r].items /\ k.coupon = task[r].coupon
        /\ k.discount = task[r].discount /\ k.held = task[r].held
        /\ k.redeems = task[r].redeems /\ k.late = task[r].late
  <2>1. "admitted" \in Steps
    BY DEF Steps, Open
  <2> QED BY <1>1, <2>1, GotoTyped DEF Inv
<1>4. ~k.late /\ k.held = Null /\ ~k.redeems /\ r \notin promo.batch
  BY <1>1, <1>3, OutsideTx DEF Open
<1>5. Sound(r, task[r])
  BY DEF Inv, Handlers
<1>6. Sound(r, k)
  BY <1>1, <1>3, <1>4, <1>5 DEF Sound, Open, Quoting
<1>7. r \notin Waiting
  BY <1>1 DEF Inv, Waitlist, Told, Open
<1> QED BY <1>1, <1>2, <1>3, <1>4, <1>6, <1>7, Enters

LEMMA ClaimKeeps ==
    ASSUME Inv, NEW r \in Requests, Claim(r) PROVE Inv'
<1> DEFINE k == Frozen(r, "admitted")
<1>1. /\ task[r].pc = "waiting" /\ Steady /\ entry' = entry /\ promo' = promo
      /\ task' = [task EXCEPT ![r] = k] /\ lock' = r /\ lock = Null /\ Limited
  BY DEF Claim, LockFree, Uncommitted, Steady, Inv, Waitlist, Waiting, Told
<1>2. /\ k \in TaskType /\ k.pc = "admitted" /\ k.late /\ k.held = Null /\ ~k.redeems
  BY FrozenTyped DEF Inv, Steps, Open
<1> HIDE DEF k
<1>3. Sound(r, k) /\ r \notin promo.batch
  BY <1>1, <1>2, OutsideTx DEF Sound, Open, Quoting
<1> QED BY <1>1, <1>2, <1>3, Enters

LEMMA LockEventKeeps ==
    ASSUME Inv, NEW r \in Requests, LockEvent(r) PROVE Inv'
<1>1. /\ task[r].pc = "called" /\ Steady /\ entry' = entry /\ promo' = promo
      /\ Goto(r, "admitted") /\ lock' = r /\ lock = Null
      /\ task[r].late /\ Limited /\ r \notin promo.batch
      /\ task[r].held = Null /\ ~task[r].redeems
  BY OutsideTx DEF LockEvent, LockFree, Uncommitted, Steady, Inv, Handlers, Sound, Open
<1>2. PICK k \in TaskType :
        /\ task' = [task EXCEPT ![r] = k]
        /\ k.pc = "admitted" /\ k.held = Null /\ ~k.redeems /\ k.late
  <2>1. "admitted" \in Steps
    BY DEF Steps, Open
  <2> QED BY <1>1, <2>1, GotoTyped DEF Inv
<1>3. Sound(r, k)
  BY <1>1, <1>2 DEF Sound, Open, Quoting
<1> QED BY <1>1, <1>2, <1>3, Enters

LEMMA TurnKeeps ==
    ASSUME Inv, NEW r \in Requests, Turn(r) PROVE Inv'
<1>1. /\ task[r].pc = "queued" /\ task[r].pc \in Open /\ Steady
      /\ UNCHANGED <<entry, lock, promo>> /\ Goto(r, "admitted")
      /\ task[r].late /\ Limited /\ task[r].held = Null /\ ~task[r].redeems
  BY DEF Turn, Reads, locks, Steady, Inv, Handlers, Sound, Open
<1>2. PICK k \in TaskType :
        /\ task' = [task EXCEPT ![r] = k]
        /\ k.pc = "admitted" /\ k.held = Null /\ ~k.redeems /\ k.late
  <2>1. "admitted" \in Steps
    BY DEF Steps, Open
  <2> QED BY <1>1, <2>1, GotoTyped DEF Inv
<1>3. Sound(r, k) /\ HoldsCoupons(r, k)
  BY <1>1, <1>2 DEF Sound, Open, Quoting, HoldsCoupons
<1>4. Counted'
  BY <1>1, <1>2, StepBecomes, SameCounted DEF Inv
<1> QED BY <1>1, <1>2, <1>3, <1>4, WithinTx DEF Open

\* The contact of a booking changes only as a correction.
ContactsStay == \A s \in Requests :
    /\ Contact(s)' = Contact(s) \/ booking'[s].corrected
    /\ booking[s].corrected => booking'[s].corrected

(***************************************************************************)
(* Fewer redemptions keep within the limits too.                           *)
(***************************************************************************)
LEMMA FitsLess ==
    ASSUME NEW c \in Coupons, NEW R, R \subseteq Requests, FitsIn(c, R), ContactsStay,
           NEW T, T \subseteq R
    PROVE  FitsIn(c, T)'
<1>1. CouponRow[c].maxUses \in Nat \cup {Null}
  BY PricingAssumption DEF ValidCoupon
<1>2. Cardinality(T) <= Cardinality(R) /\ Cardinality(T) \in Nat /\ Cardinality(R) \in Nat
  BY CheckoutAssumption, FS_Subset, FS_CardinalityType
<1>3. CouponRow[c].maxUses # Null => Cardinality(T) <= CouponRow[c].maxUses
  BY <1>1, <1>2 DEF FitsIn
<1>4. ASSUME CouponRow[c].single, NEW s \in T, NEW u \in T, s # u, Contact(s)' = Contact(u)'
      PROVE  booking'[s].corrected \/ booking'[u].corrected
  <2>1. CASE Contact(s) = Contact(u)
    BY <1>4, <2>1 DEF FitsIn, ContactsStay
  <2>2. CASE Contact(s) # Contact(u)
    BY <1>4, <2>2 DEF ContactsStay
  <2> QED BY <2>1, <2>2
<1> QED BY <1>3, <1>4 DEF FitsIn

LEMMA CountedLess ==
    ASSUME Inv, ContactsStay, redeemed' \subseteq redeemed,
           \A r \in Requests : Redemptions(r)' \subseteq Redemptions(r)
    PROVE  Counted'
<1>1. ASSUME NEW c \in Coupons PROVE FitsIn(c, Seen(c, redeemed))'
  <2>1. /\ Seen(c, redeemed)' \subseteq Seen(c, redeemed) /\ FitsIn(c, Seen(c, redeemed))
        /\ Seen(c, redeemed) \subseteq Requests
    BY DEF Seen, Inv, Counted
  <2> QED BY <2>1, FitsLess DEF FitsIn
<1>2. ASSUME NEW c \in Coupons, NEW r \in Requests
      PROVE  FitsIn(c, Seen(c, Redemptions(r)))'
  <2>1. /\ Seen(c, Redemptions(r))' \subseteq Seen(c, Redemptions(r))
        /\ FitsIn(c, Seen(c, Redemptions(r))) /\ Seen(c, Redemptions(r)) \subseteq Requests
    BY DEF Seen, Inv, Counted
  <2> QED BY <2>1, FitsLess DEF FitsIn
<1> QED BY <1>1, <1>2 DEF Counted

\* The transaction of one request, or of a promotion, and whom it serves.
Serves(tx, R) ==
    \/ tx = Promoter /\ R = promo.batch
    \/ /\ tx \in Requests \ promo.batch /\ R = {tx}
       /\ task[tx].pc \notin {"booked", "waiting"}

Rested(t) == /\ t \in TaskType /\ t.pc \in Answers
             /\ t.coupon = Null /\ t.held = Null /\ ~t.redeems /\ ~t.late

(***************************************************************************)
(* What the end of a transaction leaves of the handlers and locks.         *)
(***************************************************************************)
LEMMA TransactionEnds ==
    ASSUME Inv, NEW tx, NEW R, Serves(tx, R), Release(tx),
           UNCHANGED <<plan, live, dying>>, promo'.rows \subseteq Waiting',
           task' \in [Requests -> TaskType],
           \A s \in R : Rested(task'[s]),
           \A s \in Requests \ R : task'[s] = task[s]
    PROVE  /\ R \subseteq Requests /\ \A s \in R : task[s].pc # "booked"
           /\ lock' \in Requests \cup {Promoter, Null} /\ promo' \in PromoType
           /\ \A s \in Requests \ R : Mates(s)' = Mates(s) /\ Mates(s) \cap R = {}
           /\ \A s \in R : Mates(s)' = {s}
           /\ Handlers' /\ CouponsHeldOnce' /\ EventHeldOnce' /\ PromotionHolds' /\ DyingFree'
<1>1. R \subseteq Requests /\ \A s \in R : task[s].pc # "booked"
  BY DEF Serves, Inv, Typed, PromoType, PromotionHolds, Open
<1>2. lock' \in Requests \cup {Promoter, Null}
  BY DEF Release, Inv, Typed
<1>3. promo' \in PromoType
  BY DEF Release, Inv, Typed, NoPromo, PromoType, Modes
<1>4. Promoter \notin Requests
  BY RowsAssumption
<1>5. promo'.batch = IF tx = Promoter THEN {} ELSE promo.batch
  BY DEF Release, NoPromo
<1>6. ASSUME NEW s \in Requests \ R
      PROVE  Mates(s)' = Mates(s) /\ Mates(s) \cap R = {} /\ Tx(s)' = Tx(s) /\ Tx(s) # tx
  BY <1>4, <1>5 DEF Serves, Mates, Tx
<1>7. ASSUME NEW s \in R PROVE Mates(s)' = {s}
  BY <1>4, <1>5, <1>7 DEF Serves, Mates
<1>8. Limited' = Limited
  BY DEF Limited
<1>9. Handlers'
  <2>1. \A s, t : Sound(s, t) => Sound(s, t)'
    BY <1>8 DEF Sound
  <2>2. \A s \in R : Sound(s, task'[s])
    BY DEF Rested, Sound, Answers, Open, Quoting
  <2> QED BY <2>1, <2>2 DEF Handlers, Inv
<1>10. CouponsHeldOnce'
  <2>1. ASSUME NEW s \in Requests, NEW u \in Requests, u \notin Mates(s)', task'[s].held # Null
        PROVE  task'[s].held # task'[u].held
    <3>1. s \notin R /\ task'[s] = task[s] /\ u \notin Mates(s)
      BY <2>1, <1>6 DEF Rested
    <3>2. CASE u \in R
      BY <2>1, <3>2 DEF Rested
    <3>3. CASE u \notin R
      BY <2>1, <3>1, <3>3 DEF Inv, CouponsHeldOnce
    <3> QED BY <3>2, <3>3
  <2> QED BY <2>1 DEF CouponsHeldOnce
<1>11. EventHeldOnce'
  <2>1. lock' # Null => Limited
    BY DEF Release, Inv, EventHeldOnce
  <2>2. ASSUME lock' \in Requests
        PROVE  task'[lock'].pc \in Open \ {"queued"} /\ lock' \notin promo'.batch
    <3>1. lock' = lock /\ lock # tx
      BY <2>2, CheckoutAssumption DEF Release
    <3>2. lock \notin promo.batch /\ task[lock].pc \in Open \ {"queued"}
      BY <2>2, <3>1 DEF Inv, EventHeldOnce
    <3>3. lock \notin R
      BY <3>1, <3>2 DEF Serves
    <3> QED BY <2>2, <3>1, <3>2, <3>3, <1>5
  <2>3. ASSUME NEW s \in Requests, Limited, task'[s].pc \in Open PROVE lock' = Tx(s)'
    <3>1. s \notin R
      BY <2>3 DEF Rested, Open, Answers
    <3>2. lock = Tx(s)
      BY <2>3, <3>1 DEF Inv, EventHeldOnce
    <3> QED BY <3>1, <3>2, <1>6 DEF Release
  <2> QED BY <2>1, <2>2, <2>3, <1>8 DEF EventHeldOnce
<1>12. PromotionHolds'
  <2>1. CASE tx = Promoter
    BY <2>1, <1>8, RowsAssumption DEF Release, NoPromo, PromotionHolds
  <2>2. CASE tx # Promoter
    <3>1. promo' = promo /\ tx \in Requests /\ R = {tx} /\ tx \notin promo.batch
      BY <2>2 DEF Release, Serves
    <3>2. lock' = Promoter <=> lock = Promoter
      BY <3>1, <1>4, RowsAssumption DEF Release
    <3>3. \A s \in promo.batch : task'[s] = task[s]
      BY <3>1 DEF Inv, Typed, PromoType
    <3> QED BY <3>1, <3>2, <3>3, <1>8 DEF Inv, PromotionHolds
  <2> QED BY <2>1, <2>2
<1>13. DyingFree'
  <2>1. ASSUME NEW x \in dying, NEW s \in Requests PROVE x \notin Shares(s)' /\ task'[s].held # x
    <3>1. CASE s \in R
      <4>1. x # Null
        BY Names DEF Inv, Typed
      <4> QED BY <3>1, <4>1 DEF Rested, Shares, InTransaction, Answers
    <3>2. CASE s \notin R
      <4>1. x \notin Shares(s) /\ task[s].held # x
        BY DEF Inv, DyingFree, Unlocked
      <4> QED BY <3>2, <4>1 DEF Shares, InTransaction, References
    <3> QED BY <3>1, <3>2
  <2> QED BY <2>1 DEF DyingFree, Unlocked
<1> QED BY <1>1, <1>2, <1>3, <1>6, <1>7, <1>9, <1>10, <1>11, <1>12, <1>13

\* A rollback leaves the waitlist rows as they were.
LEMMA UndoKeeps ==
    ASSUME Inv, NEW tx, NEW R, Serves(tx, R), Release(tx), task' = Undone(R),
           Steady, entry' = entry
    PROVE  Inv'
<1>1. /\ UNCHANGED <<plan, live, dying, redeemed, booking>> /\ Limited' = Limited
  BY DEF Steady, config, Limited
<1> DEFINE k(s) == [Idle EXCEPT !.pc =
                      IF task[s].late /\ Submitted(s) THEN "waiting" ELSE "failed"]
<1>2. ASSUME NEW s \in Requests
      PROVE  /\ Rested(k(s))
             /\ k(s).pc = IF task[s].late /\ Submitted(s) THEN "waiting" ELSE "failed"
  <2> DEFINE pc == IF task[s].late /\ Submitted(s) THEN "waiting" ELSE "failed"
  <2>1. pc \in Steps /\ pc \in Answers
    BY DEF Steps, Answers
  <2> HIDE DEF pc
  <2>2. Rested([Idle EXCEPT !.pc = pc]) /\ [Idle EXCEPT !.pc = pc].pc = pc
    BY <2>1, AnsweredTyped DEF Rested
  <2> QED BY <2>2 DEF pc
<1>3. \A s \in Requests : task'[s] = IF s \in R THEN k(s) ELSE task[s]
  BY DEF Undone
<1>4. task' \in [Requests -> TaskType]
  <2>1. task' = [s \in Requests |-> IF s \in R THEN k(s) ELSE task[s]]
    BY DEF Undone
  <2> HIDE DEF k
  <2> QED BY <2>1, <1>2 DEF Inv, Typed, Rested
<1> HIDE DEF k
<1>5. promo'.rows \subseteq Waiting'
  BY DEF Release, NoPromo, Waiting, Inv, PromotionHolds
<1>6. R \subseteq Requests
  BY DEF Serves, Inv, Typed, PromoType
<1>7. /\ \A s \in R : task[s].pc # "booked"
      /\ lock' \in Requests \cup {Promoter, Null} /\ promo' \in PromoType
      /\ \A s \in Requests \ R : Mates(s)' = Mates(s) /\ Mates(s) \cap R = {}
      /\ \A s \in R : Mates(s)' = {s}
      /\ Handlers' /\ CouponsHeldOnce' /\ EventHeldOnce' /\ PromotionHolds' /\ DyingFree'
  BY <1>1, <1>2, <1>3, <1>4, <1>5, <1>6, TransactionEnds
<1>8. Typed'
  BY <1>4, <1>7 DEF Inv, Typed, Steady, config
<1>9. RowsRefer'
  BY <1>1 DEF Inv, RowsRefer
<1>10. Answered'
  BY <1>1, <1>3, <1>6, <1>7 DEF Inv, Answered
<1>11. Waitlist'
  <2>1. ASSUME NEW s \in Waiting PROVE Told(s, task'[s])
    <3>1. s \in Requests /\ Told(s, task[s])
      BY DEF Inv, Waitlist, Waiting
    <3>2. CASE s \in R
      <4>1. task[s].late
        BY <3>1, <3>2 DEF Told, Serves, Inv, PromotionHolds
      <4> QED BY <3>1, <3>2, <4>1, <1>2, <1>3 DEF Told
    <3> QED BY <3>1, <3>2, <1>3
  <2> QED BY <2>1, <1>1 DEF Waitlist, Told, Waiting
<1>12. Counted'
  <2>1. ContactsStay
    BY <1>1 DEF ContactsStay, Contact, Email
  <2>2. ASSUME NEW s \in Requests PROVE Redemptions(s)' \subseteq Redemptions(s)
    <3>1. CASE s \in R
      <4>1. ~task'[s].redeems
        BY <3>1, <1>2, <1>3 DEF Rested
      <4> QED BY <3>1, <4>1, <1>1, <1>7 DEF Redemptions
    <3>2. CASE s \notin R
      <4>1. \A m \in Mates(s) : m \in Requests /\ task'[m] = task[m]
        BY <3>2, <1>3, <1>7, MatesFacts DEF Inv
      <4> QED BY <3>2, <4>1, <1>1, <1>7 DEF Redemptions
    <3> QED BY <3>1, <3>2
  <2> QED BY <2>1, <2>2, <1>1, CountedLess
<1> QED BY <1>7, <1>8, <1>9, <1>10, <1>11, <1>12, TaskStep

LEMMA FailKeeps ==
    ASSUME Inv, NEW r \in Requests, task[r].pc \notin {"booked", "waiting"}, Fail(r),
           Steady, entry' = entry
    PROVE  Inv'
<1>1. Serves(Tx(r), Mates(r))
  BY DEF Serves, Tx, Mates
<1> QED BY <1>1, UndoKeeps DEF Fail

\* What a transaction names stays while it is under way.
LEMMA NamesStay ==
    ASSUME Inv, NEW r \in Requests, InTransaction(r)
    PROVE  (Named(task[r].items) \cup ({task[r].coupon} \ {Null})) \cap dying = {}
  BY DEF Inv, DyingFree, Unlocked, Shares, References

LEMMA InsertKeeps ==
    ASSUME Inv, NEW r \in Requests, Insert(r) PROVE Inv'
<1>1. /\ task[r].pc = "admitted" /\ task[r].pc \in Open /\ Steady /\ entry' = entry
      /\ Sound(r, task[r]) /\ References(r) \cap dying = {}
      /\ task[r].held = Null /\ ~task[r].redeems
  BY DEF Inv, Handlers, Sound, Insert, Open, Uncommitted, Steady
<1>2. CASE Fail(r)
  BY <1>1, <1>2, FailKeeps
<1>3. ASSUME NEW pc \in {"recorded", "inserted"}, Goto(r, pc), UNCHANGED <<lock, promo>>,
             pc = "recorded" => Code(r) = Null, References(r) \subseteq live
      PROVE  Inv'
  <2>1. PICK k \in TaskType :
          /\ task' = [task EXCEPT ![r] = k]
          /\ k.pc = pc /\ k.coupon = task[r].coupon /\ k.held = task[r].held
          /\ k.items = task[r].items /\ k.redeems = task[r].redeems /\ k.late = task[r].late
    <3>1. pc \in Steps
      BY DEF Steps, Open
    <3> QED BY <1>3, <3>1, GotoTyped DEF Inv
  <2>2. k.held = Null /\ ~k.redeems
    BY <1>1, <2>1
  <2>3. k.coupon \in live \cup {Null}
    BY <1>3, <2>1 DEF References
  <2>4. ~k.late /\ k.coupon # Null =>
          pc = "inserted" /\ Ask[r].code # Null /\ CouponRow[k.coupon].code = Ask[r].code
    BY <1>1, <1>3, <2>1 DEF Sound, Code
  <2>5. k.late => Limited
    BY <1>1, <2>1 DEF Sound
  <2>6. Sound(r, k)
    BY <2>1, <2>2, <2>3, <2>4, <2>5 DEF Sound, Open, Quoting
  <2>7. HoldsCoupons(r, k)
    BY <1>1, <2>1, <2>2 DEF HoldsCoupons, References
  <2>8. Counted'
    BY <1>1, <1>3, <2>1, <2>2, StepBecomes, SameCounted DEF Inv
  <2> QED BY <1>1, <1>3, <2>1, <2>6, <2>7, <2>8, WithinTx DEF Open
<1> QED BY <1>2, <1>3 DEF Insert

\* Inside the transaction the coupon of a direct booking is the one its code finds.
LEMMA OneCoupon ==
    ASSUME Inv, NEW r \in Requests, task[r].pc = "inserted", NEW c \in CouponsWith(Code(r)),
           ~task[r].late, task[r].coupon # Null
    PROVE  c = task[r].coupon
<1>1. task[r].coupon \in live \cap Coupons /\ CouponRow[task[r].coupon].code = Ask[r].code
  BY DEF Inv, Typed, Handlers, Sound, TaskType, CouponRef
<1>2. c \in live \cap Coupons /\ CouponRow[c].code = Ask[r].code
  BY DEF CouponsWith, Code
<1> QED BY <1>1, <1>2 DEF Inv, CodesDiffer

LEMMA LockCouponKeeps ==
    ASSUME Inv, NEW r \in Requests, LockCoupon(r) PROVE Inv'
<1>1. /\ task[r].pc = "inserted" /\ task[r].pc \in Open /\ Sound(r, task[r])
      /\ task[r] \in TaskType /\ Steady /\ UNCHANGED <<entry, lock, promo>>
      /\ task[r].held = Null /\ ~task[r].redeems
  BY DEF Inv, Typed, Handlers, Sound, LockCoupon, Open, Reads, Steady, locks
<1>2. (Named(task[r].items) \cup ({task[r].coupon} \ {Null})) \cap dying = {}
  BY <1>1, NamesStay DEF InTransaction
<1>3. ASSUME NEW c \in CouponsWith(Code(r)), Lockable(c, r),
             task' = [task EXCEPT ![r].pc = "locked", ![r].held = c]
      PROVE  Inv'
  <2> DEFINE k == [task[r] EXCEPT !.pc = "locked", !.held = c]
  <2>1. c \in live /\ c \in Coupons /\ c # Null
    BY PricingAssumption DEF CouponsWith
  <2>2. k \in TaskType
    <3>1. "locked" \in Steps /\ c \in CouponRef
      BY <2>1 DEF Steps, Open, CouponRef
    <3> QED BY <1>1, <3>1, Zenon DEF TaskType
  <2>3. /\ k.pc = "locked" /\ k.held = c /\ k.coupon = task[r].coupon
        /\ k.items = task[r].items
        /\ k.late = task[r].late /\ k.redeems = task[r].redeems
    BY <1>1 DEF TaskType
  <2>4. task' = [task EXCEPT ![r] = k]
    BY <1>3
  <2> HIDE DEF k
  <2>5. ~k.late /\ k.coupon # Null => c = k.coupon
    BY <1>1, <2>3, OneCoupon
  <2>6. Sound(r, k)
    BY <1>1, <2>1, <2>3, <2>5 DEF Sound, Open, Quoting
  <2>7. HoldsCoupons(r, k)
    BY <1>2, <1>3, <2>3 DEF HoldsCoupons, Lockable
  <2>8. Counted'
    BY <1>1, <2>2, <2>3, <2>4, StepBecomes, SameCounted DEF Inv
  <2> QED BY <1>1, <2>2, <2>3, <2>4, <2>6, <2>7, <2>8, WithinTx DEF Open
<1>4. ASSUME task[r].late, Goto(r, "recorded") PROVE Inv'
  <2>1. PICK k \in TaskType :
          /\ task' = [task EXCEPT ![r] = k]
          /\ k.pc = "recorded" /\ k.coupon = task[r].coupon /\ k.held = task[r].held
          /\ k.items = task[r].items /\ k.redeems = task[r].redeems /\ k.late = task[r].late
    <3>1. "recorded" \in Steps
      BY DEF Steps, Open
    <3> QED BY <1>4, <3>1, GotoTyped DEF Inv
  <2>2. Sound(r, k)
    BY <1>1, <1>4, <2>1 DEF Sound, Open, Quoting
  <2>3. HoldsCoupons(r, k)
    BY <1>1, <1>2, <2>1 DEF HoldsCoupons
  <2>4. Counted'
    BY <1>1, <2>1, StepBecomes, SameCounted DEF Inv
  <2> QED BY <1>1, <2>1, <2>2, <2>3, <2>4, WithinTx DEF Open
<1> QED BY <1>3, <1>4 DEF LockCoupon

(***************************************************************************)
(* A redemption that was found to fit under the lock fits with those that  *)
(* the transaction made before.                                            *)
(***************************************************************************)
LEMMA RedeemableFits ==
    ASSUME Inv, NEW c \in Coupons, NEW r \in Requests, booking[r].status = "none",
           Redeemable(c, r)
    PROVE  FitsIn(c, Seen(c, Redemptions(r)) \cup {r})
<1> DEFINE R == Seen(c, Redemptions(r))
           Own == {s \in Requests : <<c, s>> \in Redemptions(r) /\ Contact(s) = Email(r)}
<1>1. FitsIn(c, R)
  BY DEF Inv, Counted
<1>2. R \subseteq Requests /\ IsFiniteSet(R) /\ IsFiniteSet(Own)
  BY CheckoutAssumption, FS_Subset DEF Seen
<1>3. CouponRow[c].maxUses # Null => Cardinality(R) < CouponRow[c].maxUses
  BY DEF Redeemable, UsesLeft, Uses, Seen
<1>4. CouponRow[c].single => \A s \in R : Contact(s) # Email(r)
  <2>1. CouponRow[c].single => Cardinality(Own) = 0
    BY DEF Redeemable, UsesOf
  <2> HIDE DEF Own
  <2>2. CouponRow[c].single => Own = {}
    BY <1>2, <2>1, FS_EmptySet
  <2> QED BY <2>2 DEF Own, Seen
<1>5. Contact(r) = Email(r)
  BY DEF Contact
<1> HIDE DEF R
<1>6. CouponRow[c].maxUses # Null => Cardinality(R \cup {r}) <= CouponRow[c].maxUses
  <2>1. CouponRow[c].maxUses \in Nat \cup {Null}
    BY PricingAssumption DEF ValidCoupon
  <2>2. /\ Cardinality(R) \in Nat
        /\ Cardinality(R \cup {r}) = IF r \in R THEN Cardinality(R) ELSE Cardinality(R) + 1
    <3>1. Cardinality(R) \in Nat
      BY <1>2, FS_CardinalityType
    <3>2. Cardinality(R \cup {r}) = IF r \in R THEN Cardinality(R) ELSE Cardinality(R) + 1
      BY <1>2, FS_AddElement
    <3> QED BY <3>1, <3>2
  <2> QED BY <1>3, <2>1, <2>2
<1>7. CouponRow[c].single => \A s, u \in R \cup {r} :
        s # u /\ Contact(s) = Contact(u) => booking[s].corrected \/ booking[u].corrected
  BY <1>1, <1>4, <1>5 DEF FitsIn
<1> QED BY <1>6, <1>7 DEF FitsIn, R

\* The redemption joins those that its transaction sees, and no others.
LEMMA RedeemCounts ==
    ASSUME Inv, NEW r \in Requests, NEW k, Becomes(r, k), Steady, promo' = promo,
           booking[r].status = "none", ~task[r].redeems, k.redeems,
           k.held = task[r].held, k.held \in Coupons, Redeemable(k.held, r)
    PROVE  Counted'
<1>1. /\ redeemed' = redeemed /\ booking' = booking /\ \A s : Mates(s)' = Mates(s)
  BY DEF Steady, Mates
<1>2. ContactsStay
  BY <1>1 DEF ContactsStay, Contact, Email
<1>3. ASSUME NEW s \in Requests
      PROVE  IF s \in Mates(r)
               THEN Redemptions(s)' = Redemptions(r) \cup {<<k.held, r>>}
               ELSE Redemptions(s)' = Redemptions(s)
  <2>1. CASE s \in Mates(r)
    <3>1. Mates(s) = Mates(r) /\ r \in Mates(r) /\ Mates(r) \subseteq Requests
      BY <2>1, MatesFacts DEF Inv
    <3>2. \A m \in Mates(r) \ {r} : task'[m] = task[m]
      BY <3>1 DEF Becomes
    <3>3. task'[r].redeems /\ task'[r].held = k.held
      BY DEF Becomes
    <3>4. \A x : x \in Redemptions(s)' <=> x \in Redemptions(r) \/ x = <<k.held, r>>
      BY <1>1, <3>1, <3>2, <3>3 DEF Redemptions
    <3> QED BY <2>1, <3>4
  <2>2. CASE s \notin Mates(r)
    <3>1. r \notin Mates(s) /\ Mates(s) \subseteq Requests
      BY <2>2, MatesFacts DEF Inv
    <3>2. \A m \in Mates(s) : task'[m] = task[m]
      BY <3>1 DEF Becomes
    <3>3. Redemptions(s)' = Redemptions(s)
      BY <1>1, <3>2 DEF Redemptions
    <3> QED BY <2>2, <3>3
  <2> QED BY <2>1, <2>2
<1>4. ASSUME NEW c \in Coupons PROVE FitsIn(c, Seen(c, redeemed))'
  <2>1. /\ Seen(c, redeemed)' = Seen(c, redeemed) /\ FitsIn(c, Seen(c, redeemed))
        /\ Seen(c, redeemed) \subseteq Requests
    BY <1>1 DEF Seen, Inv, Counted
  <2> QED BY <1>2, <2>1, FitsLess DEF FitsIn
<1>5. ASSUME NEW c \in Coupons, NEW s \in Requests
      PROVE  FitsIn(c, Seen(c, Redemptions(s)))'
  <2>1. \A R : R \subseteq Requests /\ FitsIn(c, R) /\ Seen(c, Redemptions(s))' \subseteq R
                 => FitsIn(c, Seen(c, Redemptions(s)))'
    BY <1>2, FitsLess DEF FitsIn
  <2>2. \A u \in Requests : /\ FitsIn(c, Seen(c, Redemptions(u)))
                            /\ Seen(c, Redemptions(u)) \subseteq Requests
    BY DEF Inv, Counted, Seen
  <2>3. CASE s \notin Mates(r)
    <3>1. Seen(c, Redemptions(s))' = Seen(c, Redemptions(s))
      BY <1>3, <2>3 DEF Seen
    <3> QED BY <2>1, <2>2, <3>1
  <2>4. CASE s \in Mates(r) /\ c # k.held
    <3>1. Seen(c, Redemptions(s))' = Seen(c, Redemptions(r))
      BY <1>3, <2>4 DEF Seen
    <3> QED BY <2>1, <2>2, <3>1
  <2>5. CASE s \in Mates(r) /\ c = k.held
    <3>1. Seen(c, Redemptions(s))' = Seen(c, Redemptions(r)) \cup {r}
      BY <1>3, <2>5 DEF Seen
    <3>2. FitsIn(c, Seen(c, Redemptions(r)) \cup {r})
      BY <2>5, RedeemableFits
    <3> QED BY <2>1, <2>2, <3>1, <3>2
  <2> QED BY <2>3, <2>4, <2>5
<1> QED BY <1>4, <1>5 DEF Counted

LEMMA RedeemKeeps ==
    ASSUME Inv, NEW r \in Requests, Redeem(r) PROVE Inv'
<1>1. /\ task[r].pc = "locked" /\ task[r].pc \in Open /\ Sound(r, task[r])
      /\ task[r] \in TaskType /\ Steady /\ entry' = entry /\ ~task[r].redeems
      /\ booking[r].status = "none" /\ task[r].held \in Coupons
  BY NotBooked DEF Inv, Typed, Handlers, Sound, Redeem, Open, Uncommitted, Steady, TaskType,
                   CouponRef
<1> DEFINE ok == Redeemable(task[r].held, r)
<1>2. CASE Fail(r)
  BY <1>1, <1>2, FailKeeps
<1>3. ASSUME ok \/ task[r].late, UNCHANGED <<lock, promo>>,
             task' = [task EXCEPT ![r].pc = "recorded", ![r].redeems = ok]
      PROVE  Inv'
  <2> DEFINE k == [task[r] EXCEPT !.pc = "recorded", !.redeems = ok]
  <2>1. ok \in BOOLEAN
    BY DEF Redeemable
  <2> HIDE DEF ok
  <2>2. k \in TaskType
    <3>1. "recorded" \in Steps
      BY DEF Steps, Open
    <3> QED BY <1>1, <2>1, <3>1, Zenon DEF TaskType
  <2>3. /\ k.pc = "recorded" /\ k.held = task[r].held /\ k.coupon = task[r].coupon
        /\ k.items = task[r].items /\ k.late = task[r].late /\ k.redeems = ok
    BY <1>1 DEF TaskType
  <2>4. task' = [task EXCEPT ![r] = k]
    BY <1>3
  <2> HIDE DEF k
  <2>5. Sound(r, k)
    BY <1>1, <1>3, <2>3 DEF Sound, Open, Quoting
  <2>6. HoldsCoupons(r, k)
    <3>1. (Named(task[r].items) \cup ({task[r].coupon} \ {Null})) \cap dying = {}
      BY <1>1, NamesStay DEF InTransaction
    <3>2. /\ \A s \in Requests \ Mates(r) : task[s].held # task[r].held
          /\ task[r].held \notin dying
      <4>1. task[r].held # Null
        BY <1>1 DEF Sound
      <4> QED BY <4>1 DEF Inv, CouponsHeldOnce, DyingFree, Unlocked
    <3> QED BY <2>3, <3>1, <3>2 DEF HoldsCoupons
  <2>7. Becomes(r, k)
    BY <2>2, <2>4, StepBecomes DEF Inv
  <2>8. Counted'
    <3>1. CASE ok
      BY <1>1, <1>3, <2>3, <2>7, <3>1, RedeemCounts DEF ok
    <3>2. CASE ~ok
      BY <1>1, <1>3, <2>3, <2>7, <3>2, SameCounted
    <3> QED BY <3>1, <3>2
  <2> QED BY <1>1, <1>3, <2>2, <2>3, <2>4, <2>5, <2>6, <2>8, WithinTx DEF Open
<1> QED BY <1>2, <1>3 DEF Redeem

LEMMA AbortKeeps ==
    ASSUME Inv, NEW r \in Requests, Abort(r) PROVE Inv'
<1>1. task[r].pc = "inserted" /\ Fail(r) /\ Steady /\ entry' = entry
  BY DEF Abort, Deadlocked, Blocks, Uncommitted, Steady
<1> QED BY <1>1, FailKeeps

LEMMA JoinKeeps ==
    ASSUME Inv, NEW r \in Requests, Join(r) PROVE Inv'
<1>1. /\ task[r] \in TaskType /\ task[r].pc = "quoted" /\ task[r].pc \notin Open
      /\ Limited /\ lock = Null /\ Steady /\ Submitted(r)
      /\ booking[r].status = "none" /\ ~task[r].redeems /\ r \notin promo.batch
  BY NotBooked, OutsideTx
     DEF Inv, Typed, Join, LockFree, Open, Steady, Handlers, Sound, Quoting
<1>2. CASE Fail(r) /\ UNCHANGED entry
  BY <1>1, <1>2, FailKeeps
<1> DEFINE row == [status |-> "waiting", coupon |-> task[r].coupon, items |-> task[r].items,
                   discount |-> task[r].discount,
                   code |-> IF task[r].coupon = Null THEN Null ELSE Coupon(r).code]
<1>3. ASSUME task[r].coupon \in live \cup {Null}, entry' = [entry EXCEPT ![r] = row],
             Answer(r, "waiting"), UNCHANGED <<lock, promo>>
      PROVE  Inv'
  <2> DEFINE rows == [entry EXCEPT ![r] = row]
             k == [Idle EXCEPT !.pc = "waiting"]
  <2>1. row \in EntryType
    <3>1. /\ task[r].coupon \in CouponRef /\ task[r].items \in Seq(Item)
          /\ task[r].discount \in Nat
      BY <1>1 DEF TaskType
    <3>2. (IF task[r].coupon = Null THEN Null ELSE Coupon(r).code) \in Codes
      BY <3>1 DEF Codes, CouponRef, Coupon
    <3> QED BY <3>1, <3>2 DEF EntryType
  <2>2. row.coupon = task[r].coupon /\ row.status = "waiting"
    OBVIOUS
  <2> HIDE DEF row
  <2>3. /\ k \in TaskType /\ k.pc = "waiting" /\ k.coupon = Null /\ k.held = Null
        /\ ~k.redeems /\ ~k.late
    <3>1. "waiting" \in Steps
      BY DEF Steps, Answers
    <3> QED BY <3>1, AnsweredTyped
  <2>4. Becomes(r, k)
    BY <1>3, <2>3, StepBecomes DEF Inv, Answer
  <2> HIDE DEF k
  <2>5. EntriesFit(rows, r, k)
    <3>1. entry \in [Requests -> EntryType]
      BY DEF Inv, Typed
    <3>2. \A s \in Requests : rows[s] = IF s = r THEN row ELSE entry[s]
      BY <3>1
    <3>3. rows \in [Requests -> EntryType]
      BY <2>1, <3>1
    <3>4. promo.rows \subseteq Requests
      BY DEF Inv, Typed, PromoType
    <3> HIDE DEF rows
    <3>5. \A s \in Requests : rows[s].coupon \in live \cup {Null}
      BY <1>3, <2>2, <3>2 DEF Inv, RowsRefer
    <3>6. \A s \in Requests :
            rows[s].status = "waiting" => Told(s, IF s = r THEN k ELSE task[s])
      BY <1>1, <2>3, <3>2 DEF Inv, Waitlist, Waiting, Told
    <3>7. \A s \in promo.rows : rows[s].status = "waiting"
      BY <2>2, <3>2, <3>4 DEF Inv, PromotionHolds, Waiting
    <3> QED BY <3>3, <3>5, <3>6, <3>7 DEF EntriesFit
  <2>6. entry' = rows
    BY <1>3
  <2> HIDE DEF rows
  <2>7. Sound(r, k) /\ HoldsEvent(r, k) /\ HoldsCoupons(r, k)
    BY <1>1, <1>3, <2>3, Names DEF Sound, HoldsEvent, HoldsCoupons, Open, Quoting
  <2>8. Counted'
    BY <1>1, <1>3, <2>3, <2>4, SameCounted
  <2> QED BY <1>1, <1>3, <2>3, <2>4, <2>5, <2>6, <2>7, <2>8, RowStep
<1> QED BY <1>2, <1>3 DEF Join

\* A transaction commits for all whom it serves.
LEMMA CommitFacts ==
    ASSUME Inv, NEW r \in Requests, Commit(r)
    PROVE  /\ Mates(r) \subseteq Requests
           /\ \A s \in Mates(r) :
                /\ task[s].pc = "recorded" /\ Sound(s, task[s]) /\ task[s] \in TaskType
                /\ booking[s].status = "none" /\ ~booking[s].corrected
                /\ booking'[s].status = "active" /\ booking'[s].email = Email(s)
                /\ booking'[s].coupon = task[s].coupon /\ booking'[s].late = task[s].late
                /\ Rested(task'[s]) /\ task'[s].pc = "booked"
                /\ task[s].late => entry'[RowOf[s]].status # "waiting"
           /\ \A s \in Requests \ Mates(r) : booking'[s] = booking[s] /\ task'[s] = task[s]
           /\ task' \in [Requests -> TaskType] /\ booking' \in [Requests -> BookingType]
           /\ entry' \in [Requests -> EntryType]
           /\ \A s \in Requests :
                /\ entry'[s].coupon = entry[s].coupon
                /\ entry'[s].status = "waiting" => entry[s].status = "waiting"
           /\ (\A s \in Mates(r) : ~task[s].late) => entry' = entry
<1> DEFINE R == Mates(r)
           served == {RowOf[s] : s \in {m \in R : task[m].late}}
           done == [Idle EXCEPT !.pc = "booked"]
           filled(s) == [entry[s] EXCEPT !.status = "fulfilled"]
<1>1. R \subseteq Requests
  BY MatesFacts DEF Inv
<1>2. /\ \A s \in R : task[s].pc = "recorded"
      /\ booking' = [s \in Requests |-> IF s \in R THEN Booked(task[s], s) ELSE booking[s]]
      /\ entry' = [s \in Requests |-> IF s \in served THEN filled(s) ELSE entry[s]]
      /\ task' = [s \in Requests |-> IF s \in R THEN done ELSE task[s]]
  BY DEF Commit
<1>3. Rested(done) /\ done.pc = "booked"
  BY AnsweredTyped DEF Rested, Steps, Answers
<1>4. ASSUME NEW s \in R
      PROVE  /\ task[s].pc = "recorded" /\ Sound(s, task[s]) /\ task[s] \in TaskType
             /\ booking[s].status = "none" /\ ~booking[s].corrected
             /\ Booked(task[s], s) \in BookingType
             /\ Booked(task[s], s).status = "active" /\ Booked(task[s], s).email = Email(s)
             /\ Booked(task[s], s).coupon = task[s].coupon
             /\ Booked(task[s], s).late = task[s].late
  <2>1. /\ task[s].pc = "recorded" /\ Sound(s, task[s]) /\ task[s] \in TaskType
    BY <1>1, <1>2 DEF Inv, Handlers, Typed
  <2>2. booking[s].status = "none" /\ ~booking[s].corrected
    BY <1>1, <2>1, NotBooked
  <2>3. Email(s) \in Addresses
    BY <1>1 DEF Email, Addresses
  <2>4. Booked(task[s], s) \in BookingType
    BY <2>1, <2>3 DEF Booked, TaskType, BookingType
  <2>5. /\ Booked(task[s], s).status = "active" /\ Booked(task[s], s).email = Email(s)
        /\ Booked(task[s], s).coupon = task[s].coupon
        /\ Booked(task[s], s).late = task[s].late
    BY DEF Booked
  <2> QED BY <2>1, <2>2, <2>4, <2>5
<1>5. ASSUME NEW s \in Requests
      PROVE  /\ filled(s) \in EntryType /\ entry[s] \in EntryType
             /\ filled(s).coupon = entry[s].coupon /\ filled(s).status = "fulfilled"
  <2>1. entry[s] \in EntryType
    BY DEF Inv, Typed
  <2>2. filled(s) \in EntryType
    BY <2>1, Zenon DEF EntryType
  <2> QED BY <2>1, <2>2 DEF EntryType
<1> HIDE DEF done, filled
<1>6. /\ \A s \in R : /\ booking'[s] = Booked(task[s], s)
                      /\ Rested(task'[s]) /\ task'[s].pc = "booked"
      /\ \A s \in Requests \ R : booking'[s] = booking[s] /\ task'[s] = task[s]
  BY <1>1, <1>2, <1>3
<1>7. task' \in [Requests -> TaskType] /\ booking' \in [Requests -> BookingType]
  BY <1>1, <1>2, <1>3, <1>4 DEF Inv, Typed, Rested
<1>8. /\ entry' \in [Requests -> EntryType]
      /\ \A s \in Requests :
           /\ entry'[s].coupon = entry[s].coupon
           /\ entry'[s].status = "waiting" => entry[s].status = "waiting"
           /\ s \in served => entry'[s].status = "fulfilled"
  BY <1>2, <1>5
<1>9. \A s \in R : task[s].late => entry'[RowOf[s]].status # "waiting"
  <2>1. \A s \in R : RowOf[s] \in Requests
    BY <1>1, CheckoutAssumption
  <2> QED BY <1>8, <2>1
<1>10. (\A s \in R : ~task[s].late) => entry' = entry
  <2>1. (\A s \in R : ~task[s].late) => served = {}
    OBVIOUS
  <2>2. entry = [s \in Requests |-> entry[s]]
    BY DEF Inv, Typed
  <2> QED BY <1>2, <2>1, <2>2
<1> HIDE DEF served
<1> QED BY <1>1, <1>4, <1>6, <1>7, <1>8, <1>9, <1>10

\* The redemptions are written with the bookings.
LEMMA CommitRedeems ==
    ASSUME Inv, NEW r \in Requests, Commit(r)
    PROVE  /\ redeemed' = Redemptions(r) /\ redeemed \subseteq redeemed'
           /\ redeemed' \subseteq Coupons \X Requests
           /\ \A s \in Mates(r) : task[s].redeems => <<task[s].held, s>> \in redeemed'
           /\ \A x \in redeemed' :
                x \in redeemed \/ (x[1] \in live /\ x[2] \in Mates(r) /\ x[1] = task[x[2]].held)
<1>1. redeemed' = Redemptions(r)
  BY DEF Commit
<1>2. \A s \in Mates(r) : task[s].redeems =>
        /\ task[s].held \in Coupons /\ task[s].held \in live /\ s \in Requests
  BY CommitFacts DEF Sound, TaskType, CouponRef
<1>3. redeemed' \subseteq Coupons \X Requests
  BY <1>1, <1>2 DEF Redemptions, Inv, Typed
<1>4. ASSUME NEW x \in redeemed'
      PROVE  x \in redeemed \/ (x[1] \in live /\ x[2] \in Mates(r) /\ x[1] = task[x[2]].held)
  <2>1. CASE x \notin redeemed
    <3>1. x \in Redemptions(r)
      BY <1>1
    <3>2. PICK s \in Mates(r) : task[s].redeems /\ x = <<task[s].held, s>>
      BY <2>1, <3>1 DEF Redemptions
    <3>3. x[1] = task[s].held /\ x[2] = s
      BY <3>2
    <3> QED BY <1>2, <3>2, <3>3
  <2> QED BY <2>1
<1> QED BY <1>1, <1>3, <1>4 DEF Redemptions

LEMMA CommitEnds ==
    ASSUME Inv, NEW r \in Requests, Commit(r)
    PROVE  /\ lock' \in Requests \cup {Promoter, Null} /\ promo' \in PromoType
           /\ \A s \in Requests \ Mates(r) : Mates(s)' = Mates(s) /\ Mates(s) \cap Mates(r) = {}
           /\ \A s \in Mates(r) : Mates(s)' = {s}
           /\ Handlers' /\ CouponsHeldOnce' /\ EventHeldOnce' /\ PromotionHolds' /\ DyingFree'
<1>1. Release(Tx(r)) /\ UNCHANGED <<plan, live, dying>>
  BY DEF Commit, config
<1>2. Serves(Tx(r), Mates(r))
  BY CommitFacts, MatesFacts DEF Inv, Serves, Tx, Mates
<1>3. promo'.rows \subseteq Waiting'
  <2>1. CASE r \in promo.batch
    BY <1>1, <2>1 DEF Release, Tx, NoPromo
  <2>2. CASE r \notin promo.batch
    <3>1. promo' = promo /\ Mates(r) = {r}
      BY <1>1, <2>2, Names DEF Release, Tx, Mates
    <3>2. CASE task[r].late
      <4>1. Limited /\ task[r].pc \in Open
        BY <3>1, <3>2, CommitFacts DEF Sound, Open
      <4>2. lock = r
        BY <4>1, <2>2 DEF Inv, EventHeldOnce, Tx
      <4>3. promo.rows = {}
        BY <4>2, Names DEF Inv, PromotionHolds
      <4> QED BY <3>1, <4>3
    <3>3. CASE ~task[r].late
      <4>1. entry' = entry
        BY <3>1, <3>3, CommitFacts
      <4> QED BY <3>1, <4>1 DEF Inv, PromotionHolds, Waiting
    <3> QED BY <3>2, <3>3
  <2> QED BY <2>1, <2>2
<1> QED BY <1>1, <1>2, <1>3, CommitFacts, TransactionEnds

(***************************************************************************)
(* Another transaction that redeems a coupon holds it, so that nobody who  *)
(* commits redeemed the same.                                              *)
(***************************************************************************)
LEMMA CommitCounts ==
    ASSUME Inv, NEW r \in Requests, Commit(r)
    PROVE  Counted'
<1>1. ContactsStay
  BY CommitFacts DEF ContactsStay, Contact, Email
<1>2. \A s \in Requests : \A m \in Mates(s) : m \in Requests
  BY MatesFacts DEF Inv
<1>3. ASSUME NEW c \in Coupons, NEW T, NEW u \in Requests,
             T \subseteq Seen(c, Redemptions(u))
      PROVE  FitsIn(c, T)'
  <2>1. FitsIn(c, Seen(c, Redemptions(u))) /\ Seen(c, Redemptions(u)) \subseteq Requests
    BY DEF Inv, Counted, Seen
  <2> QED BY <1>1, <1>3, <2>1, FitsLess
<1>4. ASSUME NEW c \in Coupons PROVE FitsIn(c, Seen(c, redeemed))'
  <2>1. Seen(c, redeemed)' \subseteq Seen(c, Redemptions(r))
    BY CommitRedeems DEF Seen
  <2> QED BY <1>3, <2>1 DEF FitsIn
<1>5. ASSUME NEW c \in Coupons, NEW s \in Requests
      PROVE  \E u \in Requests : Seen(c, Redemptions(s))' \subseteq Seen(c, Redemptions(u))
  <2>1. CASE s \in Mates(r)
    <3>1. Mates(s)' = {s} /\ ~task'[s].redeems
      BY <2>1, CommitEnds, CommitFacts DEF Rested
    <3>2. Redemptions(s)' \subseteq Redemptions(r)
      BY <3>1, CommitRedeems DEF Redemptions
    <3> QED BY <3>2 DEF Seen
  <2>2. CASE s \notin Mates(r)
    <3> DEFINE own == {<<task[m].held, m>> : m \in {x \in Mates(s) : task[x].redeems}}
    <3>1. /\ Mates(s)' = Mates(s) /\ Mates(s) \cap Mates(r) = {}
          /\ \A m \in Mates(s) : task'[m] = task[m]
      BY <2>2, <1>2, CommitEnds, CommitFacts
    <3>2. Redemptions(s)' = Redemptions(r) \cup own
      BY <3>1, CommitRedeems DEF Redemptions
    <3>3. CASE \E m \in Mates(s) : task[m].redeems /\ task[m].held = c
      <4>1. PICK m \in Mates(s) : task[m].redeems /\ task[m].held = c
        BY <3>3
      <4>2. c # Null
        BY PricingAssumption
      <4>3. \A x \in Mates(r) : x \in Requests /\ x \notin Mates(m)
        BY <1>2, <3>1, MatesFacts DEF Inv
      <4>4. \A x \in Mates(r) : task[x].held # c
        BY <1>2, <4>1, <4>2, <4>3 DEF Inv, CouponsHeldOnce
      <4>5. Seen(c, Redemptions(s))' \subseteq Seen(c, Redemptions(s))
        BY <3>2, <4>4 DEF Seen, Redemptions
      <4> QED BY <4>5
    <3>4. CASE ~ \E m \in Mates(s) : task[m].redeems /\ task[m].held = c
      <4>1. Seen(c, Redemptions(s))' \subseteq Seen(c, Redemptions(r))
        BY <3>2, <3>4 DEF Seen
      <4> QED BY <4>1
    <3> QED BY <3>3, <3>4
  <2> QED BY <2>1, <2>2
<1>6. ASSUME NEW c \in Coupons, NEW s \in Requests
      PROVE  FitsIn(c, Seen(c, Redemptions(s)))'
  <2>1. PICK u \in Requests : Seen(c, Redemptions(s))' \subseteq Seen(c, Redemptions(u))
    BY <1>5
  <2> QED BY <1>3, <2>1 DEF FitsIn
<1> QED BY <1>4, <1>6 DEF Counted

LEMMA CommitKeeps ==
    ASSUME Inv, NEW r \in Requests, Commit(r) PROVE Inv'
<1>1. /\ UNCHANGED <<plan, now, mode, live, born, prices, donation, filters, view, edits,
                     dying, touched>>
      /\ Limited' = Limited
  BY DEF Commit, config, Limited
<1>2. Typed'
  BY <1>1, CommitFacts, CommitRedeems, CommitEnds DEF Inv, Typed
<1>3. /\ PricesRefer' /\ FiltersRefer' /\ CodesDiffer' /\ PageIsCurrent'
      /\ PageMissesOnlyNewRows'
  BY <1>1 DEF Inv, PricesRefer, FiltersRefer, CodesDiffer, PageIsCurrent,
              PageMissesOnlyNewRows
<1>4. \A s \in Requests : booking[s].status # "none" => booking'[s].status # "none"
  BY CommitFacts
<1>5. RedemptionsRefer'
  <2>1. ASSUME NEW x \in redeemed' PROVE x[1] \in live /\ booking'[x[2]].status # "none"
    <3>1. CASE x \in redeemed
      <4>1. x[1] \in live /\ booking[x[2]].status # "none" /\ x[2] \in Requests
        BY <3>1 DEF Inv, RedemptionsRefer, Typed
      <4> QED BY <4>1, <1>4
    <3>2. CASE x \notin redeemed
      <4>1. x[1] \in live /\ x[2] \in Mates(r)
        BY <2>1, <3>2, CommitRedeems
      <4> QED BY <4>1, CommitFacts
    <3> QED BY <3>1, <3>2
  <2> QED BY <2>1, <1>1 DEF RedemptionsRefer
<1>6. RowsRefer'
  <2>1. \A s \in Mates(r) : booking'[s].coupon \in live \cup {Null}
    BY CommitFacts DEF Sound
  <2>2. \A s \in Requests : booking'[s].coupon \in live \cup {Null}
    BY <2>1, CommitFacts DEF Inv, RowsRefer
  <2>3. \A s \in Requests : entry'[s].coupon \in live \cup {Null}
    BY CommitFacts DEF Inv, RowsRefer
  <2> QED BY <2>2, <2>3, <1>1 DEF RowsRefer
<1>7. Answered'
  <2>1. ASSUME NEW s \in Requests
        PROVE  IF booking'[s].status = "none" THEN ~booking'[s].corrected
                                              ELSE task'[s].pc = "booked"
    <3>1. CASE s \in Mates(r)
      BY <3>1, CommitFacts
    <3>2. CASE s \notin Mates(r)
      BY <3>2, CommitFacts DEF Inv, Answered
    <3> QED BY <3>1, <3>2
  <2> QED BY <2>1 DEF Answered
<1>8. Waitlist'
  <2>1. ASSUME NEW s \in Requests, entry'[s].status = "waiting" PROVE Told(s, task'[s])
    <3>1. Told(s, task[s])
      BY <2>1, CommitFacts DEF Inv, Waitlist, Waiting
    <3>2. s \notin Mates(r)
      <4>1. ASSUME s \in Mates(r) PROVE FALSE
        <5>1. task[s].pc = "recorded" /\ task[s].late /\ RowOf[s] = s
          BY <3>1, <4>1, CommitFacts DEF Told, Submitted
        <5> QED BY <2>1, <4>1, <5>1, CommitFacts
      <4> QED BY <4>1
    <3> QED BY <3>1, <3>2, CommitFacts
  <2> QED BY <2>1, <1>1 DEF Waitlist, Waiting, Told
<1>9. DiscountIsCounted'
  <2>1. ASSUME NEW s \in Requests, booking'[s].coupon # Null, ~booking'[s].late
        PROVE  <<booking'[s].coupon, s>> \in redeemed'
    <3>1. CASE s \in Mates(r)
      <4>1. booking'[s].coupon = task[s].coupon /\ booking'[s].late = task[s].late
        BY <3>1, CommitFacts
      <4>2. task[s].redeems /\ task[s].held = task[s].coupon
        BY <2>1, <3>1, <4>1, CommitFacts DEF Sound
      <4> QED BY <3>1, <4>1, <4>2, CommitRedeems
    <3>2. CASE s \notin Mates(r)
      BY <2>1, <3>2, CommitFacts, CommitRedeems DEF Inv, DiscountIsCounted
    <3> QED BY <3>1, <3>2
  <2> QED BY <2>1 DEF DiscountIsCounted
<1> QED BY <1>2, <1>3, <1>5, <1>6, <1>7, <1>8, <1>9, CommitEnds, CommitCounts DEF Inv

-----------------------------------------------------------------------------
(* PromoteAfterCancel.                                                     *)

\* Until it serves, a promotion only takes locks.
LEMMA PromoterStep ==
    ASSUME Inv, Uncommitted, task' = task, promo' \in PromoType,
           lock' \in Requests \cup {Promoter, Null}, promo'.batch = promo.batch,
           EventHeldOnce', PromotionHolds'
    PROVE  Inv'
<1>1. Steady /\ entry' = entry /\ UNCHANGED <<plan, live, dying, redeemed, booking>>
  BY DEF Uncommitted, Steady, config
<1>2. \A s : Mates(s)' = Mates(s)
  BY DEF Mates
<1>3. Limited' = Limited
  BY <1>1 DEF Limited
<1>4. Typed' /\ RowsRefer' /\ Answered'
  BY <1>1 DEF Inv, Typed, RowsRefer, Answered, Steady, config
<1>5. Waitlist' /\ Handlers'
  BY <1>1, <1>3 DEF Inv, Waitlist, Waiting, Told, Handlers, Sound
<1>6. CouponsHeldOnce' /\ DyingFree'
  BY <1>1, <1>2 DEF Inv, CouponsHeldOnce, DyingFree, Unlocked, Shares, InTransaction, References
<1>7. Counted'
  <2>1. ContactsStay
    BY <1>1 DEF ContactsStay, Contact, Email
  <2>2. \A r \in Requests : Redemptions(r)' \subseteq Redemptions(r)
    BY <1>1, <1>2 DEF Redemptions
  <2> QED BY <1>1, <2>1, <2>2, CountedLess
<1> QED BY <1>1, <1>4, <1>5, <1>6, <1>7, TaskStep

LEMMA CallPromoterKeeps == ASSUME Inv, CallPromoter PROVE Inv'
<1>1. /\ promo \in PromoType /\ mode \in Modes /\ Limited /\ promo.pc = "off"
      /\ promo' = [promo EXCEPT !.pc = "called", !.mode = mode]
      /\ UNCHANGED <<task, lock, plan, entry>> /\ Uncommitted
  BY DEF Inv, Typed, CallPromoter, Uncommitted
<1>2. /\ promo' \in PromoType /\ promo'.pc = "called" /\ promo'.rows = promo.rows
      /\ promo'.batch = promo.batch
  BY <1>1 DEF PromoType
<1>3. PromotionHolds'
  BY <1>1, <1>2 DEF Inv, PromotionHolds, Limited, Waiting
<1>4. EventHeldOnce'
  BY <1>1, <1>2 DEF Inv, EventHeldOnce, Limited, Tx
<1> QED BY <1>1, <1>2, <1>3, <1>4, PromoterStep DEF Inv, Typed

LEMMA StartPromotionKeeps == ASSUME Inv, StartPromotion PROVE Inv'
<1>1. /\ promo \in PromoType /\ Limited /\ promo.pc = "called" /\ lock = Null
      /\ UNCHANGED <<task, plan, entry>> /\ Uncommitted /\ Promoter # Null
      /\ Promoter \notin Requests /\ Null \notin Requests
  BY CheckoutAssumption, RowsAssumption
     DEF Inv, Typed, StartPromotion, LockFree, Uncommitted, PromotionHolds
<1>2. promo.rows = {} /\ promo.batch = {}
  BY <1>1 DEF Inv, PromotionHolds
<1>3. \A r \in Requests : task[r].pc \notin Open
  BY <1>1, Names DEF Inv, EventHeldOnce
<1>4. CASE promo' = [promo EXCEPT !.pc = "listing"] /\ lock' = Promoter
  <2>1. /\ promo' \in PromoType /\ promo'.pc = "listing" /\ promo'.rows = {}
        /\ promo'.batch = {}
    BY <1>1, <1>2, <1>4 DEF PromoType
  <2>2. PromotionHolds' /\ EventHeldOnce'
    BY <1>1, <1>3, <1>4, <2>1 DEF PromotionHolds, EventHeldOnce, Limited
  <2> QED BY <1>1, <1>2, <1>4, <2>1, <2>2, PromoterStep
<1>5. CASE promo' = NoPromo /\ UNCHANGED lock
  <2>1. /\ promo' \in PromoType /\ promo'.pc = "off" /\ promo'.rows = {}
        /\ promo'.batch = {}
    BY <1>5 DEF NoPromo, PromoType, Modes
  <2>2. PromotionHolds' /\ EventHeldOnce'
    BY <1>1, <1>3, <1>5, <2>1 DEF PromotionHolds, EventHeldOnce
  <2> QED BY <1>1, <1>2, <1>5, <2>1, <2>2, PromoterStep
<1> QED BY <1>4, <1>5 DEF StartPromotion

LEMMA LockEntryKeeps == ASSUME Inv, NEW r \in Requests, LockEntry(r) PROVE Inv'
<1>1. /\ promo \in PromoType /\ promo.pc = "listing" /\ r \in Waiting
      /\ promo' = [promo EXCEPT !.rows = promo.rows \cup {r}]
      /\ UNCHANGED <<task, lock, plan, entry>> /\ Uncommitted
  BY DEF Inv, Typed, LockEntry, Uncommitted
<1>2. /\ promo' \in PromoType /\ promo'.pc = "listing" /\ promo'.rows = promo.rows \cup {r}
      /\ promo'.batch = promo.batch
  <2>1. promo.rows \cup {r} \in SUBSET Requests
    BY <1>1 DEF PromoType
  <2>2. promo' \in PromoType
    BY <1>1, <2>1, Zenon DEF PromoType
  <2> QED BY <1>1, <2>2 DEF PromoType
<1>3. PromotionHolds'
  BY <1>1, <1>2 DEF Inv, PromotionHolds, Limited, Waiting
<1>4. EventHeldOnce'
  BY <1>1, <1>2 DEF Inv, EventHeldOnce, Limited, Tx
<1> QED BY <1>1, <1>2, <1>3, <1>4, PromoterStep DEF Inv, Typed

\* While it lists, no other transaction is under way.
LEMMA ListsAlone ==
    ASSUME Inv, promo.pc = "listing"
    PROVE  /\ Limited /\ lock = Promoter /\ promo.batch = {}
           /\ \A r \in Requests :
                /\ task[r].pc \notin Open /\ task[r].held = Null /\ ~task[r].redeems
                /\ r \in Waiting =>
                     Submitted(r) /\ task[r].pc = "waiting" /\ booking[r].status = "none"
<1>1. Limited /\ lock = Promoter /\ promo.batch = {}
  BY DEF Inv, PromotionHolds
<1>2. ASSUME NEW r \in Requests PROVE task[r].pc \notin Open
  BY <1>1, Names DEF Inv, EventHeldOnce
<1>3. ASSUME NEW r \in Requests, r \in Waiting
      PROVE  Submitted(r) /\ task[r].pc = "waiting" /\ booking[r].status = "none"
  BY <1>2, <1>3, NotBooked DEF Inv, Waitlist, Told
<1> QED BY <1>1, <1>2, <1>3, OutsideTx

LEMMA AllocateKeeps ==
    ASSUME Inv, NEW P \in SUBSET Waiting, Allocate(P) PROVE Inv'
<1>1. /\ promo \in PromoType /\ promo.pc = "listing" /\ promo.rows = Waiting
      /\ Uncommitted /\ Steady /\ entry' = entry
      /\ UNCHANGED <<plan, live, dying, redeemed, booking>> /\ P \subseteq Requests
  BY DEF Inv, Typed, Allocate, Uncommitted, Steady, Waiting, config
<1>2. CASE Release(Promoter) /\ UNCHANGED task
  <2>1. promo.batch = {}
    BY <1>1, ListsAlone
  <2>2. task' = Undone({})
    BY <1>2 DEF Undone, Inv, Typed
  <2> QED BY <1>1, <1>2, <2>1, <2>2, UndoKeeps DEF Serves
<1>3. ASSUME promo' = [promo EXCEPT !.pc = "serving", !.batch = P], UNCHANGED lock,
             task' = [r \in Requests |-> IF r \in P THEN Frozen(r, "queued") ELSE task[r]]
      PROVE  Inv'
  <2>1. /\ promo' \in PromoType /\ promo'.pc = "serving" /\ promo'.rows = Waiting
        /\ promo'.batch = P
    BY <1>1, <1>3 DEF PromoType
  <2>2. ASSUME NEW r \in Requests
        PROVE  LET k == Frozen(r, "queued") IN
               /\ k \in TaskType /\ k.pc = "queued" /\ k.late /\ k.held = Null /\ ~k.redeems
    BY FrozenTyped DEF Inv, Steps, Open
  <2>3. task' \in [Requests -> TaskType]
    BY <1>3, <2>2 DEF Inv, Typed
  <2>4. \A r \in Requests :
          /\ task'[r].held = Null /\ ~task'[r].redeems
          /\ r \notin P => task'[r] = task[r] /\ task'[r].pc \notin Open
          /\ r \in P => /\ task'[r].pc = "queued" /\ task'[r].late
                        /\ Submitted(r) /\ task[r].pc # "booked"
    BY <1>1, <1>3, <2>2, ListsAlone
  <2>5. Typed'
    BY <1>1, <1>3, <2>1, <2>3 DEF Inv, Typed, Steady, config
  <2>6. RowsRefer' /\ Limited /\ Limited' = Limited
    BY <1>1, ListsAlone DEF Inv, RowsRefer, Limited
  <2>7. Answered'
    BY <1>1, <2>4 DEF Inv, Answered
  <2>8. Waitlist'
    <3>1. ASSUME NEW r \in Waiting PROVE Told(r, task'[r])
      <4>1. r \in Requests /\ Told(r, task[r])
        BY DEF Inv, Waitlist, Waiting
      <4> QED BY <4>1, <2>4, <2>6 DEF Told, Open
    <3> QED BY <1>1, <2>6, <3>1 DEF Waitlist, Waiting, Told
  <2>9. Handlers'
    <3>1. \A s, t : Sound(s, t) => Sound(s, t)'
      BY <1>1, <2>6 DEF Sound
    <3>2. \A r \in Requests : Sound(r, task'[r])
      BY <2>4, <2>6 DEF Sound, Open, Quoting, Inv, Handlers
    <3> QED BY <3>1, <3>2 DEF Handlers
  <2>10. CouponsHeldOnce'
    BY <2>4 DEF CouponsHeldOnce
  <2>11. EventHeldOnce'
    BY <1>1, <1>3, <2>1, <2>4, <2>6, ListsAlone, RowsAssumption DEF EventHeldOnce, Tx
  <2>12. PromotionHolds'
    BY <1>1, <1>3, <2>1, <2>4, <2>6, ListsAlone DEF PromotionHolds, Waiting, Open
  <2>13. DyingFree'
    <3>1. \A r \in Requests : Shares(r)' = {}
      BY <2>4 DEF Shares, InTransaction, Open
    <3>2. \A x \in dying : x # Null
      BY PricingAssumption DEF Inv, Typed, Rows
    <3> QED BY <1>1, <2>4, <3>1, <3>2 DEF DyingFree, Unlocked
  <2>14. Counted'
    <3>1. ContactsStay
      BY <1>1 DEF ContactsStay, Contact, Email
    <3>2. ASSUME NEW r \in Requests PROVE Redemptions(r)' \subseteq Redemptions(r)
      <4>1. Mates(r)' \subseteq Requests
        BY <1>1, <2>1 DEF Mates
      <4> QED BY <1>1, <2>4, <4>1 DEF Redemptions
    <3> QED BY <1>1, <3>1, <3>2, CountedLess
  <2> QED BY <1>1, <2>5, <2>6, <2>7, <2>8, <2>9, <2>10, <2>11, <2>12, <2>13, <2>14, TaskStep
<1> QED BY <1>2, <1>3 DEF Allocate

LEMMA PromotionKeeps ==
    ASSUME Inv, Promotion PROVE Inv'
<1>1. CASE AbortPromotion
  <2>1. /\ task' = Undone(promo.batch) /\ Release(Promoter) /\ Steady /\ entry' = entry
    BY <1>1 DEF AbortPromotion, Uncommitted, Steady
  <2> QED BY <2>1, UndoKeeps DEF Serves
<1> QED BY <1>1, StartPromotionKeeps, LockEntryKeeps, AllocateKeeps DEF Promotion

-----------------------------------------------------------------------------
(* The organizer.                                                          *)

\* No booking appears, and an address that changes is marked.
BookingsStay ==
    \A r \in Requests :
      /\ booking'[r].status = "none" <=> booking[r].status = "none"
      /\ booking[r].status = "none" => booking'[r].corrected = booking[r].corrected
      /\ booking'[r].email = booking[r].email \/ booking'[r].corrected
      /\ booking[r].corrected => booking'[r].corrected
      /\ booking'[r].coupon \in {booking[r].coupon, Null}
      /\ booking'[r].late = booking[r].late
      /\ entry'[r].status = entry[r].status

\* A row that comes is new, and one that goes is not locked.
RowsStay ==
    /\ born \subseteq born' /\ live' \cap born \subseteq live
    /\ \A x \in live : ~Unlocked(x) => x \in live'

\* Redemptions go only with their coupon.
RedemptionsStay ==
    /\ redeemed' \subseteq redeemed
    /\ \A x \in redeemed : x[1] \in live' => x \in redeemed'

\* The coupon a handler holds or has named in its booking does not go.
LEMMA LockedStays ==
    ASSUME Inv, RowsStay, NEW r \in Requests
    PROVE  /\ task[r].held # Null => task[r].held \in live'
           /\ InTransaction(r) => task[r].coupon \in live' \cup {Null}
<1>1. Sound(r, task[r])
  BY DEF Inv, Handlers
<1>2. task[r].held # Null => ~Unlocked(task[r].held)
  BY DEF Unlocked
<1>3. InTransaction(r) /\ task[r].coupon # Null => ~Unlocked(task[r].coupon)
  BY DEF Unlocked, Shares, References
<1> QED BY <1>1, <1>2, <1>3 DEF Sound, RowsStay, InTransaction

(***************************************************************************)
(* What the organizer does leaves the handlers alone.                      *)
(***************************************************************************)
LEMMA OrganizerStep ==
    ASSUME Inv, UNCHANGED <<plan, task, lock, promo, view>>, Typed',
           PricesRefer', FiltersRefer', CodesDiffer', RedemptionsRefer', RowsRefer',
           BookingsStay, RowsStay, RedemptionsStay, \A x \in dying' : Unlocked(x)
    PROVE  Inv'
<1>1. Limited' = Limited
  BY DEF Limited
<1>2. Answered'
  BY DEF Inv, Answered, BookingsStay
<1>3. Waitlist' /\ PromotionHolds'
  <2>1. Waiting' = Waiting
    BY DEF Waiting, BookingsStay
  <2> QED BY <1>1, <2>1 DEF Inv, Waitlist, PromotionHolds, Told
<1>4. Handlers'
  <2>1. ASSUME NEW r \in Requests PROVE Sound(r, task[r])'
    <3> PICK t : t = task[r]
      OBVIOUS
    <3>1. Sound(r, t) /\ task'[r] = t
      BY DEF Inv, Handlers
    <3>2. /\ t.held # Null => t.held \in live'
          /\ t.pc \in {"inserted", "locked", "recorded"} => t.coupon \in live' \cup {Null}
      BY <3>1, LockedStays DEF InTransaction
    <3>3. Sound(r, t)'
      BY <1>1, <3>1, <3>2 DEF Sound
    <3> QED BY <3>1, <3>3 DEF Sound
  <2> QED BY <2>1 DEF Handlers
<1>5. CouponsHeldOnce' /\ EventHeldOnce'
  BY <1>1 DEF Inv, CouponsHeldOnce, EventHeldOnce, Mates, Tx
<1>6. DyingFree'
  BY DEF DyingFree, Unlocked, Shares, InTransaction, References
<1>7. Counted'
  <2>1. ContactsStay
    BY DEF BookingsStay, ContactsStay, Contact, Email
  <2>2. ASSUME NEW r \in Requests PROVE Redemptions(r)' \subseteq Redemptions(r)
    BY DEF Redemptions, Mates, RedemptionsStay
  <2> QED BY <2>1, <2>2, CountedLess DEF RedemptionsStay
<1>8. DiscountIsCounted'
  <2>1. ASSUME NEW r \in Requests, booking'[r].coupon # Null, ~booking'[r].late
        PROVE  <<booking'[r].coupon, r>> \in redeemed'
    <3>1. booking'[r].coupon = booking[r].coupon /\ ~booking[r].late
      BY <2>1 DEF BookingsStay
    <3>2. <<booking[r].coupon, r>> \in redeemed
      BY <2>1, <3>1 DEF Inv, DiscountIsCounted
    <3>3. <<booking[r].coupon, r>>[1] \in live'
      BY <2>1, <3>1 DEF RowsRefer
    <3> QED BY <3>1, <3>2, <3>3 DEF RedemptionsStay
  <2> QED BY <2>1 DEF DiscountIsCounted
<1>9. PageIsCurrent' /\ PageMissesOnlyNewRows'
  BY DEF Inv, PageIsCurrent, PageMissesOnlyNewRows, RowsStay
<1> QED BY <1>2, <1>3, <1>4, <1>5, <1>6, <1>7, <1>8, <1>9 DEF Inv

\* What no edit of the organizer touches.
Bystanders == <<plan, now, task, lock, promo, touched, view>>

LEMMA DyingStayFree ==
    ASSUME Inv, dying' \subseteq dying PROVE \A x \in dying' : Unlocked(x)
  BY DEF Inv, DyingFree

PlainRows == Phases \cup Categories \cup Durations

\* The rows that a page, a booking or a coupon may refer to are as before.
LEMMA NothingElse ==
    ASSUME Inv, UNCHANGED <<live, born>>
    PROVE  RowsStay
  BY DEF RowsStay

LEMMA SameBookings ==
    ASSUME UNCHANGED <<booking, entry, redeemed>>
    PROVE  BookingsStay /\ RedemptionsStay
  BY DEF BookingsStay, RedemptionsStay

LEMMA CreateRowKeeps ==
    ASSUME Inv, NEW x \in PlainRows, NEW op, CreateRow(x), UNCHANGED filters, Edits(op)
    PROVE  Inv'
<1>1. /\ x \notin born /\ live' = live \cup {x} /\ born' = born \cup {x}
      /\ UNCHANGED <<mode, dying, prices, donation, redeemed, booking, entry, filters, Bystanders>>
      /\ edits' = edits + 1
  BY DEF CreateRow, Edits, Bystanders
<1>2. x \in Rows /\ x \notin Coupons
  BY RowsAssumption DEF PlainRows, Rows
<1>3. Typed'
  BY <1>1, <1>2 DEF Inv, Typed, Bystanders
<1>4. /\ PricesRefer' /\ FiltersRefer' /\ CodesDiffer' /\ RedemptionsRefer' /\ RowsRefer'
  BY <1>1, <1>2 DEF Inv, PricesRefer, FiltersRefer, CodesDiffer, RedemptionsRefer, RowsRefer
<1>5. RowsStay
  BY <1>1 DEF RowsStay
<1> QED BY <1>1, <1>3, <1>4, <1>5, SameBookings, DyingStayFree, OrganizerStep DEF Bystanders

LEMMA CreateCouponKeeps ==
    ASSUME Inv, NEW c \in Coupons, CreateCoupon(c)
    PROVE  Inv'
<1> DEFINE f == CouponRow[c].phases \cup CouponRow[c].categories
<1>1. /\ c \notin born /\ live' = live \cup {c} /\ born' = born \cup {c}
      /\ UNCHANGED <<mode, dying, prices, donation, redeemed, booking, entry, Bystanders>>
      /\ edits' = edits + 1 /\ filters' = [filters EXCEPT ![c] = f] /\ f \subseteq live
      /\ CouponsWith(CouponRow[c].code) = {}
  BY DEF CreateCoupon, CreateRow, Edits, Bystanders
<1>2. f \subseteq Phases \cup Categories
  BY PricingAssumption DEF ValidCoupon
<1> HIDE DEF f
<1>3. Typed'
  BY <1>1, <1>2 DEF Inv, Typed, Rows, Bystanders
<1>4. PricesRefer' /\ RedemptionsRefer' /\ RowsRefer'
  BY <1>1 DEF Inv, PricesRefer, RedemptionsRefer, RowsRefer
<1>5. FiltersRefer'
  BY <1>1 DEF Inv, Typed, FiltersRefer
<1>6. CodesDiffer'
  BY <1>1 DEF Inv, CodesDiffer, CouponsWith
<1>7. RowsStay
  BY <1>1 DEF RowsStay
<1> QED BY <1>1, <1>3, <1>4, <1>5, <1>6, <1>7, SameBookings, DyingStayFree, OrganizerStep DEF Bystanders

\* Prices and the donation: nothing else refers to them.
LEMMA PricesKeep ==
    ASSUME Inv, UNCHANGED <<mode, live, born, filters, redeemed, booking, entry, dying, Bystanders>>,
           edits' = edits + 1, prices' \subseteq PriceType,
           donation' \in DonationType \cup {Null}, PricesRefer'
    PROVE  Inv'
<1>1. Typed'
  BY DEF Inv, Typed, Bystanders
<1>2. FiltersRefer' /\ CodesDiffer' /\ RedemptionsRefer' /\ RowsRefer'
  BY DEF Inv, FiltersRefer, CodesDiffer, RedemptionsRefer, RowsRefer
<1> QED BY <1>1, <1>2, NothingElse, SameBookings, DyingStayFree, OrganizerStep DEF Bystanders

LEMMA SetPriceKeeps ==
    ASSUME Inv, NEW p \in Phases, NEW c \in Categories, NEW d \in Durations \cup {Null},
           NEW a \in Amounts, SetPrice(p, c, d, a)
    PROVE  Inv'
<1> DEFINE new == [id |-> edits + 1, phase |-> p, category |-> c, duration |-> d, amount |-> a]
           changed(row) == [row EXCEPT !.amount = new.amount]
<1>1. /\ UNCHANGED <<mode, live, born, filters, redeemed, booking, entry, dying, Bystanders,
                     donation>>
      /\ edits' = edits + 1 /\ {p, c, d} \subseteq live \cup {Null}
      /\ prices' = UpsertPrice(prices, new)
  BY DEF SetPrice, Edits, Bystanders
<1>2. a \in Nat /\ edits + 1 \in Nat
  BY CheckoutAssumption DEF Inv, Typed
<1>3. new \in PriceType
  BY <1>2 DEF PriceType
<1>4. \A row \in PriceType :
        /\ changed(row) \in PriceType /\ changed(row).phase = row.phase
        /\ changed(row).category = row.category /\ changed(row).duration = row.duration
  BY <1>2 DEF PriceType
<1>5. new.phase = p /\ new.category = c /\ new.duration = d
  OBVIOUS
<1>6. ASSUME NEW row \in prices'
      PROVE  \/ row \in prices \/ row = new
             \/ \E old \in prices : row = changed(old)
  <2> HIDE DEF new
  <2> QED BY <1>1, <1>6 DEF UpsertPrice
<1>7. prices \subseteq PriceType /\ PricesRefer
  BY DEF Inv, Typed
<1> HIDE DEF new, changed
<1>8. prices' \subseteq PriceType
  BY <1>3, <1>4, <1>6, <1>7
<1>9. ASSUME NEW row \in prices'
      PROVE  {row.phase, row.category, row.duration} \subseteq live' \cup {Null}
  <2>1. CASE row \in prices
    BY <1>1, <1>7, <2>1 DEF PricesRefer
  <2>2. CASE row = new
    BY <1>1, <1>5, <2>2
  <2>3. ASSUME NEW old \in prices, row = changed(old)
        PROVE  {row.phase, row.category, row.duration} \subseteq live' \cup {Null}
    <3>1. {old.phase, old.category, old.duration} \subseteq live \cup {Null}
      BY <1>7 DEF PricesRefer
    <3> QED BY <1>1, <1>4, <1>7, <2>3, <3>1
  <2> QED BY <1>6, <2>1, <2>2, <2>3
<1>10. PricesRefer'
  BY <1>9 DEF PricesRefer
<1> QED BY <1>1, <1>8, <1>10, PricesKeep DEF Inv, Typed

LEMMA DeletePriceKeeps ==
    ASSUME Inv, NEW row \in prices, DeletePrice(row)
    PROVE  Inv'
<1>1. /\ UNCHANGED <<mode, live, born, filters, redeemed, booking, entry, dying, Bystanders,
                     donation>>
      /\ edits' = edits + 1 /\ prices' = prices \ {row}
  BY DEF DeletePrice, Edits, Bystanders
<1>2. prices' \subseteq PriceType /\ PricesRefer'
  BY <1>1 DEF Inv, Typed, PricesRefer
<1> QED BY <1>1, <1>2, PricesKeep DEF Inv, Typed

LEMMA SetDonationKeeps ==
    ASSUME Inv, NEW s \in Amounts, NEW m \in Amounts, SetDonation(s, m)
    PROVE  Inv'
<1>1. /\ UNCHANGED <<mode, live, born, filters, redeemed, booking, entry, dying, Bystanders,
                     prices>>
      /\ edits' = edits + 1 /\ donation' = [suggested |-> s, min |-> m]
  BY DEF SetDonation, Edits, Bystanders
<1>2. donation' \in DonationType
  BY <1>1, CheckoutAssumption DEF DonationType
<1>3. prices' \subseteq PriceType /\ PricesRefer'
  BY <1>1 DEF Inv, Typed, PricesRefer
<1> QED BY <1>1, <1>2, <1>3, PricesKeep

\* A row of bookings is written that names the same coupon.
LEMMA BookingKeeps ==
    ASSUME Inv, UNCHANGED <<config, redeemed, entry, dying, Bystanders>>,
           edits' = edits + 1, NEW r \in Requests, NEW row \in BookingType,
           booking' = [booking EXCEPT ![r] = row],
           row.status # "none", booking[r].status # "none",
           row.email = booking[r].email \/ row.corrected,
           booking[r].corrected => row.corrected,
           row.coupon = booking[r].coupon, row.late = booking[r].late
    PROVE  Inv'
<1>1. Typed'
  BY DEF Inv, Typed, config, Bystanders
<1>2. PricesRefer' /\ FiltersRefer' /\ CodesDiffer'
  BY DEF Inv, PricesRefer, FiltersRefer, CodesDiffer, config
<1>3. \A s \in Requests : booking'[s] = IF s = r THEN row ELSE booking[s]
  BY DEF Inv, Typed
<1>4. RedemptionsRefer'
  <2>1. \A x \in redeemed : x[2] \in Requests
    BY DEF Inv, Typed
  <2> QED BY <1>3, <2>1 DEF Inv, RedemptionsRefer, config
<1>5. RowsRefer' /\ BookingsStay
  BY <1>3 DEF Inv, RowsRefer, BookingsStay, config
<1>6. RedemptionsStay /\ RowsStay
  BY NothingElse DEF RedemptionsStay, config
<1> QED BY <1>1, <1>2, <1>4, <1>5, <1>6, DyingStayFree, OrganizerStep DEF Bystanders

LEMMA CancelKeeps ==
    ASSUME Inv, NEW r \in Requests, Cancel(r)
    PROVE  Inv'
<1> DEFINE row == [booking[r] EXCEPT !.status = "canceled"]
<1>1. booking[r] \in BookingType
  BY DEF Inv, Typed
<1>2. row \in BookingType
  BY <1>1, Zenon DEF BookingType
<1>3. /\ row.status = "canceled" /\ row.email = booking[r].email
      /\ row.corrected = booking[r].corrected
      /\ row.coupon = booking[r].coupon /\ row.late = booking[r].late
  BY <1>1 DEF BookingType
<1>4. /\ booking' = [booking EXCEPT ![r] = row] /\ booking[r].status = "active"
      /\ UNCHANGED <<config, redeemed, entry, dying, Bystanders>>
      /\ edits' = edits + 1
  BY DEF Cancel, Edits, Bystanders
<1> HIDE DEF row
<1> QED BY <1>2, <1>3, <1>4, BookingKeeps

LEMMA EditContactKeeps ==
    ASSUME Inv, NEW r \in Requests, NEW e \in Emails, EditContact(r, e)
    PROVE  Inv'
<1> DEFINE row == [booking[r] EXCEPT !.email = e, !.corrected = TRUE]
<1>1. booking[r] \in BookingType
  BY DEF Inv, Typed
<1>2. row \in BookingType
  <2>1. e \in Addresses /\ TRUE \in BOOLEAN
    BY DEF Addresses
  <2> QED BY <1>1, <2>1, Zenon DEF BookingType
<1>3. /\ row.status = booking[r].status /\ row.corrected
      /\ row.coupon = booking[r].coupon /\ row.late = booking[r].late
  BY <1>1 DEF BookingType
<1>4. /\ booking' = [booking EXCEPT ![r] = row] /\ booking[r].status # "none"
      /\ UNCHANGED <<config, redeemed, entry, dying, Bystanders>>
      /\ edits' = edits + 1
  BY DEF EditContact, Edits, Bystanders
<1> HIDE DEF row
<1> QED BY <1>2, <1>3, <1>4, BookingKeeps


LEMMA SwitchModeKeeps ==
    ASSUME Inv, NEW m \in {"matrix", "donation"}, SwitchMode(m)
    PROVE  Inv'
<1>1. /\ mode' = m /\ edits' = edits + 1
      /\ UNCHANGED <<live, born, prices, donation, filters, redeemed, booking, entry, dying,
                     Bystanders>>
  BY DEF SwitchMode, Edits, Bystanders
<1>2. Typed'
  BY <1>1 DEF Inv, Typed, Modes, Bystanders
<1>3. PricesRefer' /\ FiltersRefer' /\ CodesDiffer' /\ RedemptionsRefer' /\ RowsRefer'
  BY <1>1 DEF Inv, PricesRefer, FiltersRefer, CodesDiffer, RedemptionsRefer, RowsRefer
<1> QED BY <1>1, <1>2, <1>3, NothingElse, SameBookings, DyingStayFree, OrganizerStep
        DEF Bystanders

\* A DELETE takes a row that nobody holds.
LEMMA HoldRowKeeps ==
    ASSUME Inv, NEW x, NEW op, HoldRow(x), Edits(op)
    PROVE  Inv'
<1>1. /\ x \in live /\ Unlocked(x) /\ dying' = dying \cup {x} /\ edits' = edits + 1
      /\ UNCHANGED <<config, redeemed, booking, entry, Bystanders>>
  BY DEF HoldRow, Edits, Bystanders
<1>2. Typed'
  BY <1>1 DEF Inv, Typed, config, Bystanders
<1>3. PricesRefer' /\ FiltersRefer' /\ CodesDiffer' /\ RedemptionsRefer' /\ RowsRefer'
  BY <1>1 DEF Inv, PricesRefer, FiltersRefer, CodesDiffer, RedemptionsRefer, RowsRefer, config
<1>4. \A y \in dying' : Unlocked(y)
  BY <1>1 DEF Inv, DyingFree
<1> QED BY <1>1, <1>2, <1>3, <1>4, NothingElse, SameBookings, OrganizerStep
        DEF Bystanders, config

\* The end of a DELETE: its row is not locked.
LEMMA ForgetRowKeeps ==
    ASSUME Inv, NEW x \in dying \ Coupons, ForgetRow(x)
    PROVE  Inv'
<1>1. /\ Unlocked(x) /\ live' = live \ {x}
      /\ prices' = {row \in prices : x \notin {row.phase, row.category, row.duration}}
      /\ filters' = [c \in Coupons |-> filters[c] \ {x}]
      /\ UNCHANGED <<mode, born, donation, redeemed, booking, entry, edits, Bystanders>>
      /\ dying' = dying \ {x}
  BY DEF ForgetRow, Bystanders, Inv, DyingFree
<1>2. x \notin Coupons /\ x # Null
  BY PricingAssumption DEF Inv, Typed, Rows
<1>3. Typed'
  <2>1. filters' \in [Coupons -> SUBSET (Phases \cup Categories)]
    BY <1>1 DEF Inv, Typed
  <2>2. prices' \subseteq PriceType
    BY <1>1 DEF Inv, Typed
  <2> QED BY <1>1, <2>1, <2>2 DEF Inv, Typed, Bystanders
<1>4. PricesRefer'
  BY <1>1 DEF Inv, PricesRefer
<1>5. FiltersRefer'
  BY <1>1, <1>2 DEF Inv, FiltersRefer
<1>6. CodesDiffer'
  BY <1>1 DEF Inv, CodesDiffer
<1>7. RedemptionsRefer'
  <2>1. \A y \in redeemed : y[1] \in Coupons
    BY DEF Inv, Typed
  <2> QED BY <1>1, <1>2, <2>1 DEF Inv, RedemptionsRefer
<1>8. RowsRefer'
  <2>1. \A r \in Requests : booking[r].coupon \in CouponRef /\ entry[r].coupon \in CouponRef
    BY DEF Inv, Typed, BookingType, EntryType
  <2> QED BY <1>1, <1>2, <2>1 DEF Inv, RowsRefer, CouponRef
<1>9. RowsStay
  BY <1>1 DEF RowsStay
<1> QED BY <1>1, <1>3, <1>4, <1>5, <1>6, <1>7, <1>8, <1>9, 
        SameBookings, DyingStayFree, OrganizerStep DEF Bystanders

LEMMA ForgetCouponKeeps ==
    ASSUME Inv, NEW c \in Coupons, ForgetCoupon(c)
    PROVE  Inv'
<1> DEFINE forget(row) == IF row.coupon = c THEN [row EXCEPT !.coupon = Null] ELSE row
<1>1. /\ Unlocked(c) /\ c \in live /\ live' = live \ {c}
      /\ filters' = [filters EXCEPT ![c] = {}]
      /\ redeemed' = {x \in redeemed : x[1] # c}
      /\ booking' = [r \in Requests |-> forget(booking[r])]
      /\ entry' = [r \in Requests |-> forget(entry[r])]
      /\ UNCHANGED <<mode, born, prices, donation, edits, plan, now, task, lock, promo, view>>
      /\ dying' = dying \ {c} /\ touched' \subseteq touched
  BY DEF ForgetCoupon, Inv, DyingFree, Typed
<1>2. c \notin PlainRows /\ c # Null
  BY RowsAssumption, PricingAssumption DEF PlainRows
<1>3. ASSUME NEW row \in BookingType
      PROVE  /\ forget(row) \in BookingType /\ forget(row).status = row.status
             /\ forget(row).email = row.email /\ forget(row).late = row.late
             /\ forget(row).corrected = row.corrected
             /\ forget(row).coupon = IF row.coupon = c THEN Null ELSE row.coupon
  <2>1. Null \in CouponRef
    BY DEF CouponRef
  <2>2. [row EXCEPT !.coupon = Null] \in BookingType
    BY <2>1, Zenon DEF BookingType
  <2> QED BY <2>2 DEF BookingType
<1>4. ASSUME NEW row \in EntryType
      PROVE  /\ forget(row) \in EntryType /\ forget(row).status = row.status
             /\ forget(row).coupon = IF row.coupon = c THEN Null ELSE row.coupon
  <2>1. Null \in CouponRef
    BY DEF CouponRef
  <2>2. [row EXCEPT !.coupon = Null] \in EntryType
    BY <2>1, Zenon DEF EntryType
  <2> QED BY <2>2 DEF EntryType
<1> HIDE DEF forget
<1>5. booking \in [Requests -> BookingType] /\ entry \in [Requests -> EntryType]
  BY DEF Inv, Typed
<1>6. Typed'
  <2>1. booking' \in [Requests -> BookingType] /\ entry' \in [Requests -> EntryType]
    BY <1>1, <1>3, <1>4, <1>5
  <2>2. filters' \in [Coupons -> SUBSET (Phases \cup Categories)]
    BY <1>1 DEF Inv, Typed
  <2> QED BY <1>1, <2>1, <2>2 DEF Inv, Typed, Bystanders
<1>7. PricesRefer'
  <2>1. \A row \in prices : {row.phase, row.category, row.duration} \subseteq PlainRows \cup {Null}
    BY DEF Inv, Typed, PriceType, PlainRows
  <2> QED BY <1>1, <1>2, <2>1 DEF Inv, PricesRefer
<1>8. FiltersRefer'
  <2>1. \A d \in Coupons : filters[d] \subseteq PlainRows
    BY DEF Inv, Typed, PlainRows
  <2> QED BY <1>1, <1>2, <2>1 DEF Inv, Typed, FiltersRefer
<1>9. CodesDiffer'
  BY <1>1 DEF Inv, CodesDiffer
<1>10. \A r \in Requests :
         /\ booking'[r].status = booking[r].status /\ booking'[r].email = booking[r].email
         /\ booking'[r].late = booking[r].late
         /\ booking'[r].corrected = booking[r].corrected
         /\ booking'[r].coupon = IF booking[r].coupon = c THEN Null ELSE booking[r].coupon
         /\ entry'[r].status = entry[r].status
         /\ entry'[r].coupon = IF entry[r].coupon = c THEN Null ELSE entry[r].coupon
  BY <1>1, <1>3, <1>4, <1>5
<1>11. RedemptionsRefer'
  <2>1. \A x \in redeemed : x[2] \in Requests
    BY DEF Inv, Typed
  <2> QED BY <1>1, <1>10, <2>1 DEF Inv, RedemptionsRefer
<1>12. RowsRefer'
  BY <1>1, <1>10 DEF Inv, RowsRefer
<1>13. BookingsStay /\ RedemptionsStay
  BY <1>1, <1>10 DEF BookingsStay, RedemptionsStay
<1>14. RowsStay
  BY <1>1 DEF RowsStay
<1> QED BY <1>1, <1>6, <1>7, <1>8, <1>9, <1>11, <1>12, <1>13, <1>14,
        DyingStayFree, OrganizerStep

\* A waitlist row is reached by the delete of its coupon, or a delete is given up.
LEMMA DyingStep ==
    ASSUME Inv, dying' \subseteq dying, touched' \subseteq Requests,
           UNCHANGED <<plan, now, config, redeemed, booking, entry, task, lock, promo, edits, view>>
    PROVE  Inv'
<1>1. Typed'
  BY DEF Inv, Typed, config
<1>2. PricesRefer' /\ FiltersRefer' /\ CodesDiffer' /\ RedemptionsRefer' /\ RowsRefer'
  BY DEF Inv, PricesRefer, FiltersRefer, CodesDiffer, RedemptionsRefer, RowsRefer, config
<1> QED BY <1>1, <1>2, NothingElse, SameBookings, DyingStayFree, OrganizerStep DEF config

LEMMA DeletesKeep == ASSUME Inv, Deletes PROVE Inv'
<1>1. ASSUME NEW x \in dying \ Coupons, ForgetRow(x) PROVE Inv'
  BY <1>1, ForgetRowKeeps
<1>2. ASSUME NEW r \in Waiting, TouchEntry(r) PROVE Inv'
  <2>1. dying' \subseteq dying /\ touched' \subseteq Requests
    BY <1>2 DEF TouchEntry, Waiting, Inv, Typed
  <2> QED BY <1>2, <2>1, DyingStep DEF TouchEntry
<1>3. ASSUME NEW c \in dying \cap Coupons, ForgetCoupon(c) PROVE Inv'
  BY <1>3, ForgetCouponKeeps
<1>4. ASSUME NEW x \in dying, AbortDelete(x) PROVE Inv'
  <2>1. dying' \subseteq dying /\ touched' \subseteq Requests
    BY <1>4 DEF AbortDelete, Inv, Typed
  <2> QED BY <1>4, <2>1, DyingStep DEF AbortDelete
<1> QED BY <1>1, <1>2, <1>3, <1>4 DEF Deletes

-----------------------------------------------------------------------------
(* The page and the clock.                                                 *)

LEMMA ReadersKeep ==
    ASSUME Inv, UNCHANGED <<plan, config, redeemed, booking, entry, task, locks, edits>>,
           now' \in Int, view' \in ViewType, PageIsCurrent', PageMissesOnlyNewRows'
    PROVE  Inv'
<1>1. UNCHANGED <<plan, mode, live, born, prices, donation, filters, redeemed, booking, entry,
                  task, lock, promo, dying, touched, edits>>
  BY DEF config, locks
<1>2. /\ Limited' = Limited
      /\ \A s : Mates(s)' = Mates(s) /\ Tx(s)' = Tx(s) /\ Redemptions(s)' = Redemptions(s)
  BY <1>1 DEF Limited, Mates, Tx, Redemptions
<1>3. Typed'
  BY <1>1 DEF Inv, Typed
<1>4. /\ PricesRefer' /\ FiltersRefer' /\ CodesDiffer' /\ RedemptionsRefer' /\ RowsRefer'
      /\ DiscountIsCounted'
  BY <1>1 DEF Inv, PricesRefer, FiltersRefer, CodesDiffer, RedemptionsRefer, RowsRefer,
              DiscountIsCounted
<1>5. Answered' /\ CouponsHeldOnce' /\ EventHeldOnce'
  BY <1>1, <1>2 DEF Inv, Answered, CouponsHeldOnce, EventHeldOnce
<1>6. Waitlist' /\ PromotionHolds'
  BY <1>1, <1>2 DEF Inv, Waitlist, Waiting, Told, PromotionHolds
<1>7. Handlers'
  BY <1>1, <1>2 DEF Inv, Handlers, Sound
<1>8. DyingFree'
  BY <1>1 DEF Inv, DyingFree, Unlocked, Shares, InTransaction, References
<1>9. Counted'
  <2>1. ContactsStay
    BY <1>1 DEF ContactsStay, Contact, Email
  <2> QED BY <1>1, <1>2, <2>1, CountedLess
<1> QED BY <1>3, <1>4, <1>5, <1>6, <1>7, <1>8, <1>9 DEF Inv

LEMMA TickKeeps == ASSUME Inv, Tick PROVE Inv'
<1>1. now' \in Int /\ view' \in ViewType /\ PageIsCurrent' /\ PageMissesOnlyNewRows'
  BY DEF Inv, Typed, Tick, PageIsCurrent, PageMissesOnlyNewRows, config
<1> QED BY <1>1, ReadersKeep DEF Tick

LEMMA OpenPageKeeps == ASSUME Inv, OpenPage PROVE Inv'
<1> DEFINE v == [view EXCEPT !.step = 1, !.before = born]
<1>1. view \in ViewType /\ view.step = 0
  BY DEF Inv, Typed, OpenPage
<1>2. v \in ViewType
  <2>1. born \in SUBSET Rows /\ 1 \in Nat
    BY DEF Inv, Typed
  <2> QED BY <1>1, <2>1, Zenon DEF ViewType
<1>3. v.step = 1 /\ v.before = born /\ v.prices = view.prices
  BY <1>1 DEF ViewType
<1>4. view' = v /\ UNCHANGED config
  BY DEF OpenPage, Looks
<1> HIDE DEF v
<1>5. PageIsCurrent' /\ PageMissesOnlyNewRows'
  BY <1>1, <1>3, <1>4 DEF Inv, PageIsCurrent, PageMissesOnlyNewRows, config
<1> QED BY <1>2, <1>4, <1>5, ReadersKeep DEF OpenPage, Looks, Inv, Typed

(***************************************************************************)
(* The next list is read, or its query fails.                              *)
(***************************************************************************)
LEMMA NextList ==
    ASSUME Inv, UNCHANGED config, view.step \in 1..3, view' \in ViewType,
           view'.step = view.step + 1, view'.before = view.before, view'.prices = view.prices,
           view.rows \cup view.lost \subseteq view'.rows \cup view'.lost,
           live \cap Lists[view.step] \subseteq view'.rows \cup view'.lost
    PROVE  PageIsCurrent' /\ PageMissesOnlyNewRows'
<1>1. ASSUME NEW j \in 1..3, j < view'.step
      PROVE  view'.before \cap Lists[j] \cap live \subseteq view'.rows \cup view'.lost
  <2>1. CASE j = view.step
    BY <2>1
  <2>2. CASE j # view.step
    <3>1. j < view.step
      BY <1>1, <2>2
    <3>2. view.before \cap Lists[j] \cap live \subseteq view.rows \cup view.lost
      BY <3>1 DEF Inv, PageIsCurrent
    <3> QED BY <3>2
  <2> QED BY <2>1, <2>2
<1>2. /\ view'.step \in 0..5 /\ view'.step # 5 /\ view'.before \subseteq born
      /\ view'.prices = {}
  BY DEF Inv, PageIsCurrent
<1>3. live' = live /\ born' = born
  BY DEF config
<1>4. PageIsCurrent'
  BY <1>1, <1>2, <1>3 DEF PageIsCurrent, Lists
<1> QED BY <1>2, <1>4 DEF PageMissesOnlyNewRows

\* The prices are read, or their query fails: a price names rows that exist.
LEMMA LastList ==
    ASSUME Inv, UNCHANGED config, view.step = 4, view' \in ViewType,
           view'.step = 5, view'.before = view.before, view'.rows = view.rows,
           view'.lost = view.lost, view'.prices \subseteq prices
    PROVE  PageIsCurrent' /\ PageMissesOnlyNewRows'
<1>1. PageIsCurrent'
  BY DEF Inv, PageIsCurrent, Lists, config
<1>2. ASSUME NEW row \in prices, NEW x \in {row.phase, row.category, row.duration},
             x \in view.before
      PROVE  x \in view.rows \cup view.lost
  <2>1. x \in Rows /\ x # Null
    BY <1>2, PricingAssumption DEF Inv, Typed, ViewType, Rows
  <2>2. x \in live
    BY <2>1, <1>2 DEF Inv, PricesRefer
  <2>3. x \in Phases \/ x \in Categories \/ x \in Durations
    <3>1. row \in PriceType
      BY DEF Inv, Typed
    <3> QED BY <2>1, <3>1, <1>2 DEF PriceType
  <2>4. \E j \in 1..3 : x \in Lists[j]
    BY <2>3 DEF Lists
  <2> QED BY <1>2, <2>2, <2>4 DEF Inv, PageIsCurrent
<1>3. PageMissesOnlyNewRows'
  BY <1>2 DEF PageMissesOnlyNewRows
<1> QED BY <1>1, <1>3

LEMMA ReadPageKeeps == ASSUME Inv, ReadPage PROVE Inv'
<1>1. view \in ViewType /\ view.step \in 1..4 /\ UNCHANGED config /\ view.step + 1 \in Nat
  BY DEF Inv, Typed, ReadPage, Looks
<1>2. CASE view.step < 4
  <2> DEFINE more == view.rows \cup (live \cap Lists[view.step])
             v == [view EXCEPT !.step = view.step + 1, !.rows = more]
  <2>1. more \in SUBSET Rows
    BY <1>1 DEF ViewType, Inv, Typed
  <2>2. view' = v
    BY <1>2 DEF ReadPage
  <2>3. view.rows \subseteq more /\ live \cap Lists[view.step] \subseteq more
    OBVIOUS
  <2> HIDE DEF more
  <2>4. v \in ViewType
    BY <1>1, <2>1, Zenon DEF ViewType
  <2>5. /\ v.step = view.step + 1 /\ v.rows = more /\ v.lost = view.lost
        /\ v.before = view.before /\ v.prices = view.prices
    BY <1>1 DEF ViewType
  <2> HIDE DEF v
  <2>6. PageIsCurrent' /\ PageMissesOnlyNewRows'
    BY <1>1, <1>2, <2>2, <2>3, <2>4, <2>5, NextList
  <2> QED BY <2>2, <2>4, <2>6, ReadersKeep DEF ReadPage, Looks, Inv, Typed
<1>3. CASE ~(view.step < 4)
  <2> DEFINE v == [view EXCEPT !.step = view.step + 1, !.prices = prices]
  <2>1. v \in ViewType
    <3>1. prices \in SUBSET PriceType
      BY DEF Inv, Typed
    <3> QED BY <1>1, <3>1, Zenon DEF ViewType
  <2>2. /\ v.step = 5 /\ v.rows = view.rows /\ v.lost = view.lost
        /\ v.before = view.before /\ view.step = 4 /\ v.prices = prices
    BY <1>1, <1>3 DEF ViewType
  <2>3. view' = v
    BY <1>3 DEF ReadPage
  <2> HIDE DEF v
  <2>4. PageIsCurrent' /\ PageMissesOnlyNewRows'
    BY <1>1, <2>1, <2>2, <2>3, LastList
  <2> QED BY <2>1, <2>3, <2>4, ReadersKeep DEF ReadPage, Looks, Inv, Typed
<1> QED BY <1>2, <1>3

LEMMA MissPageKeeps == ASSUME Inv, MissPage PROVE Inv'
<1>1. view \in ViewType /\ view.step \in 1..4 /\ UNCHANGED config /\ view.step + 1 \in Nat
  BY DEF Inv, Typed, MissPage, Looks
<1>2. CASE view.step < 4
  <2> DEFINE more == view.lost \cup Lists[view.step]
             v == [view EXCEPT !.step = view.step + 1, !.lost = more]
  <2>1. more \in SUBSET Rows
    <3>1. view.step = 1 \/ view.step = 2 \/ view.step = 3
      BY <1>1, <1>2
    <3>2. Lists[view.step] \subseteq Rows
      BY <3>1 DEF Lists, Rows
    <3> QED BY <1>1, <3>2 DEF ViewType
  <2>2. view' = v
    BY <1>2 DEF MissPage
  <2>3. view.lost \subseteq more /\ Lists[view.step] \subseteq more
    OBVIOUS
  <2> HIDE DEF more
  <2>4. v \in ViewType
    BY <1>1, <2>1, Zenon DEF ViewType
  <2>5. /\ v.step = view.step + 1 /\ v.lost = more /\ v.rows = view.rows
        /\ v.before = view.before /\ v.prices = view.prices
    BY <1>1 DEF ViewType
  <2> HIDE DEF v
  <2>6. PageIsCurrent' /\ PageMissesOnlyNewRows'
    BY <1>1, <1>2, <2>2, <2>3, <2>4, <2>5, NextList
  <2> QED BY <2>2, <2>4, <2>6, ReadersKeep DEF MissPage, Looks, Inv, Typed
<1>3. CASE ~(view.step < 4)
  <2> DEFINE v == [view EXCEPT !.step = view.step + 1]
  <2>1. v \in ViewType
    BY <1>1, Zenon DEF ViewType
  <2>2. /\ v.step = 5 /\ v.rows = view.rows /\ v.lost = view.lost
        /\ v.before = view.before /\ view.step = 4 /\ v.prices = view.prices
    BY <1>1, <1>3 DEF ViewType
  <2>3. view' = v
    BY <1>3 DEF MissPage
  <2> HIDE DEF v
  <2>4. PageIsCurrent' /\ PageMissesOnlyNewRows'
    BY <1>1, <2>1, <2>2, <2>3, LastList DEF Inv, PageIsCurrent
  <2> QED BY <2>1, <2>3, <2>4, ReadersKeep DEF MissPage, Looks, Inv, Typed
<1> QED BY <1>2, <1>3

LEMMA OrganizerKeeps == ASSUME Inv, Organizer PROVE Inv'
<1>2. ASSUME NEW p \in Phases, CreatePhase(p) \/ DeletePhase(p) PROVE Inv'
  BY <1>2, CreateRowKeeps, HoldRowKeeps DEF CreatePhase, DeletePhase, PlainRows
<1>3. ASSUME NEW c \in Categories, CreateCategory(c) \/ DeleteCategory(c) PROVE Inv'
  BY <1>3, CreateRowKeeps, HoldRowKeeps DEF CreateCategory, DeleteCategory, PlainRows
<1>4. ASSUME NEW d \in Durations, CreateDuration(d) \/ DeleteDuration(d) PROVE Inv'
  BY <1>4, CreateRowKeeps, HoldRowKeeps DEF CreateDuration, DeleteDuration, PlainRows
<1>5. ASSUME NEW c \in Coupons, CreateCoupon(c) \/ DeleteCoupon(c) PROVE Inv'
  BY <1>5, CreateCouponKeeps, HoldRowKeeps DEF DeleteCoupon
<1>6. ASSUME NEW r \in Requests, Cancel(r) \/ \E e \in Emails : EditContact(r, e) PROVE Inv'
  BY <1>6, CancelKeeps, EditContactKeeps
<1>7. ASSUME \/ \E p \in Phases, c \in Categories, d \in Durations \cup {Null}, a \in Amounts :
                  SetPrice(p, c, d, a)
             \/ \E row \in prices : DeletePrice(row)
             \/ \E s, m \in Amounts : SetDonation(s, m)
             \/ \E m \in {"matrix", "donation"} : SwitchMode(m)
      PROVE  Inv'
  BY <1>7, SetPriceKeeps, DeletePriceKeeps, SetDonationKeeps, SwitchModeKeeps
<1>8. CASE OpenPage \/ ReadPage \/ MissPage
  BY <1>8, OpenPageKeeps, ReadPageKeeps, MissPageKeeps
<1> QED BY <1>2, <1>3, <1>4, <1>5, <1>6, <1>7, <1>8 DEF Organizer

-----------------------------------------------------------------------------
(* The theorems.                                                           *)

LEMMA InitTypes ==
    /\ NoBooking \in BookingType /\ NoBooking.status = "none" /\ NoBooking.coupon = Null
    /\ ~NoBooking.corrected
    /\ {NoEntry} \cup Row \subseteq EntryType
    /\ NoPromo \in PromoType /\ NoPromo.pc = "off" /\ NoPromo.rows = {} /\ NoPromo.batch = {}
    /\ Unread \in ViewType
<1>1. <<>> \in Seq(Item) /\ 0 \in Nat
  OBVIOUS
<1>2. Null \in Addresses /\ Null \in Codes /\ Null \in CouponRef
  BY DEF Addresses, Codes, CouponRef
<1>3. /\ NoBooking \in BookingType /\ NoBooking.status = "none" /\ NoBooking.coupon = Null
      /\ ~NoBooking.corrected
  BY <1>1, <1>2 DEF NoBooking, BookingType
<1>4. NoEntry \in EntryType
  BY <1>1, <1>2 DEF NoEntry, EntryType
<1>5. Row \subseteq EntryType
  BY DEF Row, EntryType, CouponRef, Codes
<1>6. NoPromo \in PromoType /\ NoPromo.pc = "off" /\ NoPromo.rows = {} /\ NoPromo.batch = {}
  BY DEF NoPromo, PromoType, Modes
<1>7. Unread \in ViewType
  BY DEF Unread, ViewType
<1> QED BY <1>3, <1>4, <1>5, <1>6, <1>7

LEMMA InitInv == ASSUME Init PROVE Inv
<1>1. /\ plan \in Plans /\ now = 0 /\ live = plan.live /\ born = plan.live
      /\ mode = plan.mode /\ prices = plan.prices /\ donation = plan.donation
      /\ redeemed = {}
      /\ filters = [c \in Coupons |-> IF c \in plan.live
                      THEN CouponRow[c].phases \cup CouponRow[c].categories ELSE {}]
      /\ booking = [r \in Requests |-> NoBooking] /\ entry = plan.entry
      /\ lock = Null /\ promo = NoPromo /\ dying = {} /\ touched = {}
      /\ edits = 0 /\ view = Unread
  BY DEF Init
<1>2. \A c \in Coupons :
        CouponRow[c].phases \cup CouponRow[c].categories \subseteq Phases \cup Categories
  BY PricingAssumption DEF ValidCoupon
<1>3. /\ task \in [Requests -> TaskType]
      /\ \A r \in Requests :
           /\ task[r].pc = IF entry[r].status = "waiting" THEN "waiting" ELSE "new"
           /\ task[r].coupon = Null /\ task[r].held = Null /\ ~task[r].redeems /\ ~task[r].late
  <2> DEFINE pc(r) == IF entry[r].status = "waiting" THEN "waiting" ELSE "new"
  <2>1. \A r : pc(r) \in Steps
    BY DEF Steps, Answers
  <2>2. task = [r \in Requests |-> [Idle EXCEPT !.pc = pc(r)]]
    BY DEF Init
  <2> HIDE DEF pc
  <2>3. \A r \in Requests : task[r] = [Idle EXCEPT !.pc = pc(r)]
    BY <2>2
  <2>4. ASSUME NEW r \in Requests
        PROVE  /\ task[r] \in TaskType /\ task[r].pc = pc(r) /\ task[r].coupon = Null
               /\ task[r].held = Null /\ ~task[r].redeems /\ ~task[r].late
    <3>1. PICK k \in Steps : k = pc(r)
      BY <2>1
    <3>2. task[r] = [Idle EXCEPT !.pc = k]
      BY <2>3, <3>1
    <3> QED BY <3>1, <3>2, AnsweredTyped
  <2> QED BY <2>2, <2>4 DEF pc
<1>4. /\ plan.live \subseteq Rows /\ plan.donation \in DonationType \cup {Null}
      /\ plan.mode \in Modes
      /\ plan.prices \subseteq [id : Nat, phase : plan.live \cap Phases,
                                category : plan.live \cap Categories,
                                duration : (plan.live \cap Durations) \cup {Null}, amount : Nat]
      /\ entry \in [Requests -> EntryType]
  BY <1>1, InitTypes, PlansAssumption DEF DonationType, Modes
<1>5. Typed
  <2>1. prices \subseteq PriceType
    BY <1>1, <1>4 DEF PriceType
  <2>2. filters \in [Coupons -> SUBSET (Phases \cup Categories)]
    BY <1>1, <1>2
  <2>3. booking \in [Requests -> BookingType]
    BY <1>1, InitTypes
  <2> QED BY <1>1, <1>3, <1>4, <2>1, <2>2, <2>3, InitTypes DEF Typed
<1>6. PricesRefer
  BY <1>1, <1>4 DEF PricesRefer
<1>7. FiltersRefer
  <2>1. \A c \in Coupons : c \in plan.live =>
          CouponRow[c].phases \cup CouponRow[c].categories \subseteq plan.live
    BY <1>1, PlansAssumption
  <2> QED BY <1>1, <2>1 DEF FiltersRefer
<1>8. CodesDiffer
  BY <1>1, PlansAssumption DEF CodesDiffer
<1>9. RedemptionsRefer /\ Answered
  BY <1>1, InitTypes DEF RedemptionsRefer, Answered
<1>10. RowsRefer
  <2>1. \A r \in Requests : entry[r].coupon \in live \cup {Null}
    BY <1>1, PlansAssumption
  <2> QED BY <1>1, <2>1, InitTypes DEF RowsRefer
<1>11. Waitlist
  <2>1. \A r \in Requests : entry[r].status = "waiting" => Limited /\ RowOf[r] = r
    BY <1>1, PlansAssumption DEF Limited
  <2> QED BY <1>3, <2>1 DEF Waitlist, Waiting, Told, Submitted
<1>12. Handlers
  BY <1>3 DEF Handlers, Sound, Quoting
<1>13. CouponsHeldOnce /\ EventHeldOnce
  BY <1>1, <1>3, CheckoutAssumption DEF CouponsHeldOnce, EventHeldOnce, Open
<1>14. PromotionHolds /\ DyingFree
  BY <1>1, InitTypes, RowsAssumption DEF PromotionHolds, DyingFree
<1>15. Counted
  <2>1. \A r \in Requests : Redemptions(r) = {}
    <3>1. \A r \in Requests : Mates(r) \subseteq Requests
      BY <1>1, InitTypes DEF Mates
    <3> QED BY <1>1, <1>3, <3>1 DEF Redemptions
  <2>2. Cardinality({}) = 0
    BY FS_EmptySet
  <2>3. ASSUME NEW c \in Coupons PROVE FitsIn(c, {})
    <3>1. CouponRow[c].maxUses \in Nat \cup {Null}
      BY PricingAssumption DEF ValidCoupon
    <3> QED BY <2>2, <3>1 DEF FitsIn
  <2>4. \A c : Seen(c, {}) = {}
    BY DEF Seen
  <2>5. ASSUME NEW c \in Coupons, NEW r \in Requests
        PROVE  FitsIn(c, Seen(c, redeemed)) /\ FitsIn(c, Seen(c, Redemptions(r)))
    BY <1>1, <2>1, <2>3, <2>4
  <2>6. \A c \in Coupons : FitsIn(c, Seen(c, redeemed))
    BY <1>1, <2>3, <2>4
  <2> QED BY <2>5, <2>6 DEF Counted
<1>16. DiscountIsCounted
  BY <1>1, InitTypes DEF DiscountIsCounted
<1>17. PageIsCurrent /\ PageMissesOnlyNewRows
  BY <1>1 DEF PageIsCurrent, PageMissesOnlyNewRows, Unread, Lists
<1> QED BY <1>5, <1>6, <1>7, <1>8, <1>9, <1>10, <1>11, <1>12, <1>13, <1>14, <1>15, <1>16,
           <1>17 DEF Inv

LEMMA StutterInv == ASSUME Inv, UNCHANGED vars PROVE Inv'
<1>1. now' \in Int /\ view' \in ViewType /\ PageIsCurrent' /\ PageMissesOnlyNewRows'
  BY DEF Inv, Typed, vars, config, PageIsCurrent, PageMissesOnlyNewRows
<1> QED BY <1>1, ReadersKeep DEF vars

LEMMA BookKeeps ==
    ASSUME Inv, NEW r \in Requests, Book(r) PROVE Inv'
  BY AdmitKeeps, JoinKeeps, LockEventKeeps, TurnKeeps, InsertKeeps, LockCouponKeeps,
     RedeemKeeps, CommitKeeps, AbortKeeps DEF Book

(***************************************************************************)
(* The invariant that the properties rest on.                              *)
(***************************************************************************)
THEOREM Invariance == Spec => []Inv
<1>1. Init => Inv
  BY InitInv
<1>2. Inv /\ [Next]_vars => Inv'
  BY ComputeKeeps, ShowQuoteKeeps, BookKeeps, ClaimKeeps, ReadEntryKeeps, CallPromoterKeeps,
     PromotionKeeps, OrganizerKeeps, DeletesKeep, TickKeeps, StutterInv DEF Next
<1> QED BY <1>1, <1>2, PTL DEF Spec

(***************************************************************************)
(* Every reference is to a row that exists, and the event row is held only *)
(* by a transaction of a limited event that is under way.                  *)
(***************************************************************************)
THEOREM TypeCorrect == Spec => []TypeOK
<1>1. Inv => TypeOK
  BY DEF Inv, Typed, PricesRefer, FiltersRefer, RedemptionsRefer, RowsRefer, EventHeldOnce,
         PromotionHolds, Open, TypeOK
<1> QED BY <1>1, Invariance, PTL

(***************************************************************************)
(* redeem.go: concurrent bookings, and the served waitlist rows of one     *)
(* promotion, cannot exceed max_uses.                                      *)
(***************************************************************************)
THEOREM LimitsHold == Spec => []UsesWithinLimit
<1>1. Inv => UsesWithinLimit
  BY DEF Inv, Counted, FitsIn, Seen, Uses, UsesWithinLimit
<1> QED BY <1>1, Invariance, PTL

(***************************************************************************)
(* Two redemptions of a single-use coupon under one address mean that the  *)
(* organizer corrected a contact.                                          *)
(***************************************************************************)
THEOREM OneRedemptionEach == Spec => []OncePerEmail
<1>1. ASSUME Inv, NEW c \in Coupons, CouponRow[c].single, NEW r \in Requests, NEW s \in Requests,
             r # s, <<c, r>> \in redeemed, <<c, s>> \in redeemed,
             booking[r].email = booking[s].email
      PROVE  booking[r].corrected \/ booking[s].corrected
  <2>1. r \in Seen(c, redeemed) /\ s \in Seen(c, redeemed)
    BY <1>1 DEF Seen
  <2>2. booking[r].status # "none" /\ booking[s].status # "none"
    BY <1>1 DEF Inv, RedemptionsRefer
  <2>3. Contact(r) = Contact(s)
    BY <1>1, <2>2 DEF Contact
  <2> QED BY <1>1, <2>1, <2>3 DEF Inv, Counted, FitsIn
<1>2. Inv => OncePerEmail
  BY <1>1 DEF OncePerEmail
<1> QED BY <1>2, Invariance, PTL

(***************************************************************************)
(* A direct booking that names a coupon is counted as one of its uses.     *)
(***************************************************************************)
THEOREM DirectDiscountsCount == Spec => []DiscountIsCounted
<1>1. Inv => DiscountIsCounted
  BY DEF Inv
<1> QED BY <1>1, Invariance, PTL

(***************************************************************************)
(* What a quote takes off is the coupon's share, correctly rounded, for    *)
(* every subtotal and every percentage.                                    *)
(***************************************************************************)
THEOREM DiscountsAreFair == Spec => []DiscountIsFair
<1>1. Inv => DiscountIsFair
  <2> SUFFICES ASSUME Inv, NEW r \in Requests, task[r].pc \in {"quoted", "admitted"},
                      ~task[r].late, task[r].coupon # Null
               PROVE  LET sub == Subtotal(task[r].items)
                          off == task[r].discount
                      IN  /\ off \in 0..sub
                          /\ Coupon(r).type = "percental_reduce" =>
                               100 * off - Coupon(r).value * sub \in -49..50
                          /\ Coupon(r).type = "fixed_reduce" =>
                               off = Coupon(r).value \/ off = sub
                          /\ Coupon(r).type = "guestlist" => off = sub
    BY DEF DiscountIsFair
  <2>1. task[r] \in TaskType /\ task[r].coupon \in Coupons
    BY DEF Inv, Typed, TaskType, CouponRef
  <2>2. Subtotal(task[r].items) \in Nat
    BY <2>1, SubtotalTyped DEF TaskType
  <2>3. ValidCoupon(CouponRow[task[r].coupon])
    BY <2>1, PricingAssumption
  <2>4. task[r].discount = Discount(CouponRow[task[r].coupon], Subtotal(task[r].items))
    BY DEF Inv, Handlers, Sound
  <2> DEFINE c == CouponRow[task[r].coupon]
             sub == Subtotal(task[r].items)
  <2>5. /\ Discount(c, sub) \in 0..sub
        /\ c.type = "percental_reduce" => 100 * Discount(c, sub) - c.value * sub \in -49..50
        /\ c.type = "fixed_reduce" => Discount(c, sub) = c.value \/ Discount(c, sub) = sub
        /\ c.type = "guestlist" => Discount(c, sub) = sub
    BY <2>2, <2>3, DiscountFair
  <2>6. Coupon(r) = c /\ task[r].discount = Discount(c, sub)
    BY <2>4 DEF Coupon
  <2> HIDE DEF c, sub
  <2> QED BY <2>5, <2>6 DEF sub
<1> QED BY <1>1, Invariance, PTL

(***************************************************************************)
(* A pricing page lacks only rows that are newer than the page, and those  *)
(* of a table whose query failed.                                          *)
(***************************************************************************)
THEOREM PagesLackOnlyNewRows == Spec => []PageMissesOnlyNewRows
<1>1. Inv => PageMissesOnlyNewRows
  BY DEF Inv
<1> QED BY <1>1, Invariance, PTL

-----------------------------------------------------------------------------
(* Circles of waits.                                                       *)

\* On a limited event those who are in a transaction share it.
LEMMA OneTransaction ==
    ASSUME Inv, Limited, NEW r \in Requests, NEW s \in Requests,
           task[r].pc \in Open, task[s].pc \in Open
    PROVE  s \in Mates(r)
<1>1. Tx(r) = Tx(s)
  BY DEF Inv, EventHeldOnce
<1> QED BY <1>1, Names DEF Tx, Mates

\* Who holds or shares rows is in a transaction.
LEMMA HoldersAreOpen ==
    ASSUME Inv, NEW s \in Requests, task[s].held # Null \/ Shares(s) # {}
    PROVE  task[s].pc \in Open
  BY DEF Inv, Handlers, Sound, Shares, InTransaction, Open

LEMMA NoNullNamed ==
    ASSUME NEW r \in Requests
    PROVE  Null \notin References(r) /\ Null \notin CouponsWith(Code(r))
  BY PricingAssumption DEF References, Named, CouponsWith

\* On a limited event a request in a transaction waits for nothing but a delete.
LEMMA OpenWaitsForDeletes ==
    ASSUME Inv, Limited, NEW r \in Requests, task[r].pc \in Open, NEW o, o \notin dying
    PROVE  ~Awaits(r, o)
<1>1. ASSUME NEW s \in Requests, task[s].held # Null \/ Shares(s) # {} PROVE s \in Mates(r)
  BY <1>1, HoldersAreOpen, OneTransaction
<1>2. ASSUME NEW s \in Requests \ Mates(r) PROVE task[s].held = Null /\ Shares(s) = {}
  BY <1>1, <1>2
<1>3. Null \notin References(r) /\ Null \notin CouponsWith(Code(r))
  BY NoNullNamed
<1> QED BY <1>2, <1>3 DEF Awaits, Blocks, Open

\* Requests and promotions of a limited event wait for each other only before
\* they have the event row, and only for whom has it.
LEMMA LimitedWaits ==
    ASSUME Inv, Limited, NEW a \in Requests \cup {Promoter}, NEW o \in Requests \cup {Promoter},
           WaitsFor(a, o)
    PROVE  /\ lock = o
           /\ \/ a \in Requests /\ task[a].pc \in {"quoted", "called"}
              \/ a = Promoter /\ promo.pc = "called"
<1>1. /\ a \notin dying /\ o \notin dying /\ Promoter \notin Requests
      /\ \A r \in Requests : entry[r].coupon # o
  BY RowsAssumption, CheckoutAssumption DEF Inv, Typed, EntryType, CouponRef, Rows
<1>2. CASE a \in Requests /\ Awaits(a, o)
  <2>1. task[a].pc \notin Open
    BY <1>1, <1>2, OpenWaitsForDeletes
  <2> QED BY <1>1, <1>2, <2>1 DEF Awaits, Blocks, Open
<1>3. CASE a = Promoter
  <2>1. ASSUME NEW r \in promo.batch PROVE ~Awaits(r, o)
    <3>1. r \in Requests /\ task[r].pc \in Open
      BY DEF Inv, PromotionHolds, Typed, PromoType
    <3> QED BY <1>1, <3>1, OpenWaitsForDeletes
  <2> QED BY <1>1, <1>3, <2>1 DEF WaitsFor, Waiting
<1> QED BY <1>1, <1>2, <1>3 DEF WaitsFor

\* Two bookings of a limited event do not wait for each other.
LEMMA NoPairs ==
    ASSUME Inv, Limited, NEW r \in Requests, NEW s \in Requests
    PROVE  ~Deadlocked(r, s)
<1>1. ASSUME Deadlocked(r, s) PROVE FALSE
  <2>1. s \notin Mates(r) /\ task[r].pc \in Open /\ task[s].pc \in Open
    BY <1>1 DEF Deadlocked, Blocks, Open
  <2> QED BY <2>1, OneTransaction
<1> QED BY <1>1

\* Without a limit there is no waitlist and no promotion: each one is alone.
LEMMA UnlimitedAlone ==
    ASSUME Inv, ~Limited
    PROVE  /\ lock = Null /\ promo.pc = "off" /\ promo.batch = {}
           /\ \A r \in Requests : ~task[r].late /\ Mates(r) = {r} /\ Tx(r) = r
  BY DEF Inv, EventHeldOnce, PromotionHolds, Handlers, Sound, Mates, Tx

\* What a booking of an unlimited event waits for another one for.
LEMMA UnlimitedWaits ==
    ASSUME Inv, ~Limited, NEW r \in Requests, NEW s \in Requests, WaitsFor(r, s)
    PROVE  /\ r # s
           /\ \/ task[r].pc = "admitted" /\ task[s].held \in References(r)
              \/ task[r].pc = "inserted" /\ task[s].held \in CouponsWith(Code(r))
              \/ Blocks(s, r)
<1>1. s \notin dying /\ r \notin dying /\ s # Null /\ r # Promoter
  BY RowsAssumption, CheckoutAssumption DEF Inv, Typed
<1>2. Awaits(r, s)
  BY <1>1 DEF WaitsFor
<1>3. lock # s
  BY <1>1, UnlimitedAlone
<1> QED BY <1>1, <1>2, <1>3, UnlimitedAlone DEF Awaits

\* A booking that waits to redeem shares the coupon it names.
LEMMA RedeemersShare ==
    ASSUME Inv, ~Limited, NEW r \in Requests, task[r].pc = "inserted"
    PROVE  /\ Code(r) = Ask[r].code
           /\ task[r].coupon # Null =>
                /\ task[r].coupon \in CouponsWith(Ask[r].code)
                /\ task[r].coupon \in Shares(r)
<1>1. ~task[r].late /\ Sound(r, task[r])
  BY UnlimitedAlone DEF Inv, Handlers
<1>2. task[r].coupon # Null => task[r].coupon \in CouponsWith(Ask[r].code)
  <2>1. task[r].coupon \in CouponRef
    BY DEF Inv, Typed, TaskType
  <2> QED BY <1>1, <2>1 DEF Sound, CouponRef, CouponsWith
<1> QED BY <1>1, <1>2 DEF Code, Shares, InTransaction, References

\* A coupon that a booking shares is the one it names.
LEMMA SharedCoupon ==
    ASSUME Inv, NEW s \in Requests, NEW c \in Coupons, c \in Shares(s)
    PROVE  c = task[s].coupon
<1>1. c \in References(s)
  BY DEF Shares
<1>2. c \notin Named(task[s].items)
  <2>1. task[s].items \in Seq(Item)
    BY DEF Inv, Typed, TaskType
  <2>2. \A i \in DOMAIN task[s].items : task[s].items[i] \in Item
    BY <2>1
  <2> QED BY <2>2, RowsAssumption, PricingAssumption DEF Named, Item
<1> QED BY <1>1, <1>2 DEF References

(***************************************************************************)
(* Without a limit everybody in a circle has inserted a booking; who is    *)
(* waited for and whom that one waits for redeem the same coupon.          *)
(***************************************************************************)
LEMMA CirclesArePairs ==
    ASSUME Inv, ~Limited, NEW C \in (SUBSET Requests) \ {{}},
           \A r \in C : \E s \in C : WaitsFor(r, s)
    PROVE  \E r, s \in C : Deadlocked(r, s)
<1>1. ASSUME NEW r \in C PROVE task[r].held = Null
  <2>1. PICK s \in C : WaitsFor(r, s)
    OBVIOUS
  <2>2. task[r].pc \in {"admitted", "inserted"}
    BY <2>1, UnlimitedWaits DEF Blocks
  <2> QED BY <2>2 DEF Inv, Handlers, Sound
<1>2. ASSUME NEW r \in C
      PROVE  \E s \in C : r # s /\ Blocks(s, r)
  <2>1. PICK s \in C : WaitsFor(r, s)
    OBVIOUS
  <2>2. task[s].held \notin References(r) /\ task[s].held \notin CouponsWith(Code(r))
    BY <1>1, NoNullNamed
  <2> QED BY <2>1, <2>2, UnlimitedWaits
<1>3. ASSUME NEW r \in C
      PROVE  \E s \in C : r # s /\ task[s].coupon \in CouponsWith(Code(r))
  <2>1. PICK s \in C : r # s /\ Blocks(s, r)
    BY <1>2
  <2>2. PICK c \in CouponsWith(Code(r)) : c \in Shares(s)
    BY <2>1 DEF Blocks
  <2>3. c = task[s].coupon
    BY <2>2, SharedCoupon DEF CouponsWith
  <2> QED BY <2>1, <2>2, <2>3
<1>4. \A r \in C : task[r].pc = "inserted"
  BY <1>2 DEF Blocks
<1>5. PICK r \in C : TRUE
  OBVIOUS
<1>6. PICK s \in C : task[s].coupon \in CouponsWith(Code(r))
  BY <1>3, <1>5
<1>7. PICK u \in C : s # u /\ task[u].coupon \in CouponsWith(Code(s))
  BY <1>3
<1>8. task[s].coupon # Null /\ task[u].coupon # Null
  BY <1>6, <1>7, PricingAssumption DEF CouponsWith
<1>9. task[s].coupon = task[u].coupon
  <2>1. task[s].coupon \in CouponsWith(Ask[s].code) /\ Code(s) = Ask[s].code
    BY <1>4, <1>8, RedeemersShare
  <2> QED BY <1>7, <2>1 DEF CouponsWith, Inv, CodesDiffer
<1>10. /\ task[u].coupon \in CouponsWith(Code(u)) \cap Shares(s)
       /\ task[s].coupon \in CouponsWith(Code(s)) \cap Shares(u)
  BY <1>4, <1>8, <1>9, RedeemersShare
<1>11. Mates(s) = {s} /\ Mates(u) = {u}
  BY UnlimitedAlone
<1>12. Blocks(s, u) /\ Blocks(u, s)
  BY <1>4, <1>7, <1>10, <1>11 DEF Blocks
<1> QED BY <1>12 DEF Deadlocked

\* A delete in a circle: the delete of a coupon waits for a promotion in it.
LEMMA DeletesWaitForPromotions ==
    ASSUME Inv, NEW C \in SUBSET Owners, \A a \in C : \E o \in C : WaitsFor(a, o),
           NEW x \in C, x \in dying
    PROVE  Promoter \in C /\ \E c \in C \cap Coupons : WaitsFor(c, Promoter)
<1>1. ASSUME NEW y \in dying
      PROVE  y \in Rows /\ y \notin Requests /\ y # Promoter /\ y # Null
  BY RowsAssumption, PricingAssumption DEF Inv, Typed, Rows
<1>2. ASSUME NEW c \in C, c \in dying \cap Coupons
      PROVE  Promoter \in C /\ \E d \in C \cap Coupons : WaitsFor(d, Promoter)
  <2>1. PICK o \in C : WaitsFor(c, o)
    OBVIOUS
  <2>2. o = Promoter
    BY <1>1, <1>2, <2>1 DEF WaitsFor
  <2> QED BY <1>2, <2>1, <2>2
<1>3. CASE x \notin Coupons
  <2>1. Naming(x) = {}
    <3>1. \A r \in Requests : entry[r].coupon \in Coupons \cup {Null}
      BY DEF Inv, Typed, EntryType, CouponRef
    <3> QED BY <1>1, <1>3, <3>1 DEF Naming, Waiting
  <2>2. PICK o \in C : WaitsFor(x, o)
    OBVIOUS
  <2>3. o \in dying \cap Coupons
    BY <1>1, <2>1, <2>2 DEF WaitsFor
  <2> QED BY <1>2, <2>3
<1> QED BY <1>2, <1>3

(***************************************************************************)
(* However many bookings, claims, promotions and deletes wait for each     *)
(* other: two bookings wait for each other's coupon, and then the event    *)
(* has no limit, or the delete of a coupon waits for a promotion.          *)
(***************************************************************************)
THEOREM CirclesOfWaits == Spec => []LockOrder
<1>1. ASSUME Inv, NEW C \in (SUBSET Owners) \ {{}},
             \A a \in C : \E o \in C : WaitsFor(a, o)
      PROVE  \/ ~Limited /\ \E r, s \in C \cap Requests : Deadlocked(r, s)
             \/ Promoter \in C /\ \E c \in C \cap Coupons : WaitsFor(c, Promoter)
  <2>1. CASE C \cap dying # {}
    BY <1>1, <2>1, DeletesWaitForPromotions
  <2>2. CASE C \cap dying = {} /\ Limited
    <3>1. C \subseteq Requests \cup {Promoter}
      BY <2>2 DEF Owners
    <3>2. PICK a \in C, o \in C : WaitsFor(a, o)
      BY <1>1
    <3>3. lock = o
      BY <1>1, <2>2, <3>1, <3>2, LimitedWaits
    <3>4. PICK p \in C : WaitsFor(o, p)
      BY <1>1
    <3>5. \/ o \in Requests /\ task[o].pc \in {"quoted", "called"}
          \/ o = Promoter /\ promo.pc = "called"
      BY <1>1, <2>2, <3>1, <3>4, LimitedWaits
    <3> QED BY <1>1, <3>3, <3>5 DEF Inv, EventHeldOnce, PromotionHolds, Open
  <2>3. CASE C \cap dying = {} /\ ~Limited
    <3>1. Promoter \notin C
      <4>1. \A o : ~WaitsFor(Promoter, o)
        <5>1. Promoter \notin Requests /\ Promoter \notin dying
          BY <1>1, RowsAssumption DEF Inv, Typed
        <5> QED BY <1>1, <2>3, <5>1, UnlimitedAlone DEF WaitsFor
      <4> QED BY <1>1, <4>1
    <3>2. C \subseteq Requests
      BY <2>3, <3>1 DEF Owners
    <3> QED BY <1>1, <2>3, <3>2, CirclesArePairs
  <2> QED BY <2>1, <2>2, <2>3
<1>2. Inv => LockOrder
  BY <1>1 DEF LockOrder
<1> QED BY <1>2, Invariance, PTL

-----------------------------------------------------------------------------
(* What ends the serving of a waitlist row.                                *)

Stops(r) == task'[r].pc \in {"waiting", "failed"}

\* Before its transaction a request changes only what it knows itself.
LEMMA OthersStay ==
    ASSUME Typed, NEW r \in Requests, NEW s \in Requests, r # s,
           Compute(s) \/ ShowQuote(s) \/ Admit(s) \/ Claim(s) \/ ReadEntry(s)
    PROVE  task'[r] = task[r]
<1>1. task \in [Requests -> TaskType]
  BY DEF Typed
<1>2. \A pc : Goto(s, pc) \/ Answer(s, pc) => task'[r] = task[r]
  BY <1>1 DEF Goto, Answer
<1>3. GetActivePhase(s) => task'[r] = task[r]
  BY <1>1, <1>2 DEF GetActivePhase
<1>4. GetPrice(s) => task'[r] = task[r]
  BY <1>1, <1>2 DEF GetPrice
<1>5. PriceDonation(s) => task'[r] = task[r]
  BY <1>1, <1>2 DEF PriceDonation
<1>6. GetCoupon(s) => task'[r] = task[r]
  BY <1>1, <1>2 DEF GetCoupon
<1>7. NoCoupon(s) \/ CheckUses(s) \/ ReadEvent(s) => task'[r] = task[r]
  BY <1>2 DEF NoCoupon, CheckUses, ReadEvent
<1>8. CheckFilters(s) => task'[r] = task[r]
  BY <1>1, <1>2 DEF CheckFilters
<1>9. ShowQuote(s) \/ Admit(s) => task'[r] = task[r]
  BY <1>2 DEF ShowQuote, Admit
<1>10. Claim(s) \/ ReadEntry(s) => task'[r] = task[r]
  BY <1>1 DEF Claim, ReadEntry
<1> QED BY <1>3, <1>4, <1>5, <1>6, <1>7, <1>8, <1>9, <1>10 DEF Compute

\* A late request is in its transaction or about to begin it.
LEMMA LateFacts ==
    ASSUME Inv, NEW r \in Requests, task[r].late
    PROVE  /\ Limited /\ task[r] \in TaskType
           /\ task[r].pc \notin Answers \cup Quoting \cup {"new"}
           /\ \A s \in Requests : r \in Mates(s) => s \in Mates(r) /\ task[s].late
<1>1. ASSUME NEW s \in Requests, r \in Mates(s) PROVE s \in Mates(r) /\ task[s].late
  BY <1>1 DEF Mates, Inv, PromotionHolds
<1> QED BY <1>1 DEF Inv, Typed, Handlers, Sound, Open, Answers, Quoting

\* Quotes and answers of others do not stop it, nor does its own beginning.
LEMMA BeginningsDoNotStop ==
    ASSUME Inv, NEW r \in Requests, task[r].late, NEW s \in Requests,
           \/ Compute(s) \/ ShowQuote(s) \/ Admit(s) \/ Claim(s) \/ ReadEntry(s)
           \/ LockEvent(s) \/ Turn(s)
    PROVE  ~Stops(r)
<1>1. /\ task[r] \in TaskType /\ task \in [Requests -> TaskType]
      /\ task[r].pc \notin Answers \cup Quoting \cup {"new"}
  BY LateFacts DEF Inv, Typed
<1>2. task'[r] = task[r] => ~Stops(r)
  BY <1>1 DEF Stops, Answers
<1>3. ASSUME NEW pc \in Steps \ {"waiting", "failed"}, Goto(s, pc) \/ Answer(s, pc)
      PROVE  ~Stops(r)
  BY <1>1, <1>2, <1>3 DEF Goto, Answer, Stops, TaskType, Idle
<1>4. CASE LockEvent(s) \/ Turn(s)
  BY <1>3, <1>4 DEF LockEvent, Turn, Steps, Open
<1>5. CASE ReadEvent(s)
  BY <1>3, <1>5 DEF ReadEvent, Steps, Answers
<1>6. CASE /\ ~ReadEvent(s)
           /\ Compute(s) \/ ShowQuote(s) \/ Admit(s) \/ Claim(s) \/ ReadEntry(s)
  <2>1. r # s
    BY <1>1, <1>6 DEF Compute, GetActivePhase, GetPrice, PriceDonation, NoCoupon, Priced,
         GetCoupon, CheckUses, CheckFilters, ShowQuote, Admit, Claim, ReadEntry, Answers, Quoting
  <2> QED BY <1>2, <1>6, <2>1, OthersStay DEF Inv
<1> QED BY <1>4, <1>5, <1>6

\* A transaction's error stops those it serves.
LEMMA FailStops ==
    ASSUME Inv, NEW r \in Requests, task[r].late, NEW s \in Requests, Fail(s), Stops(r)
    PROVE  s \in Mates(r) /\ task[s].late
<1>1. task[r].pc \notin Answers
  BY LateFacts
<1>2. r \notin Mates(s) => task'[r] = task[r]
  BY DEF Fail, Undone
<1>3. r \in Mates(s)
  BY <1>1, <1>2 DEF Stops, Answers
<1> QED BY <1>3, LateFacts

LEMMA BookStops ==
    ASSUME Inv, NEW r \in Requests, task[r].late, NEW s \in Requests, Book(s), Stops(r)
    PROVE  \E m \in Mates(r) : ~(References(m) \subseteq live)
<1>1. /\ Limited /\ task[r] \in TaskType /\ task \in [Requests -> TaskType]
      /\ task[r].pc \notin Answers \cup Quoting \cup {"new"}
  BY LateFacts DEF Inv, Typed
<1>2. task'[r] # task[r]
  BY <1>1 DEF Stops, Answers
<1>3. \A pc \in Steps \ {"waiting", "failed"} : ~Goto(s, pc)
  BY <1>1, <1>2 DEF Goto, Stops, TaskType
<1>4. ~(Admit(s) \/ LockEvent(s) \/ Turn(s))
  BY BeginningsDoNotStop
<1>5. ~Join(s)
  <2>1. ASSUME Join(s) PROVE FALSE
    <3>1. task[s].pc = "quoted" /\ ~task[s].late
      BY <2>1 DEF Join, Inv, Handlers, Sound, Open
    <3>2. r # s
      BY <3>1
    <3>3. ~Answer(s, "waiting")
      BY <1>1, <1>2, <3>2 DEF Answer
    <3>4. Fail(s)
      BY <2>1, <3>3 DEF Join
    <3> QED BY <3>1, <3>4, FailStops
  <2> QED BY <2>1
<1>6. ~LockCoupon(s)
  <2>1. ~Goto(s, "recorded")
    BY <1>3 DEF Steps, Open
  <2>2. \A c : task' # [task EXCEPT ![s].pc = "locked", ![s].held = c]
    BY <1>1, <1>2 DEF TaskType, Stops
  <2> QED BY <2>1, <2>2 DEF LockCoupon
<1>7. ~Redeem(s)
  <2>1. \A b : task' # [task EXCEPT ![s].pc = "recorded", ![s].redeems = b]
    BY <1>1, <1>2 DEF TaskType, Stops
  <2>2. Redeem(s) => Fail(s) /\ ~task[s].late
    BY <2>1 DEF Redeem
  <2> QED BY <2>2, FailStops
<1>8. ~Commit(s)
  <2>1. task' # [m \in Requests |-> IF m \in Mates(s) THEN [Idle EXCEPT !.pc = "booked"]
                                                    ELSE task[m]]
    BY <1>2 DEF Stops, Idle
  <2> QED BY <2>1 DEF Commit
<1>9. ~Abort(s)
  BY <1>1, NoPairs DEF Abort
<1>10. Insert(s)
  BY <1>4, <1>5, <1>6, <1>7, <1>8, <1>9 DEF Book
<1>11. Fail(s) /\ ~(References(s) \subseteq live)
  <2>1. ~Goto(s, "recorded") /\ ~Goto(s, "inserted")
    BY <1>3 DEF Steps, Open
  <2> QED BY <1>10, <2>1 DEF Insert
<1> QED BY <1>11, FailStops

LEMMA PromotionStops ==
    ASSUME Inv, NEW r \in Requests, task[r].late, Promotion, Stops(r)
    PROVE  r \in promo.batch /\ \E c, x \in dying : Entangled(c, x)
<1>1. task'[r] # task[r]
  BY LateFacts DEF Stops, Answers
<1>2. ~StartPromotion /\ \A s : ~LockEntry(s)
  BY <1>1 DEF StartPromotion, LockEntry
<1>3. \A P \in SUBSET Waiting : ~Allocate(P)
  <2>1. ASSUME NEW P \in SUBSET Waiting,
               task' = [s \in Requests |-> IF s \in P THEN Frozen(s, "queued") ELSE task[s]]
        PROVE  FALSE
    <3>1. Frozen(r, "queued").pc = "queued"
      BY FrozenTyped DEF Inv, Steps, Open
    <3> QED BY <1>1, <2>1, <3>1 DEF Stops
  <2> QED BY <1>1, <2>1 DEF Allocate
<1>4. AbortPromotion
  BY <1>2, <1>3 DEF Promotion
<1> QED BY <1>1, <1>4 DEF AbortPromotion, Undone

\* Organizers and deletes leave the handlers alone.
LEMMA OrganizerLeavesTasks ==
    ASSUME Organizer \/ Deletes \/ CallPromoter \/ Tick
    PROVE  task' = task
<1>1. \A op : Edits(op) => task' = task
  BY DEF Edits
<1>2. Organizer => task' = task
  BY <1>1 DEF Organizer, SwitchMode, CreatePhase, DeletePhase, CreateCategory, DeleteCategory,
              CreateDuration, DeleteDuration, SetPrice, DeletePrice, SetDonation, CreateCoupon,
              DeleteCoupon, Cancel, EditContact, OpenPage, ReadPage, MissPage, Looks
<1>3. Deletes => task' = task
  BY DEF Deletes, ForgetRow, TouchEntry, ForgetCoupon, AbortDelete
<1> QED BY <1>2, <1>3 DEF CallPromoter, Tick

(***************************************************************************)
(* waitlist_promote.go: a transaction that serves waitlist rows is undone  *)
(* only because a row it serves names what no longer exists, or in a       *)
(* circle of waits with the delete of a coupon; never because a coupon is  *)
(* used up, has lapsed or was redeemed under that address.                 *)
(***************************************************************************)
THEOREM ServingEndsByDeletes == Spec => OnlyDeletesStopServing
<1> DEFINE Q == \A r \in Requests :
                  task[r].late /\ task'[r].pc \in {"waiting", "failed"} =>
                    \/ \E s \in Mates(r) : ~(References(s) \subseteq live)
                    \/ r \in promo.batch /\ \E c, x \in dying : Entangled(c, x)
<1>1. ASSUME Inv, NEW r \in Requests, task[r].late, Stops(r), [Next]_vars
      PROVE  \/ \E s \in Mates(r) : ~(References(s) \subseteq live)
             \/ r \in promo.batch /\ \E c, x \in dying : Entangled(c, x)
  <2>1. task'[r] # task[r]
    BY <1>1, LateFacts DEF Stops, Answers
  <2>2. Next /\ ~(Organizer \/ Deletes \/ CallPromoter \/ Tick)
    BY <1>1, <2>1, OrganizerLeavesTasks DEF vars
  <2>3. CASE Promotion
    BY <1>1, <2>3, PromotionStops
  <2>4. CASE \E s \in Requests : Book(s)
    BY <1>1, <2>4, BookStops
  <2>5. CASE \E s \in Requests : Compute(s) \/ ShowQuote(s) \/ Claim(s) \/ ReadEntry(s)
    BY <1>1, <2>5, BeginningsDoNotStop
  <2> QED BY <2>2, <2>3, <2>4, <2>5 DEF Next
<1>2. Inv /\ [Next]_vars => [Q]_vars
  BY <1>1 DEF Stops
<1> QED BY <1>2, Invariance, PTL DEF Spec, OnlyDeletesStopServing
=============================================================================
