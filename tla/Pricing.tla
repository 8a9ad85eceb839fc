------------------------------- MODULE Pricing -------------------------------
(***************************************************************************)
(* The price engine (internal/pricing): which phase is active, which price *)
(* row a selection gets, whether a coupon applies and what it takes off.   *)
(* Amounts are minor units.  A price row is one record; there is no        *)
(* handler that edits a phase, category, duration or coupon after it was   *)
(* created, so what they say is constant and Checkout keeps only whether   *)
(* they exist.                                                             *)
(***************************************************************************)
EXTENDS Integers, Sequences, SequencesExt

CONSTANTS
    Null,        \* SQL NULL; no row
    Phases, Categories, Durations, Coupons,
    PhaseRow,    \* price_phases: from, to, ordering
    CouponRow    \* coupons and their filter rows at creation

Kinds == {"fixed_reduce", "percental_reduce", "guestlist"}

\* phaseReq.validate, couponReq.validate and the CHECKs of migration 00002.
ValidPhase(p)  == p.from < p.to
ValidCoupon(c) ==
    /\ c.type \in Kinds
    /\ c.type = "fixed_reduce" => c.value \in Nat \ {0}
    /\ c.type = "percental_reduce" => c.value \in 1..100
    /\ c.maxUses \in Nat \cup {Null}
    /\ c.phases \subseteq Phases /\ c.categories \subseteq Categories

ASSUME PricingAssumption ==
    /\ \A p \in Phases : ValidPhase(PhaseRow[p])
    /\ \A c \in Coupons : ValidCoupon(CouponRow[c])
    /\ Null \notin Phases \cup Categories \cup Durations \cup Coupons \cup Int

-----------------------------------------------------------------------------
(* Which row a query may return.                                           *)

\* GetActivePhaseForEvent: the lowest ordering among the phases that contain
\* the moment.  Ties are broken by a random UUID: any of them.
ActivePhases(live, when) ==
    LET open == {p \in live \cap Phases :
                   PhaseRow[p].from <= when /\ when < PhaseRow[p].to}
    IN  {p \in open : \A q \in open : PhaseRow[p].ordering <= PhaseRow[q].ordering}

\* The cell of the price matrix a row belongs to.
Cell(row) == <<row.phase, row.category, row.duration>>

\* GetPriceFor compares the duration with IS NOT DISTINCT FROM and takes
\* LIMIT 1 of whatever rows match.
PricesFor(prices, phase, selection) ==
    {row \in prices : Cell(row) = <<phase, selection.category, selection.duration>>}

\* UpsertPrice: ON CONFLICT (phase_id, category_id, duration_id) DO UPDATE.
\* NULLs are distinct in that constraint, so a row without a duration never
\* conflicts and a second row is inserted.
UpsertPrice(prices, new) ==
    LET conflict == {row \in prices : Cell(row) = Cell(new) /\ new.duration # Null}
    IN  IF conflict = {}
          THEN prices \cup {new}
          ELSE (prices \ conflict)
                 \cup {[row EXCEPT !.amount = new.amount] : row \in conflict}

-----------------------------------------------------------------------------
(* Amounts.                                                                *)

Subtotal(items) == FoldSeq(LAMBDA item, sum : item.amount + sum, 0, items)

\* Mutant: truncated.
MPercentTruncates(amount, percent) == (amount * percent) \div 100

\* Round half up.
PercentMinor(amount, percent) ==
    LET n == amount * percent
    IN  n \div 100 + IF n % 100 >= 50 THEN 1 ELSE 0

ComputeDiscount(c, subtotal) ==
    CASE c.type = "fixed_reduce"     -> c.value
      [] c.type = "percental_reduce" -> PercentMinor(subtotal, c.value)
      [] c.type = "guestlist"        -> subtotal

\* applyCoupon never takes off more than there is.
Discount(c, subtotal) ==
    LET d == ComputeDiscount(c, subtotal) IN IF d > subtotal THEN subtotal ELSE d

-----------------------------------------------------------------------------
(* Eligibility, one operator per read of checkCouponEligibility.           *)

InPeriod(c, when) == /\ c.from # Null => c.from <= when
                     /\ c.to # Null => when <= c.to

UsesLeft(c, uses) == c.maxUses # Null => uses < c.maxUses

\* A filter list that is empty filters nothing.
FiltersAllow(phases, categories, items) ==
    \A i \in DOMAIN items :
      /\ phases # {} => items[i].phase \in phases
      /\ categories # {} => items[i].category \in categories
=============================================================================
