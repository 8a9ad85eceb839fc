-------------------------- MODULE AllocationProofs --------------------------
(***************************************************************************)
(* Facts about the allocation rule, for any number of waiters and seats.   *)
(***************************************************************************)
EXTENDS Allocation, FiniteSetTheorems, WellFoundedInduction, TLAPS

(***************************************************************************)
(* Among finitely many waiters one came first.                             *)
(***************************************************************************)
LEMMA Earliest ==
    ASSUME NEW W, IsFiniteSet(W), W # {}, NEW stamp \in [W -> Int]
    PROVE  \E w \in W : \A v \in W : stamp[w] <= stamp[v]
<1> DEFINE upto(w) == {v \in W : stamp[v] <= stamp[w]}
           T == {upto(w) : w \in W}
           R == StrictSubsetOrdering(W)
<1>1. T \subseteq FiniteSubsetsOf(W) /\ T # {}
  <2>1. \A w \in W : upto(w) \in SUBSET W /\ IsFiniteSet(upto(w))
    BY FS_Subset
  <2>2. \A w \in W : upto(w) \in FiniteSubsetsOf(W)
    BY <2>1 DEF FiniteSubsetsOf
  <2> HIDE DEF upto
  <2> QED BY <2>2
<1>2. PICK w \in W : \A v \in W : <<upto(v), upto(w)>> \notin R
  <2> HIDE DEF T
  <2>1. PICK x \in T : \A y \in T : <<y, x>> \notin R
    BY <1>1, WFMin, FS_StrictSubsetOrderingWellFounded
  <2> QED BY <2>1 DEF T
<1>3. ASSUME NEW v \in W, ~ (stamp[w] <= stamp[v]) PROVE FALSE
  <2>1. stamp[v] \in Int /\ stamp[w] \in Int
    OBVIOUS
  <2>2. upto(v) \subseteq upto(w)
    BY <1>3, <2>1
  <2>3. w \in upto(w) /\ w \notin upto(v)
    BY <1>3, <2>1
  <2>4. <<upto(v), upto(w)>> \in R
    BY <2>2, <2>3 DEF StrictSubsetOrdering
  <2> QED BY <2>4, <1>2
<1> QED BY <1>3

(***************************************************************************)
(* ... and one came last.                                                  *)
(***************************************************************************)
LEMMA Latest ==
    ASSUME NEW W, IsFiniteSet(W), W # {}, NEW stamp \in [W -> Int]
    PROVE  \E w \in W : \A v \in W : stamp[v] <= stamp[w]
<1> DEFINE back == [w \in W |-> -stamp[w]]
<1>1. PICK w \in W : \A v \in W : back[w] <= back[v]
  <2>1. back \in [W -> Int]
    OBVIOUS
  <2> HIDE DEF back
  <2> QED BY <2>1, Earliest
<1>2. \A v \in W : stamp[v] <= stamp[w]
  BY <1>1
<1> QED BY <1>2

(***************************************************************************)
(* Among numbers there is a least one.                                     *)
(***************************************************************************)
LEMMA Least ==
    ASSUME NEW S, S \subseteq Nat, S # {}
    PROVE  \E n \in S : \A m \in S : n <= m
<1>1. PICK n \in S : \A m \in S : ~ (<<m, n>> \in OpToRel(<, Nat))
  BY NatLessThanWellFounded, WFMin
<1>2. ASSUME NEW m \in S PROVE n <= m
  <2>1. <<m, n>> \in Nat \X Nat
    OBVIOUS
  <2>2. ~ (m < n)
    BY <1>1, <2>1 DEF OpToRel
  <2> QED BY <2>2
<1> QED BY <1>2

(***************************************************************************)
(* A set of waiters asks for finitely many seats.                          *)
(***************************************************************************)
LEMMA SeatsOfFinite ==
    ASSUME NEW W, IsFiniteSet(W), NEW need, \A w \in W : need[w] \in Nat
    PROVE  IsFiniteSet(SeatsOf(W, need)) /\ SeatCount(W, need) \in Nat
<1> DEFINE seats == [w \in W |-> {w} \X (1..need[w])]
           S == {seats[w] : w \in W}
<1>1. IsFiniteSet(S)
  <2>1. seats \in Surjection(W, S)
    BY DEF Surjection
  <2> QED BY <2>1, FS_Surjection
<1>2. \A s \in S : IsFiniteSet(s)
  <2>1. \A w \in W : IsFiniteSet({w}) /\ IsFiniteSet(1..need[w])
    BY FS_Singleton, FS_Interval
  <2>2. \A w \in W : IsFiniteSet({w} \X (1..need[w]))
    BY <2>1, FS_Product
  <2> QED BY <2>2
<1>3. UNION S = SeatsOf(W, need)
  BY DEF SeatsOf
<1>4. IsFiniteSet(SeatsOf(W, need))
  BY <1>1, <1>2, <1>3, FS_UNION
<1> QED BY <1>4, FS_CardinalityType DEF SeatCount

(***************************************************************************)
(* One waiter more asks for exactly its own seats more.                    *)
(***************************************************************************)
LEMMA SeatCountRemove ==
    ASSUME NEW W, IsFiniteSet(W), NEW need, \A w \in W : need[w] \in Nat,
           NEW w \in W
    PROVE  SeatCount(W, need) = SeatCount(W \ {w}, need) + need[w]
<1> DEFINE own  == {w} \X (1..need[w])
           rest == SeatsOf(W \ {w}, need)
<1>1. IsFiniteSet(own) /\ Cardinality(own) = need[w]
  <2>1. IsFiniteSet({w}) /\ Cardinality({w}) = 1
    BY FS_Singleton
  <2>2. IsFiniteSet(1..need[w]) /\ Cardinality(1..need[w]) = need[w]
    BY FS_Interval
  <2>3. IsFiniteSet(own) /\ Cardinality(own) = 1 * need[w]
    BY <2>1, <2>2, FS_Product
  <2> QED BY <2>3
<1>2. IsFiniteSet(rest) /\ Cardinality(rest) \in Nat
  <2>1. IsFiniteSet(W \ {w})
    BY FS_RemoveElement
  <2> QED BY <2>1, SeatsOfFinite DEF SeatCount
<1>3. SeatsOf(W, need) = rest \cup own
  BY DEF SeatsOf
<1>4. rest \cap own = {}
  BY DEF SeatsOf
<1>5. Cardinality(rest \cup own) = Cardinality(rest) + Cardinality(own) - 0
  <2> HIDE DEF own, rest
  <2> QED BY <1>1, <1>2, <1>4, FS_Union, FS_EmptySet
<1> QED BY <1>1, <1>2, <1>3, <1>5 DEF SeatCount

(***************************************************************************)
(* No allocation hands out more seats than remain: the conclusion that the *)
(* subtraction `remaining -= w.RequestedSeats' of alloc.go is there for.   *)
(***************************************************************************)
THEOREM AllocationFits ==
    ASSUME NEW W, IsFiniteSet(W), NEW need, \A w \in W : need[w] \in Nat,
           NEW stamp, \A w \in W : stamp[w] \in Int,
           \A v, w \in W : stamp[v] = stamp[w] => v = w,
           NEW remaining \in Nat,
           NEW P, IsAllocation(P, W, stamp, need, remaining)
    PROVE  SeatCount(P, need) <= remaining
<1>1. P \subseteq W /\ IsFiniteSet(P)
  BY FS_Subset DEF IsAllocation
<1>2. CASE P = {}
  <2>1. SeatsOf(P, need) = {}
    BY <1>2 DEF SeatsOf
  <2> QED BY <2>1, FS_EmptySet DEF SeatCount
<1>3. CASE P # {}
  <2> DEFINE at == [w \in P |-> stamp[w]]
  <2>1. PICK last \in P : \A v \in P : at[v] <= at[last]
    <3>1. at \in [P -> Int]
      BY <1>1
    <3> HIDE DEF at
    <3> QED BY <1>1, <1>3, <3>1, Latest
  <2>2. {v \in P : stamp[v] < stamp[last]} = P \ {last}
    BY <2>1, <1>1
  <2>3. SeatCount(P \ {last}, need) + need[last] <= remaining
    BY <2>2, <1>1 DEF IsAllocation
  <2>4. SeatCount(P, need) = SeatCount(P \ {last}, need) + need[last]
    BY <1>1, SeatCountRemove
  <2> QED BY <2>3, <2>4
<1> QED BY <1>2, <1>3

(***************************************************************************)
(* The rule leaves no choice: the queue and the free seats determine who   *)
(* is promoted, so a promotion does not depend on how the rows are listed. *)
(***************************************************************************)
THEOREM AllocationUnique ==
    ASSUME NEW W, IsFiniteSet(W), NEW need,
           NEW stamp, \A w \in W : stamp[w] \in Int,
           NEW remaining,
           NEW P, IsAllocation(P, W, stamp, need, remaining),
           NEW Q, IsAllocation(Q, W, stamp, need, remaining)
    PROVE  P = Q
<1> DEFINE D == {w \in W : ~ (w \in P <=> w \in Q)}
<1>1. P \subseteq W /\ Q \subseteq W
  BY DEF IsAllocation
<1>2. ASSUME D # {} PROVE FALSE
  <2> DEFINE at == [w \in D |-> stamp[w]]
  <2>1. PICK first \in D : \A v \in D : at[first] <= at[v]
    <3>1. IsFiniteSet(D)
      BY FS_Subset
    <3>2. at \in [D -> Int]
      OBVIOUS
    <3> HIDE DEF at, D
    <3> QED BY <1>2, <3>1, <3>2, Earliest
  <2>2. \A v \in W : stamp[v] < stamp[first] => (v \in P <=> v \in Q)
    BY <2>1
  <2>3. {v \in P : stamp[v] < stamp[first]} = {v \in Q : stamp[v] < stamp[first]}
    BY <2>2, <1>1
  <2>4. first \in P <=> first \in Q
    BY <2>3 DEF IsAllocation
  <2> QED BY <2>4
<1> QED BY <1>1, <1>2

(***************************************************************************)
(* Fewer waiters ask for no more seats.                                    *)
(***************************************************************************)
LEMMA SeatCountMonotone ==
    ASSUME NEW W, IsFiniteSet(W), NEW need, \A w \in W : need[w] \in Nat,
           NEW V \in SUBSET W
    PROVE  SeatCount(V, need) \in Nat /\ SeatCount(V, need) <= SeatCount(W, need)
<1>1. IsFiniteSet(V) /\ IsFiniteSet(SeatsOf(W, need))
  BY FS_Subset, SeatsOfFinite
<1>2. SeatsOf(V, need) \subseteq SeatsOf(W, need)
  BY DEF SeatsOf
<1> QED BY <1>1, <1>2, SeatsOfFinite, FS_Subset DEF SeatCount

(***************************************************************************)
(* Of a queue without ties the rule always picks somebody or nobody: it    *)
(* never fails to say who.  Waiter after waiter, in the order of stamps.   *)
(***************************************************************************)
THEOREM AllocationExists ==
    ASSUME NEW W, NEW need, NEW stamp, \A w \in W : stamp[w] \in Nat,
           \A v, w \in W : stamp[v] = stamp[w] => v = w,
           NEW last \in Nat, \A w \in W : stamp[w] <= last,
           NEW remaining
    PROVE  \E P \in SUBSET W : IsAllocation(P, W, stamp, need, remaining)
<1> DEFINE Before(P, n) == {v \in P : stamp[v] < n}
           Fits(P, w) == SeatCount(Before(P, stamp[w]), need) + need[w] <= remaining
           Served(P, n) == \A w \in W : stamp[w] < n => (w \in P <=> Fits(P, w))
           Bad == {n \in Nat : ~ \E P \in SUBSET W : Served(P, n)}
<1>1. ASSUME NEW n \in Bad, \A m \in Bad : n <= m PROVE FALSE
  <2>1. n \in Nat /\ ~ \E P \in SUBSET W : Served(P, n)
    BY <1>1
  <2>2. n # 0
    <3>1. Served({}, 0)
      OBVIOUS
    <3> QED BY <2>1, <3>1
  <2>3. n - 1 \in Nat /\ n - 1 \notin Bad
    <3> HIDE DEF Bad
    <3>1. n - 1 \in Nat /\ ~ (n <= n - 1)
      BY <2>1, <2>2
    <3> QED BY <1>1, <3>1
  <2>4. PICK P \in SUBSET W : Served(P, n - 1)
    BY <2>3
  <2> DEFINE Q == Before(P, n - 1) \cup {w \in W : stamp[w] = n - 1 /\ Fits(P, w)}
  <2>5. Q \in SUBSET W
    OBVIOUS
  <2>6. \A w \in W : stamp[w] < n => Before(Q, stamp[w]) = Before(P, stamp[w])
    BY <2>1
  <2>7. ASSUME NEW w \in W, stamp[w] < n PROVE w \in Q <=> Fits(Q, w)
    <3>1. Fits(Q, w) <=> Fits(P, w)
      BY <2>6, <2>7
    <3>2. CASE stamp[w] < n - 1
      <4>1. w \in Q <=> w \in P
        BY <3>2
      <4>2. w \in P <=> Fits(P, w)
        BY <2>4, <3>2
      <4> QED BY <3>1, <4>1, <4>2
    <3>3. CASE stamp[w] = n - 1
      <4>1. w \in Q <=> Fits(P, w)
        <5> HIDE DEF Fits
        <5> QED BY <2>1, <3>3
      <4> QED BY <3>1, <4>1
    <3>4. stamp[w] < n - 1 \/ stamp[w] = n - 1
      <4>1. n \in Nat /\ stamp[w] \in Nat
        BY <2>1, <2>7
      <4> HIDE DEF Q, Fits, Served, Bad
      <4> QED BY <2>7, <4>1
    <3> HIDE DEF Q, Fits
    <3> QED BY <3>2, <3>3, <3>4
  <2>8. Served(Q, n)
    <3> HIDE DEF Q, Fits
    <3> QED BY <2>7
  <2> HIDE DEF Q, Served
  <2> QED BY <2>1, <2>5, <2>8
<1>2. Bad = {}
  <2> SUFFICES ASSUME Bad # {} PROVE FALSE
    OBVIOUS
  <2>1. Bad \subseteq Nat
    OBVIOUS
  <2> HIDE DEF Bad
  <2> QED BY <1>1, <2>1, Least
<1>3. PICK P \in SUBSET W : Served(P, last + 1)
  <2> HIDE DEF Served
  <2> QED BY <1>2
<1>4. \A w \in W : stamp[w] < last + 1
  OBVIOUS
<1>5. IsAllocation(P, W, stamp, need, remaining)
  BY <1>3, <1>4 DEF IsAllocation
<1> QED BY <1>5
=============================================================================
