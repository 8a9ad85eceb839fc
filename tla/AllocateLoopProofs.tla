------------------------- MODULE AllocateLoopProofs -------------------------
(***************************************************************************)
(* The loop of AllocateFIFO returns what the rule asks for, whatever the   *)
(* queue, the seats asked for and the seats that are free.                 *)
(***************************************************************************)
EXTENDS AllocateLoop, AllocationProofs

-----------------------------------------------------------------------------
(* The seats that are left: the recursion of Left has its function.        *)

\* What the loop leaves after i rows, given what it left before.
Step(f, q, n, g, i) ==
    IF i = 0 THEN f
    ELSE IF n[q[i]] \in 1..g[i - 1] THEN g[i - 1] - n[q[i]] ELSE g[i - 1]

LEMMA LeftUpTo ==
    ASSUME NEW f, NEW q \in Seq(Waiters), NEW n
    PROVE  \A m \in Nat : \E g : \A i \in 0..Len(q) : i <= m => g[i] = Step(f, q, n, g, i)
<1> DEFINE Works(g, m) == \A i \in 0..Len(q) : i <= m => g[i] = Step(f, q, n, g, i)
           Bad == {m \in Nat : ~ (\E g : Works(g, m))}
<1>1. ASSUME NEW m \in Bad, \A x \in Bad : m <= x PROVE FALSE
  <2>1. CASE m = 0
    <3> DEFINE g == [i \in 0..Len(q) |-> f]
    <3>1. \A i \in 0..Len(q) : i <= 0 => g[i] = Step(f, q, n, g, i)
      BY DEF Step
    <3>2. Works(g, m)
      <4> HIDE DEF g
      <4> QED BY <3>1, <2>1
    <3> QED BY <3>2
  <2>2. CASE m # 0
    <3>1. m - 1 \in Nat /\ m - 1 \notin Bad
      <4>1. m \in Nat
        BY <1>1
      <4> HIDE DEF Bad
      <4>2. m - 1 \in Nat /\ ~(m <= m - 1)
        BY <2>2, <4>1
      <4> QED BY <1>1, <4>2
    <3>2. PICK h : Works(h, m - 1)
      BY <3>1
    <3> DEFINE g == [i \in 0..Len(q) |-> Step(f, q, n, h, i)]
    <3>3. \A i \in 0..Len(q) : i <= m - 1 => g[i] = h[i]
      BY <3>2
    <3>4. ASSUME NEW i \in 0..Len(q), i <= m PROVE g[i] = Step(f, q, n, g, i)
      <4>1. g[i] = Step(f, q, n, h, i)
        OBVIOUS
      <4>2. i # 0 => g[i - 1] = h[i - 1]
        <5>1. m \in Nat
          OBVIOUS
        <5> HIDE DEF g, Bad, Works
        <5> QED BY <3>3, <3>4, <5>1
      <4> HIDE DEF g
      <4> QED BY <4>1, <4>2 DEF Step
    <3>5. Works(g, m)
      <4> HIDE DEF g
      <4> QED BY <3>4
    <3> QED BY <3>5
  <2> QED BY <2>1, <2>2
<1>2. Bad = {}
  <2> HIDE DEF Bad
  <2>1. Bad \subseteq Nat
    BY DEF Bad
  <2> QED BY <1>1, <2>1, Least
<1>3. \A m \in Nat : \E g : Works(g, m)
  <2> HIDE DEF Works
  <2> QED BY <1>2
<1> QED BY <1>3

LEMMA LeftSteps ==
    ASSUME NEW f, NEW q \in Seq(Waiters), NEW n
    PROVE  \A i \in 0..Len(q) : Left(f, q, n)[i] = Step(f, q, n, Left(f, q, n), i)
<1> DEFINE Is(g) == g = [i \in 0..Len(q) |-> Step(f, q, n, g, i)]
           left == CHOOSE g : Is(g)
<1>1. Len(q) \in Nat
  OBVIOUS
<1>2. PICK h : \A i \in 0..Len(q) : h[i] = Step(f, q, n, h, i)
  <2>1. PICK h : \A i \in 0..Len(q) : i <= Len(q) => h[i] = Step(f, q, n, h, i)
    BY <1>1, LeftUpTo
  <2> QED BY <1>1, <2>1
<1> DEFINE g == [i \in 0..Len(q) |-> h[i]]
<1>3. \A i \in 0..Len(q) : Step(f, q, n, h, i) = Step(f, q, n, g, i)
  BY <1>1 DEF Step
<1>4. Is(g)
  <2>1. \A i \in 0..Len(q) : h[i] = Step(f, q, n, g, i)
    BY <1>2, <1>3
  <2> QED BY <2>1
<1>5. Is(left)
  <2> HIDE DEF Is, g
  <2> QED BY <1>4
<1>6. Left(f, q, n) = left
  BY DEF Left, Step
<1> HIDE DEF left
<1> QED BY <1>5, <1>6

\* The input of the loop.
Input(f, q, n) == f \in Int /\ q \in Seq(Waiters) /\ n \in [Waiters -> Nat]

LEMMA LeftTyped ==
    ASSUME NEW f, NEW q, NEW n, Input(f, q, n)
    PROVE  \A i \in 0..Len(q) : Left(f, q, n)[i] \in Int
<1> DEFINE L == Left(f, q, n)
           Bad == {i \in 0..Len(q) : L[i] \notin Int}
<1>1. Len(q) \in Nat /\ \A i \in 1..Len(q) : n[q[i]] \in Nat
  BY DEF Input
<1>2. ASSUME NEW i \in Bad, \A j \in Bad : i <= j PROVE FALSE
  <2>1. L[i] = Step(f, q, n, L, i)
    BY LeftSteps DEF Input
  <2> HIDE DEF L
  <2>2. i # 0
    BY <2>1 DEF Step, Input
  <2>3. i - 1 \in 0..Len(q) /\ i - 1 \notin Bad
    BY <1>1, <1>2, <2>2
  <2>4. L[i - 1] \in Int /\ n[q[i]] \in Nat
    BY <1>1, <2>2, <2>3
  <2> QED BY <2>1, <2>2, <2>4 DEF Step
<1>3. Bad = {}
  <2>1. Bad \subseteq Nat
    BY <1>1
  <2> HIDE DEF Bad
  <2> QED BY <1>2, <2>1, Least
<1> QED BY <1>3

\* A row of the queue is promoted in its turn.
Fitting(f, q, n, i) == n[q[i]] \in 1..Left(f, q, n)[i - 1]

LEMMA LeftStep ==
    ASSUME NEW f, NEW q, NEW n, Input(f, q, n), NEW i \in 1..Len(q)
    PROVE  /\ Left(f, q, n)[i] = IF Fitting(f, q, n, i)
                                   THEN Left(f, q, n)[i - 1] - n[q[i]]
                                   ELSE Left(f, q, n)[i - 1]
           /\ Left(f, q, n)[i] \in Int /\ Left(f, q, n)[i - 1] \in Int
           /\ n[q[i]] \in Nat /\ q[i] \in Waiters
<1>1. Len(q) \in Nat /\ n[q[i]] \in Nat /\ q[i] \in Waiters
  BY DEF Input
<1>2. i \in 0..Len(q) /\ i - 1 \in 0..Len(q) /\ i # 0
  BY <1>1
<1>3. Left(f, q, n)[i] = Step(f, q, n, Left(f, q, n), i)
  BY <1>2, LeftSteps DEF Input
<1>4. Left(f, q, n)[i] \in Int /\ Left(f, q, n)[i - 1] \in Int
  BY <1>2, LeftTyped
<1> QED BY <1>1, <1>2, <1>3, <1>4 DEF Step, Fitting

LEMMA LeftFirst == ASSUME NEW f, NEW q, NEW n, Input(f, q, n) PROVE Left(f, q, n)[0] = f
<1>1. Len(q) \in Nat /\ 0 \in 0..Len(q)
  BY DEF Input
<1>2. Left(f, q, n)[0] = Step(f, q, n, Left(f, q, n), 0)
  BY <1>1, LeftSteps DEF Input
<1> QED BY <1>2 DEF Step

(***************************************************************************)
(* What is left never grows, stays put once nothing is left, and does not  *)
(* fall below zero.                                                        *)
(***************************************************************************)
LEMMA LeftShrinks ==
    ASSUME NEW f, NEW q, NEW n, Input(f, q, n), NEW i \in 0..Len(q), NEW j \in 0..Len(q), i <= j
    PROVE  /\ Left(f, q, n)[j] <= Left(f, q, n)[i]
           /\ Left(f, q, n)[i] <= 0 => Left(f, q, n)[j] = Left(f, q, n)[i]
           /\ Left(f, q, n)[i] >= 0 => Left(f, q, n)[j] >= 0
<1> DEFINE L == Left(f, q, n)
           Good(x) == /\ L[x] <= L[i]
                      /\ L[i] <= 0 => L[x] = L[i]
                      /\ L[i] >= 0 => L[x] >= 0
           Bad == {x \in i..Len(q) : ~Good(x)}
<1>1. Len(q) \in Nat /\ L[i] \in Int
  BY LeftTyped DEF Input
<1>2. ASSUME NEW x \in Bad, \A y \in Bad : x <= y PROVE FALSE
  <2>1. x # i
    BY <1>1
  <2>2. x \in 1..Len(q) /\ x - 1 \in i..Len(q) /\ x - 1 \notin Bad
    BY <1>1, <1>2, <2>1
  <2>3. Good(x - 1)
    BY <2>2
  <2>4. /\ L[x] = IF Fitting(f, q, n, x) THEN L[x - 1] - n[q[x]] ELSE L[x - 1]
        /\ L[x] \in Int /\ L[x - 1] \in Int /\ n[q[x]] \in Nat
    BY <2>2, LeftStep
  <2>5. Fitting(f, q, n, x) => n[q[x]] \in 1..L[x - 1]
    BY DEF Fitting
  <2>6. ~Good(x)
    OBVIOUS
  <2> HIDE DEF L
  <2> QED BY <1>1, <2>3, <2>4, <2>5, <2>6
<1>3. Bad = {}
  <2>1. Bad \subseteq Nat
    BY <1>1
  <2> HIDE DEF Bad
  <2> QED BY <1>2, <2>1, Least
<1>4. j \in i..Len(q)
  BY <1>1
<1>5. Good(j)
  BY <1>3, <1>4
<1> QED BY <1>5

\* The promotions among the first k rows.
Promoted(f, q, n, k) == {q[i] : i \in {j \in 1..k : Fitting(f, q, n, j)}}

Distinct(q) == \A i, j \in 1..Len(q) : q[i] = q[j] => i = j

LEMMA PromotedNext ==
    ASSUME NEW f, NEW q, NEW n, Input(f, q, n), Distinct(q), NEW k \in 1..Len(q)
    PROVE  /\ Promoted(f, q, n, k) = IF Fitting(f, q, n, k)
                                       THEN Promoted(f, q, n, k - 1) \cup {q[k]}
                                       ELSE Promoted(f, q, n, k - 1)
           /\ q[k] \notin Promoted(f, q, n, k - 1)
           /\ Promoted(f, q, n, k) \subseteq Waiters
<1>1. Len(q) \in Nat /\ \A i \in 1..Len(q) : q[i] \in Waiters
  BY DEF Input
<1>2. 1..k = (1..(k - 1)) \cup {k} /\ 1..k \subseteq 1..Len(q) /\ k \notin 1..(k - 1)
  BY <1>1
<1> QED BY <1>1, <1>2 DEF Promoted, Distinct

(***************************************************************************)
(* What the first promotions take and what is left add up to what was      *)
(* free.                                                                   *)
(***************************************************************************)
LEMMA SeatsAddUp ==
    ASSUME NEW f, NEW q, NEW n, Input(f, q, n), Distinct(q), NEW k \in 0..Len(q)
    PROVE  SeatCount(Promoted(f, q, n, k), n) + Left(f, q, n)[k] = f
<1> DEFINE L == Left(f, q, n)
           P(x) == Promoted(f, q, n, x)
           Bad == {x \in 0..Len(q) : SeatCount(P(x), n) + L[x] # f}
<1>1. Len(q) \in Nat /\ f \in Int
  BY DEF Input
<1>2. ASSUME NEW x \in Bad, \A y \in Bad : x <= y PROVE FALSE
  <2>1. x # 0
    <3>1. P(0) = {}
      BY DEF Promoted
    <3>2. SeatsOf({}, n) = {}
      BY DEF SeatsOf
    <3>3. SeatCount(P(0), n) = 0
      BY <3>1, <3>2, FS_EmptySet DEF SeatCount
    <3>4. L[0] = f
      BY LeftFirst
    <3> HIDE DEF P, L
    <3> QED BY <1>1, <3>3, <3>4
  <2>2. x \in 1..Len(q) /\ x - 1 \in 0..Len(q) /\ x - 1 \notin Bad
    BY <1>1, <1>2, <2>1
  <2>3. SeatCount(P(x - 1), n) + L[x - 1] = f
    BY <2>2
  <2>4. /\ L[x] = IF Fitting(f, q, n, x) THEN L[x - 1] - n[q[x]] ELSE L[x - 1]
        /\ L[x] \in Int /\ L[x - 1] \in Int /\ n[q[x]] \in Nat
    BY <2>2, LeftStep
  <2>5. /\ P(x) = IF Fitting(f, q, n, x) THEN P(x - 1) \cup {q[x]} ELSE P(x - 1)
        /\ q[x] \notin P(x - 1) /\ P(x) \subseteq Waiters
    BY <2>2, PromotedNext
  <2>6. SeatCount(P(x), n) + L[x] # f
    OBVIOUS
  <2>7. CASE ~Fitting(f, q, n, x)
    <3> HIDE DEF P, L
    <3> QED BY <2>3, <2>4, <2>5, <2>6, <2>7
  <2>8. CASE Fitting(f, q, n, x)
    <3>1. IsFiniteSet(P(x)) /\ \A w \in P(x) : n[w] \in Nat
      BY <2>5, AllocateLoopAssumption, FS_Subset DEF Input
    <3>2. P(x) \ {q[x]} = P(x - 1) /\ q[x] \in P(x)
      BY <2>5, <2>8
    <3>3. SeatCount(P(x), n) = SeatCount(P(x) \ {q[x]}, n) + n[q[x]]
      BY <3>1, <3>2, SeatCountRemove
    <3>4. SeatCount(P(x - 1), n) \in Nat
      <4>1. IsFiniteSet(P(x - 1)) /\ \A w \in P(x - 1) : n[w] \in Nat
        BY <2>5, <3>1, FS_Subset
      <4> QED BY <4>1, SeatsOfFinite
    <3>5. SeatCount(P(x), n) = SeatCount(P(x - 1), n) + n[q[x]]
      <4> HIDE DEF P, L
      <4> QED BY <3>2, <3>3
    <3>6. L[x] = L[x - 1] - n[q[x]] /\ L[x - 1] \in Int /\ n[q[x]] \in Nat
      BY <2>4, <2>8
    <3> HIDE DEF P, L
    <3> QED BY <1>1, <2>3, <2>6, <3>4, <3>5, <3>6
  <2> QED BY <2>7, <2>8
<1>3. Bad = {}
  <2>1. Bad \subseteq Nat
    BY <1>1
  <2> HIDE DEF Bad
  <2> QED BY <1>2, <2>1, Least
<1> QED BY <1>3

-----------------------------------------------------------------------------
(* The rule.                                                               *)

Rows(q) == {q[i] : i \in 1..Len(q)}

(***************************************************************************)
(* The promotions of the loop are an allocation of the free seats among    *)
(* the rows, in the order of the queue.                                    *)
(***************************************************************************)
LEMMA LoopAllocates ==
    ASSUME NEW f, NEW q, NEW n, Input(f, q, n), Distinct(q),
           \A w \in Rows(q) : n[w] > 0,
           NEW stamp, \A i \in 1..Len(q) : stamp[q[i]] = i
    PROVE  IsAllocation(Promoted(f, q, n, Len(q)), Rows(q), stamp, n, f)
<1> DEFINE P(x) == Promoted(f, q, n, x)
           L == Left(f, q, n)
<1>1. Len(q) \in Nat /\ f \in Int
  BY DEF Input
<1>2. P(Len(q)) \subseteq Rows(q)
  BY DEF Promoted, Rows
<1>3. ASSUME NEW i \in 1..Len(q)
      PROVE  q[i] \in P(Len(q)) <=>
               SeatCount({v \in P(Len(q)) : stamp[v] < stamp[q[i]]}, n) + n[q[i]] <= f
  <2>1. {v \in P(Len(q)) : stamp[v] < stamp[q[i]]} = P(i - 1)
    <3>1. stamp[q[i]] = i
      OBVIOUS
    <3>2. 1..(i - 1) = {j \in 1..Len(q) : j < i}
      BY <1>1
    <3>3. \A j \in 1..Len(q) : stamp[q[j]] = j
      OBVIOUS
    <3> QED BY <3>1, <3>2, <3>3 DEF Promoted
  <2>2. q[i] \in P(Len(q)) <=> Fitting(f, q, n, i)
    BY DEF Promoted, Distinct
  <2>3. n[q[i]] \in Nat /\ n[q[i]] > 0 /\ L[i - 1] \in Int
    BY LeftStep DEF Rows
  <2>4. Fitting(f, q, n, i) <=> n[q[i]] <= L[i - 1]
    BY <2>3 DEF Fitting
  <2>5. SeatCount(P(i - 1), n) + L[i - 1] = f
    BY <1>1, SeatsAddUp
  <2>6. SeatCount(P(i - 1), n) \in Nat
    <3>1. P(i - 1) \subseteq Waiters
      BY DEF Promoted, Input
    <3>2. IsFiniteSet(P(i - 1)) /\ \A w \in P(i - 1) : n[w] \in Nat
      BY <3>1, AllocateLoopAssumption, FS_Subset DEF Input
    <3> QED BY <3>2, SeatsOfFinite
  <2>7. SeatCount({v \in P(Len(q)) : stamp[v] < stamp[q[i]]}, n) = SeatCount(P(i - 1), n)
    BY <2>1
  <2>8. n[q[i]] <= L[i - 1] <=> SeatCount(P(i - 1), n) + n[q[i]] <= f
    <3> HIDE DEF P, L
    <3> QED BY <1>1, <2>3, <2>5, <2>6
  <2> QED BY <2>2, <2>4, <2>7, <2>8
<1> HIDE DEF P
<1> QED BY <1>2, <1>3 DEF IsAllocation, Rows, P

-----------------------------------------------------------------------------
(* The loop.                                                               *)

(***************************************************************************)
(* Between two iterations the loop has looked at the rows before `next':   *)
(* it has promoted those that fitted, and `remaining' is what they left.   *)
(***************************************************************************)
Inv ==
    /\ TypeOK
    /\ remaining = Left(free, queue, need)[next - 1]
    /\ out = Promoted(free, queue, need, next - 1)
    /\ ~done => free > 0
    /\ done => remaining <= 0 \/ next = Len(queue) + 1

LEMMA QueueTyped ==
    ASSUME TypeOK
    PROVE  /\ Input(free, queue, need) /\ Distinct(queue)
           /\ Len(queue) \in Nat /\ next \in 1..(Len(queue) + 1)
<1>1. PICK n \in 0..Cardinality(Waiters) :
        queue \in [1..n -> Waiters] /\ \A i, j \in 1..n : queue[i] = queue[j] => i = j
  BY DEF TypeOK, Queues
<1>2. n \in Nat
  BY AllocateLoopAssumption, FS_CardinalityType
<1>3. queue \in Seq(Waiters) /\ Len(queue) = n
  BY <1>1, <1>2
<1>4. need \in [Waiters -> Nat]
  BY AllocateLoopAssumption DEF TypeOK
<1> QED BY <1>1, <1>2, <1>3, <1>4 DEF TypeOK, Input, Distinct

LEMMA InitInv == ASSUME Init PROVE Inv
<1>1. TypeOK
  <2>1. PICK n \in 0..Cardinality(Waiters) : queue \in [1..n -> Waiters]
    BY DEF Init, Queues
  <2>2. n \in Nat
    BY AllocateLoopAssumption, FS_CardinalityType
  <2>3. Len(queue) = n
    BY <2>1, <2>2
  <2>4. Cardinality(Waiters) \in Nat /\ MaxSeats * Cardinality(Waiters) \in Nat
    BY AllocateLoopAssumption, FS_CardinalityType
  <2> QED BY <2>2, <2>3, <2>4 DEF Init, TypeOK
<1>2. Left(free, queue, need)[0] = free
  BY <1>1, QueueTyped, LeftFirst
<1>3. Promoted(free, queue, need, 0) = {}
  BY DEF Promoted
<1>4. queue = <<>> => Len(queue) = 0
  OBVIOUS
<1>5. free \in Int /\ next = 1 /\ next - 1 = 0 /\ remaining = free /\ out = {}
  BY <1>1 DEF TypeOK, Init
<1>6. done <=> free <= 0 \/ queue = <<>>
  BY DEF Init
<1>7. /\ ~done => free > 0
      /\ done => remaining <= 0 \/ next = Len(queue) + 1
  BY <1>4, <1>5, <1>6
<1> QED BY <1>1, <1>2, <1>3, <1>5, <1>7 DEF Inv

\* What one iteration does to the rows it has looked at.
LEMMA Iteration ==
    ASSUME Inv, Looking
    PROVE  /\ next \in 1..Len(queue)
           /\ Fitting(free, queue, need, next) <=> need[Row] > 0 /\ need[Row] <= remaining
           /\ Left(free, queue, need)[next] =
                IF Fitting(free, queue, need, next) THEN remaining - need[Row] ELSE remaining
           /\ Promoted(free, queue, need, next) =
                IF Fitting(free, queue, need, next) THEN out \cup {Row} ELSE out
           /\ Left(free, queue, need)[next] \in Int
           /\ Row \in Waiters
<1>1. /\ Input(free, queue, need) /\ Distinct(queue) /\ next \in 1..Len(queue)
  BY QueueTyped DEF Inv, Looking
<1>2. /\ Left(free, queue, need)[next] =
           IF Fitting(free, queue, need, next) THEN remaining - need[Row] ELSE remaining
      /\ need[Row] \in Nat /\ Row \in Waiters /\ remaining \in Int
      /\ Left(free, queue, need)[next] \in Int
  BY <1>1, LeftStep DEF Inv, Row
<1>3. Fitting(free, queue, need, next) <=> need[Row] > 0 /\ need[Row] <= remaining
  BY <1>2 DEF Fitting, Inv, Row
<1>4. Promoted(free, queue, need, next) =
        IF Fitting(free, queue, need, next) THEN out \cup {Row} ELSE out
  BY <1>1, PromotedNext DEF Inv, Row
<1> QED BY <1>1, <1>2, <1>3, <1>4

LEMMA SkipInv == ASSUME Inv, Skip PROVE Inv'
<1>1. /\ Looking /\ next' = next + 1 /\ done' = done /\ ~done
      /\ queue' = queue /\ need' = need /\ free' = free
      /\ remaining' = remaining /\ out' = out
  BY DEF Skip, input, Looking
<1>2. ~Fitting(free, queue, need, next)
  <2>1. need[Row] \in Int /\ remaining \in Int
    BY <1>1, Iteration, QueueTyped DEF Inv, TypeOK, Input
  <2> QED BY <1>1, <2>1, Iteration DEF Skip
<1>3. /\ Left(free, queue, need)[next] = remaining /\ next \in 1..Len(queue)
      /\ Promoted(free, queue, need, next) = out
  BY <1>1, <1>2, Iteration
<1>4. next' - 1 = next
  BY <1>1, <1>3
<1>5. TypeOK'
  BY <1>1, <1>3, QueueTyped DEF Inv, TypeOK
<1> QED BY <1>1, <1>3, <1>4, <1>5 DEF Inv

LEMMA PromoteInv == ASSUME Inv, Promote PROVE Inv'
<1>1. /\ Looking /\ next' = next + 1 /\ done' = done /\ ~done
      /\ queue' = queue /\ need' = need /\ free' = free
      /\ remaining' = remaining - need[Row] /\ out' = out \cup {Row}
  BY DEF Promote, input, Looking
<1>2. Fitting(free, queue, need, next)
  BY <1>1, Iteration DEF Promote
<1>3. /\ Left(free, queue, need)[next] = remaining - need[Row] /\ next \in 1..Len(queue)
      /\ Promoted(free, queue, need, next) = out \cup {Row}
      /\ remaining - need[Row] \in Int /\ Row \in Waiters
  BY <1>1, <1>2, Iteration
<1>4. next' - 1 = next
  BY <1>1, <1>3
<1>5. TypeOK'
  BY <1>1, <1>3, QueueTyped DEF Inv, TypeOK
<1> QED BY <1>1, <1>3, <1>4, <1>5 DEF Inv

LEMMA ReturnInv == ASSUME Inv, Return PROVE Inv'
<1>1. /\ done' = TRUE /\ UNCHANGED <<queue, need, free, remaining, next, out>>
      /\ remaining = 0 \/ next > Len(queue)
  BY DEF Return, input
<1>2. TypeOK'
  BY <1>1 DEF Inv, TypeOK
<1>3. remaining <= 0 \/ next = Len(queue) + 1
  BY <1>1, QueueTyped DEF Inv
<1> QED BY <1>1, <1>2, <1>3 DEF Inv

(***************************************************************************)
(* The loop invariant.                                                     *)
(***************************************************************************)
THEOREM LoopInvariance == Spec => []Inv
<1>1. Init => Inv
  BY InitInv
<1>2. Inv /\ [Next]_vars => Inv'
  <2>1. ASSUME Inv, UNCHANGED vars PROVE Inv'
    BY <2>1 DEF Inv, TypeOK, vars, input
  <2> QED BY <2>1, SkipInv, PromoteInv, ReturnInv DEF Next
<1> QED BY <1>1, <1>2, PTL DEF Spec

\* When the loop ends, the rows it has not looked at would not have fitted.
LEMMA AtTheEnd ==
    ASSUME Inv, done
    PROVE  out = Promoted(free, queue, need, Len(queue))
<1>1. /\ Input(free, queue, need) /\ Len(queue) \in Nat /\ next \in 1..(Len(queue) + 1)
  BY QueueTyped DEF Inv
<1>2. CASE next = Len(queue) + 1
  BY <1>1, <1>2 DEF Inv
<1>3. CASE remaining <= 0
  <2>1. ASSUME NEW i \in 1..Len(queue), next - 1 < i PROVE ~Fitting(free, queue, need, i)
    <3>1. next - 1 \in 0..Len(queue) /\ i - 1 \in 0..Len(queue) /\ next - 1 <= i - 1
      BY <1>1, <2>1
    <3>2. Left(free, queue, need)[i - 1] = remaining
      BY <1>1, <1>3, <3>1, LeftShrinks DEF Inv
    <3>3. remaining \in Int /\ need[queue[i]] \in Nat
      BY <1>1 DEF Inv, TypeOK, Input
    <3> QED BY <1>3, <3>2, <3>3 DEF Fitting
  <2>2. \A i \in 1..Len(queue) : Fitting(free, queue, need, i) <=>
                                   i \in 1..(next - 1) /\ Fitting(free, queue, need, i)
    BY <1>1, <2>1
  <2>3. 1..(next - 1) \subseteq 1..Len(queue)
    BY <1>1
  <2>4. Promoted(free, queue, need, next - 1) = Promoted(free, queue, need, Len(queue))
    BY <2>2, <2>3 DEF Promoted
  <2> QED BY <2>4 DEF Inv
<1> QED BY <1>2, <1>3 DEF Inv

(***************************************************************************)
(* The variables of the loop keep their types.                             *)
(***************************************************************************)
THEOREM LoopTypeCorrect == Spec => []TypeOK
<1>1. Inv => TypeOK
  BY DEF Inv
<1> QED BY <1>1, LoopInvariance, PTL

(***************************************************************************)
(* Seats are neither lost nor invented, and `remaining' never goes below   *)
(* zero.                                                                   *)
(***************************************************************************)
THEOREM LoopConservesSeats == Spec => []SeatsConserved
<1>1. Inv => SeatsConserved
  <2> SUFFICES ASSUME Inv, free > 0
               PROVE  remaining >= 0 /\ SeatCount(out, need) + remaining = free
    BY DEF SeatsConserved
  <2>1. /\ Input(free, queue, need) /\ Distinct(queue) /\ next - 1 \in 0..Len(queue)
        /\ 0 \in 0..Len(queue) /\ 0 <= next - 1 /\ free \in Int
    BY QueueTyped DEF Inv, TypeOK
  <2>2. SeatCount(out, need) + remaining = free
    BY <2>1, SeatsAddUp DEF Inv
  <2>3. Left(free, queue, need)[0] >= 0
    BY <2>1, LeftFirst
  <2>4. remaining >= 0
    BY <2>1, <2>3, LeftShrinks DEF Inv
  <2> QED BY <2>2, <2>4
<1> QED BY <1>1, LoopInvariance, PTL

(***************************************************************************)
(* Skip-if-it-does-not-fit never favours the larger request.               *)
(***************************************************************************)
THEOREM NoLargerOvertakes == Spec => []OnlySmallerOvertake
<1>1. Inv => OnlySmallerOvertake
  <2> SUFFICES ASSUME Inv, done, NEW i \in 1..Len(queue), NEW j \in 1..Len(queue), i < j,
                      queue[i] \notin out, queue[j] \in out, need[queue[i]] > 0
               PROVE  need[queue[j]] < need[queue[i]]
    BY DEF OnlySmallerOvertake
  <2>1. /\ Input(free, queue, need) /\ Distinct(queue) /\ Len(queue) \in Nat
        /\ need[queue[i]] \in Nat /\ need[queue[j]] \in Nat
    BY QueueTyped DEF Inv, Input
  <2>2. out = Promoted(free, queue, need, Len(queue))
    BY AtTheEnd
  <2>3. Fitting(free, queue, need, j) /\ ~Fitting(free, queue, need, i)
    BY <2>1, <2>2 DEF Promoted, Distinct
  <2>4. i - 1 \in 0..Len(queue) /\ j - 1 \in 0..Len(queue) /\ i - 1 <= j - 1
    BY <2>1
  <2>5. Left(free, queue, need)[j - 1] <= Left(free, queue, need)[i - 1]
    BY <2>1, <2>4, LeftShrinks
  <2>6. Left(free, queue, need)[j - 1] \in Int /\ Left(free, queue, need)[i - 1] \in Int
    BY <2>1, <2>4, LeftTyped
  <2> QED BY <2>1, <2>3, <2>5, <2>6 DEF Fitting
<1> QED BY <1>1, LoopInvariance, PTL

(***************************************************************************)
(* The loop returns the one allocation that the rule allows.               *)
(***************************************************************************)
THEOREM LoopIsTheRule == Spec => []ResultIsTheRule
<1>1. Inv => ResultIsTheRule
  <2> SUFFICES ASSUME Inv, done PROVE ResultIsTheRule
    BY DEF ResultIsTheRule
  <2>1. /\ Input(free, queue, need) /\ Distinct(queue) /\ Len(queue) \in Nat
    BY QueueTyped DEF Inv
  <2>2. out = Promoted(free, queue, need, Len(queue))
    BY AtTheEnd
  <2>3. out = AllocateFIFO(free, queue, need)
    BY <2>2 DEF AllocateFIFO, Promoted, Fitting
  <2>4. ASSUME \A w \in Waiters : need[w] > 0, NEW P \in SUBSET Rows(queue)
        PROVE  IsAllocation(P, Rows(queue), Stamps, need, free) <=> P = out
    <3>1. Rows(queue) \subseteq Waiters
      BY <2>1 DEF Rows, Input
    <3>2. \A i \in 1..Len(queue) : Stamps[queue[i]] = i
      BY <2>1, <3>1 DEF Stamps, Distinct, Rows
    <3>3. IsAllocation(out, Rows(queue), Stamps, need, free)
      BY <2>1, <2>2, <2>4, <3>1, <3>2, LoopAllocates
    <3>4. IsFiniteSet(Rows(queue))
      BY <3>1, AllocateLoopAssumption, FS_Subset
    <3>5. \A w \in Rows(queue) : Stamps[w] \in Int
      BY <2>1, <3>2 DEF Rows
    <3> QED BY <3>3, <3>4, <3>5, AllocationUnique
  <2> QED BY <2>3, <2>4 DEF ResultIsTheRule, Rows
<1> QED BY <1>1, LoopInvariance, PTL
=============================================================================
