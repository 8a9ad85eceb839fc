----------------------------- MODULE Allocation -----------------------------
(***************************************************************************)
(* The seat allocation rule of the waitlist: FIFO, skipping every waiter   *)
(* that does not fit (internal/waitlist/alloc.go).                         *)
(*                                                                         *)
(* The rule is given twice.  AllocateFIFO computes it the way the loop     *)
(* does, over a queue; IsAllocation says which sets of waiters are its     *)
(* result, over a set of waiters with arrival stamps.  Booking promotes    *)
(* with the second form, which a proof can use without induction over the  *)
(* queue; AllocateLoop checks and AllocateLoopProofs proves that the two   *)
(* agree.                                                                  *)
(***************************************************************************)
EXTENDS Integers, Sequences, FiniteSets

\* The seats a set of waiters asks for, each as a pair <<waiter, number>>.
SeatsOf(W, need) == UNION {{w} \X (1..need[w]) : w \in W}

SeatCount(W, need) == Cardinality(SeatsOf(W, need))

(***************************************************************************)
(* P is what AllocateFIFO picks from the waiters W, served in the order of *)
(* their stamps: a waiter is picked exactly when its seats fit into what   *)
(* the picked ones before it leave of `remaining'.                         *)
(***************************************************************************)
IsAllocation(P, W, stamp, need, remaining) ==
    /\ P \subseteq W
    /\ \A w \in W : w \in P <=>
          SeatCount({v \in P : stamp[v] < stamp[w]}, need) + need[w] <= remaining

\* left[i] is `remaining' after the first i iterations of the loop.
Left(remaining, queue, need) ==
    LET left[i \in 0..Len(queue)] ==
            IF i = 0 THEN remaining
            ELSE IF need[queue[i]] \in 1..left[i - 1]
                 THEN left[i - 1] - need[queue[i]]
                 ELSE left[i - 1]
    IN  left

\* The waiters the loop returns.  The early returns (nothing left, empty
\* queue) and the break at remaining = 0 are the cases where 1..left is empty.
AllocateFIFO(remaining, queue, need) ==
    {queue[i] : i \in {j \in 1..Len(queue) :
        need[queue[j]] \in 1..Left(remaining, queue, need)[j - 1]}}
=============================================================================
