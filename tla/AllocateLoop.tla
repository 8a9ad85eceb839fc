---------------------------- MODULE AllocateLoop ----------------------------
(***************************************************************************)
(* AllocateFIFO of internal/waitlist/alloc.go as the loop it is, one       *)
(* action per path through an iteration, started from every queue and      *)
(* every number of free seats the caller may pass.                         *)
(***************************************************************************)
EXTENDS Allocation

CONSTANTS Waiters,   \* the rows of the queue
          MaxSeats   \* the largest number of seats a row asks for

ASSUME AllocateLoopAssumption ==
    /\ IsFiniteSet(Waiters)
    /\ MaxSeats \in Nat

VARIABLES queue,      \* the waiters, in created_at order
          need,       \* RequestedSeats of each waiter
          free,       \* the argument `remaining'
          remaining,  \* the loop's variable
          next,       \* index of the next waiter to look at
          out,        \* the promotions appended so far
          done

input == <<queue, need, free>>
vars  == <<queue, need, free, remaining, next, out, done>>

\* The queues without repetition: a row is listed once.
Queues == UNION {{q \in [1..n -> Waiters] :
                    \A i, j \in 1..n : q[i] = q[j] => i = j} :
                 n \in 0..Cardinality(Waiters)}

Init ==
    /\ queue \in Queues
    /\ need \in [Waiters -> 0..MaxSeats]
    /\ free \in -1..(MaxSeats * Cardinality(Waiters))
    /\ remaining = free
    /\ next = 1
    /\ out = {}
    /\ done = (free <= 0 \/ queue = <<>>)

Looking == ~done /\ next <= Len(queue)
Row     == queue[next]

\* Mutant: strict FIFO, the first one who does not fit ends the loop.
SkipAndStop ==
    /\ Looking /\ remaining # 0
    /\ need[Row] <= 0 \/ need[Row] > remaining
    /\ next' = next + 1
    /\ done' = TRUE
    /\ UNCHANGED <<input, remaining, out>>

\* Mutant: off by one, a waiter that takes the last seats may be skipped.
SkipIfEqual ==
    /\ Looking /\ remaining # 0
    /\ need[Row] <= 0 \/ need[Row] >= remaining
    /\ next' = next + 1
    /\ UNCHANGED <<input, remaining, out, done>>

\* Mutant: the index moves on twice.
SkipTwo ==
    /\ Looking /\ remaining # 0
    /\ need[Row] <= 0 \/ need[Row] > remaining
    /\ next' = next + 2
    /\ UNCHANGED <<input, remaining, out, done>>

\* RequestedSeats <= 0 or more than what remains: continue.
Skip ==
    /\ Looking /\ remaining # 0
    /\ need[Row] <= 0 \/ need[Row] > remaining
    /\ next' = next + 1
    /\ UNCHANGED <<input, remaining, out, done>>

\* Mutant: `remaining -= w.RequestedSeats' is missing.
PromoteWithoutTaking ==
    /\ Looking /\ remaining # 0
    /\ need[Row] > 0 /\ need[Row] <= remaining
    /\ out' = out \cup {Row}
    /\ next' = next + 1
    /\ UNCHANGED <<input, remaining, done>>

Promote ==
    /\ Looking /\ remaining # 0
    /\ need[Row] > 0 /\ need[Row] <= remaining
    /\ out' = out \cup {Row}
    /\ remaining' = remaining - need[Row]
    /\ next' = next + 1
    /\ UNCHANGED <<input, done>>

\* The break, and the end of the range loop.
Return ==
    /\ ~done
    /\ remaining = 0 \/ next > Len(queue)
    /\ done' = TRUE
    /\ UNCHANGED <<input, remaining, next, out>>

Next == Skip \/ Promote \/ Return

Spec == Init /\ [][Next]_vars /\ WF_vars(Next)
-----------------------------------------------------------------------------
TypeOK ==
    /\ queue \in Queues
    /\ need \in [Waiters -> 0..MaxSeats]
    /\ free \in Int /\ remaining \in Int
    /\ next \in 1..(Len(queue) + 1)
    /\ out \subseteq Waiters
    /\ done \in BOOLEAN

(***************************************************************************)
(* Seats are neither lost nor invented in the loop: what the promotions    *)
(* take and what remains add up to what was free, and it never goes below  *)
(* zero (`remaining -= w.RequestedSeats').                                 *)
(***************************************************************************)
SeatsConserved ==
    free > 0 => /\ remaining >= 0
                /\ SeatCount(out, need) + remaining = free

(***************************************************************************)
(* The loop returns what the declarative rule of the comment above         *)
(* AllocateFIFO asks for, and nothing else satisfies that rule.            *)
(***************************************************************************)
Stamps == [w \in Waiters |-> IF \E i \in 1..Len(queue) : queue[i] = w
                             THEN CHOOSE i \in 1..Len(queue) : queue[i] = w
                             ELSE 0]

ResultIsTheRule ==
    done =>
      /\ out = AllocateFIFO(free, queue, need)
      /\ (free > 0 /\ \A w \in Waiters : need[w] > 0) =>
            \A P \in SUBSET {queue[i] : i \in 1..Len(queue)} :
               IsAllocation(P, {queue[i] : i \in 1..Len(queue)},
                            Stamps, need, free) <=> P = out

(***************************************************************************)
(* No waiter is passed over by one that asked for as many seats or more:   *)
(* skip-if-doesn't-fit never favours the larger request.                   *)
(***************************************************************************)
OnlySmallerOvertake ==
    done => \A i, j \in 1..Len(queue) :
        (i < j /\ queue[i] \notin out /\ queue[j] \in out /\ need[queue[i]] > 0)
            => need[queue[j]] < need[queue[i]]
=============================================================================
