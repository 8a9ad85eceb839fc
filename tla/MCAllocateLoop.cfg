CONSTANTS
    Waiters = {w1, w2, w3}
    MaxSeats = 3
SPECIFICATION Spec
INVARIANTS TypeOK SeatsConserved ResultIsTheRule OnlySmallerOvertake
CHECK_DEADLOCK FALSE
