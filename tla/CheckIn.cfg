CONSTANTS
    Tickets = {t1}
    Desks = {d1, d2}
    Holders = {p1, p2}
    Amounts = {0, 5}
    MaxTransfers = 2
    MaxScans = 3
    None = none
SPECIFICATION Spec
INVARIANTS TypeOK RecordMatchesStatus HolderKeepsAdmission AmountIsRecorded
PROPERTY RecordStands
CHECK_DEADLOCK FALSE
