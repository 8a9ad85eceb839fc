CONSTANTS
    r1 = r1  r2 = r2  r3 = r3
    Requests = {r1, r2}
    Need <- OnePair
    Copies = 2
    Handlers = {h1, h2}
    Sweeper = sweeper
    Null = null
    Unlimited = unlimited
    Settings <- Switched
    Ops = {"claim", "refund", "remove", "rotate", "sweep", "failure", "crash", "mail_failure", "update", "purge"}
SPECIFICATION Spec
SYMMETRY SomeHandler
INVARIANTS TypeOK LockIsReleased LockedCountIsStable
PROPERTY KeepsPromise
CHECK_DEADLOCK FALSE
