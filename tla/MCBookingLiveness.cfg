CONSTANTS
    r1 = r1  r2 = r2  r3 = r3
    Requests = {r1, r2}
    Need <- Singles
    Copies = 2
    Handlers = {h1, h2}
    Sweeper = sweeper
    Null = null
    Unlimited = unlimited
    Settings <- AnyPayment
    Ops = {"sweep", "pay", "refund"}
SPECIFICATION FairSpec
PROPERTIES LapsedReservationEnds PendingPromotionServes
CHECK_DEADLOCK FALSE
