CONSTANTS
    r1 = r1  r2 = r2  r3 = r3
    Requests = {r1, r2, r3}
    Need <- TwoPairs
    Copies = 2
    Handlers = {h1, h2}
    Sweeper = sweeper
    Null = null
    Unlimited = unlimited
    Settings <- DonationTwo
    Ops = {"giveback", "admin", "remove"}
SPECIFICATION Spec
SYMMETRY SomeHandler
PROPERTIES WaitlistNeverOversells PromotionIsFairAndFull
CHECK_DEADLOCK FALSE
