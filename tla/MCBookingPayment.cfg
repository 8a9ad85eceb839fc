CONSTANTS
    r1 = r1  r2 = r2  r3 = r3
    Requests = {r1, r2}
    Need <- OnePair
    Copies = 2
    Handlers = {h1, h2}
    Sweeper = sweeper
    Null = null
    Unlimited = unlimited
    Settings <- PaidTwo
    Ops = {"claim", "sweep", "pay", "door", "giveback", "admin", "remove", "failure"}
SPECIFICATION Spec
SYMMETRY SomeHandler
INVARIANTS TicketsFollowBooking OneBookingPerRequest FulfilledNamesBooking
PROPERTY FinalStaysFinal
CHECK_DEADLOCK FALSE
