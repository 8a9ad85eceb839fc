CONSTANTS
    r1 = r1  r2 = r2  r3 = r3  r4 = r4
    a3 = a3
    p1 = p1  p2 = p2  c1 = c1  c2 = c2  d1 = d1
    half = half  three = three  guest = guest
    A = A  B = B  e1 = e1  e2 = e2
    Null = null
    Unlimited = unlimited
    Phases = {p1, p2}
    Categories = {c1, c2}
    Durations = {d1}
    Coupons = {half, three, guest}
    PhaseRow <- Phase
    CouponRow <- CouponTable
    Requests = {r1, r2, r3, r4, a3}
    RowOf <- Rowof
    Promoter = promoter
    Ask <- Asks
    Emails = {e1, e2}
    Amounts = {1, 5}
    Plans <- Pages
SPECIFICATION Spec
INVARIANT OnePricePerCell
CHECK_DEADLOCK FALSE
