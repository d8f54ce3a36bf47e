\* Three calls of two buyers: a key, gifts, a coupon, deposits and a refund.
CONSTANTS
    u1 = u1
    u2 = u2
    e1 = e1
    e2 = e2
    k1 = k1
    Users = {u1, u2}
    Editions = {e1, e2}
    Requests = {r1, r2, r3}
    Refunds = {f1}
    Keys = {k1}
    NoKey = NoKey
    None = None
    Calls <- MCCalls
    Price <- MCPrice
    Campaign <- TwoRialsOff
    Deposits = {3}
    DepositLimit = 3
SPECIFICATION RaceSpec
CHECK_DEADLOCK FALSE
INVARIANTS NeverOverdrawn BooksBalance OneOrderPerKey AccessIsPaidFor PaidKeepsAccess OverRedeemedByRaceOnly
PROPERTIES ImplementsCheckout EveryCallEnds
