\* Two payments, three callbacks.
CONSTANTS
    Payments = {p1, p2}
    Callbacks = {c1, c2, c3}
    Nobody = Nobody
SPECIFICATION FairTopUp
CHECK_DEADLOCK FALSE
INVARIANTS CreditedOnce OkMeansCredited
PROPERTY EveryCallbackEnds
