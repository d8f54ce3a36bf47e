\* Two callers with one dedupe key and one without, two relays.
CONSTANTS
    w1 = w1
    w2 = w2
    w3 = w3
    Callers = {w1, w2, w3}
    Relays = {r1, r2}
    k1 = k1
    Key <- MCKey
    NoKey = NoKey
    Nobody = Nobody
    BatchSize = 2
    MaxDispatchAttempts = 2
    MaxAborts = 1
SPECIFICATION FairSpec
CHECK_DEADLOCK FALSE
INVARIANTS DroppedHasTwin DuplicatesNeedAFault
PROPERTIES ImplementsDelivery EveryJobLeaves
