\* Three calls on one user with two devices and a cap of one, one client.
CONSTANTS
    Calls = {c1, c2, c3}
    Requests = {q1}
    Tokens = {t1, t2, t3, t4}
    Devices = {d1, d2}
    Nothing = Nothing
    MaxActiveDevices = 1
SPECIFICATION FairSpec
CHECK_DEADLOCK FALSE
INVARIANTS ReplayEndsChain SuspendedHasNoSession RevokedDeviceHasNoSession CapHolds
PROPERTY SuspensionTakesHold
