SPECIFICATION PrivateSpec
CONSTANTS
    None = None
    Slots = {m1, m2, m3}
    PrivateEndpoints = 2
INVARIANTS
    PeersRetiredWithTheirTracker
CHECK_DEADLOCK FALSE
