SPECIFICATION Spec
CONSTANTS
    Runners = {r1}
    Ids = {m1, m2, m3, m4}
    alice = alice  bob = bob
    Rcpts = {alice, bob}
    LocalRcpts = {alice}
    Null = Null
    Envelopes <- Mixed
    Policy <- FlatPolicy
    Threshold = 2
    Permits = 1
    ClaimTTL = 1
    MaxTime = 1
    MaxMessages = 1
    MaxFailures = 5
    Budgets <- Faults
CONSTRAINT RoomForReports
SYMMETRY Symmetry
INVARIANTS Type AllAccounted LostOnlyInBounceWindow DealtWithOnce
