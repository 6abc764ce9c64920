SPECIFICATION Spec
CONSTANTS
    Runners = {r1}
    Ids = {m1}
    alice = alice  bob = bob
    Rcpts = {alice, bob}
    LocalRcpts = {alice}
    Null = Null
    Envelopes <- RemoteNull
    Policy <- FlatPolicy
    Threshold = 2
    Permits = 1
    ClaimTTL = 2
    MaxTime = 1
    MaxMessages = 1
    MaxFailures = 5
    Budgets <- AbortOnce
INVARIANTS LeaseHolds
