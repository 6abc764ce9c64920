SPECIFICATION Spec
CONSTANTS
    Runners = {r1}
    Ids = {m1, m2, m3}
    alice = alice  bob = bob
    Rcpts = {alice, bob}
    LocalRcpts = {alice}
    Null = Null
    Envelopes <- RemoteNull
    Policy <- FlatPolicy
    Threshold = 1
    Permits = 2
    ClaimTTL = 1
    MaxTime = 1
    MaxMessages = 3
    MaxFailures = 5
    Budgets <- RouteTrouble
SYMMETRY Symmetry
INVARIANTS RouteSpared DelaysExact
