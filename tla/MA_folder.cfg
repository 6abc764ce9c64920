SPECIFICATION Spec
CONSTANTS
    Sessions = {s1, s2}
    Bases = {m1, m2}
    Flags = {seen}
    Bounds <- Scenarios
SYMMETRY Symmetry
CHECK_DEADLOCK FALSE
INVARIANTS  ResyncComplete OnlyNamedChanged
PROPERTY ViewComplete
