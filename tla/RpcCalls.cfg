SPECIFICATION ClientSpec
CONSTANTS
    Providers = {p1, p2, p3}
    Calls = {c1, c2}
    Archives = {p1, p2}
    Pruned = {p2}
    MaxWaits = 1
    MaxOutages = 1
    NoProvider = none
INVARIANTS FailedAfterAll AbleIsAsked
SYMMETRY Symmetry
