SPECIFICATION Spec
CONSTANTS
    Reader = {r1, r2}
    Writer = {w1, w2}
    PayloadTTL = 1
    CounterTTL = 3
    RequestTime = 1
    MaxWrites = 3
    MaxNow = 5
SYMMETRY Symmetry
INVARIANTS TypeOK StaleOnlyBriefly
PROPERTIES VisibleOnNextRead
CHECK_DEADLOCK FALSE
