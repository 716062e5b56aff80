SPECIFICATION SubscriptionsSpec
CONSTANTS
    Sub = {s1, s2}
    Customer = {k1, k2}
    Worker = {w1, w2}
    None = None
    MaxDays = 2
    MaxRepeats = 1
SYMMETRY SubsSymmetry
INVARIANTS CheckoutsShareACustomer
CHECK_DEADLOCK FALSE
