SPECIFICATION Spec
CONSTANTS
    Caller = {r1, r2}
    Milestones = {2, 3}
    MaxDay = 4
    Session = {d1, d2}
    Targets = {1, 2}
    PeriodLength = 3
    MaxPending = 2
    MaxClock = 5
    Code = {k1, k2}
    Visit = {r1, r2}
    Device = {d1, d2}
    Nobody = Nobody
    FirstPassword = FirstPassword
    MaxAttempts = 1
    Sub = {d1, d2}
    Customer = {m1}
    Worker = {r1, r2}
    None = None
    MaxDays = 1
    MaxRepeats = 1
    Note = {d1, d2}
    Load = {x1}
SYMMETRY Symmetry
INVARIANTS TypeOK StreakIsEarned ServedStreakIsLive MilestoneOnce  OldSessionsEnd SubscriptionSettles 
PROPERTIES ResetOnlyOnGap ResetIsOneTime
CHECK_DEADLOCK FALSE
