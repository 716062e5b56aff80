SPECIFICATION Spec
CONSTANTS
    User = {u1}
    Session = {s1}
    Request = {r1, r2}
    NoSession = NoSession
    Plans = {0}
    Groups = {FALSE}
    Operations = {"start", "end", "sweep"}
    RedisAnswers = {TRUE}
    AbandonedAfter = 1
    SweepSilence = 2
    SweepPastPlan = 1
    SweepOpenEnded = 3
    LockTTL = 1
    PointsPerMinute = 1
    PenaltyPoints = 1
    MaxNow = 4
    MaxStart = 0
    LastUse = 0
    MaxInterruptions = 0
    MaxCrashes = 0
SYMMETRY Symmetry
INVARIANTS CreditedOnce
CHECK_DEADLOCK FALSE
