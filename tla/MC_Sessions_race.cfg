SPECIFICATION Spec
CONSTANTS
    User = {u1}
    Session = {s1}
    Request = {r1, r2}
    NoSession = NoSession
    Plans = {0, 1}
    Groups = {FALSE}
    Operations = {"start", "end", "abandon", "sweep", "sample", "interrupt", "delete"}
    RedisAnswers = {FALSE}
    AbandonedAfter = 1
    SweepSilence = 1
    SweepPastPlan = 0
    SweepOpenEnded = 2
    LockTTL = 1
    PointsPerMinute = 1
    PenaltyPoints = 1
    MaxNow = 4
    MaxStart = 1
    LastUse = 2
    MaxInterruptions = 1
    MaxCrashes = 0
SYMMETRY Symmetry
INVARIANTS TypeOK EndWithinLife PointsMatchEnd CreditedOnceSerially 
PROPERTIES SilenceEarnsNothing SweepSparesTheLiving
CHECK_DEADLOCK FALSE
