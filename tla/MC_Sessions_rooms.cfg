SPECIFICATION Spec
CONSTANTS
    User = {u1, u2, u3}
    Session = {s1, s2, s3}
    Request = {r1, r2}
    NoSession = NoSession
    Plans = {0, 1}
    Groups = {TRUE}
    Operations = {"start", "join", "delete"}
    RedisAnswers = {TRUE}
    AbandonedAfter = 1
    SweepSilence = 3
    SweepPastPlan = 1
    SweepOpenEnded = 3
    LockTTL = 1
    PointsPerMinute = 1
    PenaltyPoints = 1
    MaxNow = 2
    MaxStart = 2
    LastUse = 0
    MaxInterruptions = 0
    MaxCrashes = 1
SYMMETRY Symmetry
INVARIANTS  OneRunningSerially
CHECK_DEADLOCK FALSE
