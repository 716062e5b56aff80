SPECIFICATION LiveSpec
CONSTANTS
    User = {u1}
    Session = {s1}
    Request = {r1, r2}
    NoSession = NoSession
    Plans = {0, 1}
    Groups = {FALSE}
    Operations = {"start", "sample", "sweep"}
    RedisAnswers = {TRUE}
    AbandonedAfter = 1
    SweepSilence = 2
    SweepPastPlan = 1
    SweepOpenEnded = 3
    LockTTL = 1
    PointsPerMinute = 1
    PenaltyPoints = 1
    MaxNow = 5
    MaxStart = 1
    LastUse = 1
    MaxInterruptions = 0
    MaxCrashes = 1
    Token = {t1, t2, t3}
    NoToken = NoToken
    MaxKills = 1
    Focus = {f1, f2, f3}
    NoFocus = NoFocus
    MaxTries = 1
    MaxDeaths = 1
INVARIANTS AppTypeOK   
PROPERTIES LeftOpenEnds SpinnersEnd
CHECK_DEADLOCK FALSE
