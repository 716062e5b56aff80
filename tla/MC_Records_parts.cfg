SPECIFICATION Spec
CONSTANTS
    User = {u1, u2}
    Token = {t1, t2, t3, t4}
    Request = {r1, r2}
    NoToken = NoToken
    TTL = 1
    MaxNow = 2
    Quality = 1
    MinRatings = 1
    MaxOffset = 25
    Grain = 4
    Sitting = {s1}
    Item = {i1, i2}
    Duty = {r1, r2}
    NoSitting = NoSitting
    Verdicts = {3}
    MaxReadings = 1
    MaxPlaces = 2
    MaxVerdicts = 2
SYMMETRY Symmetry
INVARIANTS TypeOK OneLivePerLogin  ScoringIsSound
PROPERTY RevokedForGood
CHECK_DEADLOCK FALSE
