SPECIFICATION ClientSpec
CONSTANTS
    Focus = {s1, s2, s3}
    NoFocus = NoFocus
    MaxTries = 1
    MaxDeaths = 1
INVARIANTS EndsWhenTapped
CHECK_DEADLOCK FALSE
