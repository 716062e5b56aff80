SPECIFICATION Spec
CONSTANTS
    User = {u1, u2}
    Call = {r1, r2}
    MaxMessages = 1
    MaxLost = 1
    Person = {d1, d2}
    Post = {p1}
    Nobody = Nobody
    Handler = {r1, r2}
    MaxMarks = 1
    MaxChanges = 1
    Student = {d1, d2, s3}
    Visit = {r1, r2}
    NoStudent = NoStudent
    Author = {a1}
    Routine = {d1, d2}
    Item = {d1, d2}
    Errand = {r1, r2}
    NoRoutine = NoRoutine
    MaxPlace = 1
    Body = {d1, d2}
    Reader = {x1}
    MaxSends = 2
    MaxStored = 2
    Learner = {d1, d2}
    Study = {d1, d2}
    Club = {c1}
    Clerk = {r1, r2}
    NoLearner = NoLearner
    NoStudy = NoStudy
    NoClub = NoClub
    MaxTouches = 1
SYMMETRY Symmetry
INVARIANTS TypeOK BlockedAreApart  OwnerIsMember PlacesAreDistinct 
PROPERTY MessagesRespectBlocks
CHECK_DEADLOCK FALSE
