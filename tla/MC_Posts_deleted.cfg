SPECIFICATION PostsSpec
CONSTANTS
    Person = {u1, u2}
    Post = {p1}
    Nobody = Nobody
    Handler = {h1, h2}
    MaxMarks = 2
    MaxChanges = 1
SYMMETRY Symmetry
INVARIANT DeletedPostsLeaveTheLists
CHECK_DEADLOCK FALSE
