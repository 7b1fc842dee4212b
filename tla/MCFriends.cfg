CONSTANTS
    Ids = {u1, u2}
    MaxPosts = 4
SPECIFICATION FriendsSpec
SYMMETRY MCSymmetry
INVARIANT FriendsAgree
INVARIANT GivesUpWhenCrossed
CHECK_DEADLOCK FALSE
