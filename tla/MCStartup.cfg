CONSTANTS
    Ids = {u1}
    MaxPosts = 2
    Packages = {p1, p2}
    c1 = c1
    c2 = c2
    p1 = p1
    p2 = p2
    Redeems = {c1}
    Frees = {c2}
    PackageOf <- MCPackageOf
    NoCall = NoCall
    MaxLists = 3
    MaxEvents = 2
SPECIFICATION Spec
INVARIANT TypeOK
INVARIANT LostToALicense
INVARIANT FreeIsHeld
PROPERTY ReadyEventually
PROPERTY LockPasses
CHECK_DEADLOCK FALSE
