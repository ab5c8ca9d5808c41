SPECIFICATION Spec
CONSTANTS
    l1 = l1
    l2 = l2
    l3 = l3
    Links = {l1, l2, l3}
    Feeds <- SomeFeeds
    Proxies = {p1, p2}
    Capacity = 2
    MaxTime = 3
    MaxAsks = 3
    MaxRestarts = 1
    f1 = f1
    f2 = f2
    f3 = f3
    Files = {f1, f2, f3}
    Nothing = Nothing
    Libraries <- SomeLibraries
    Title <- SomeTitles
    Queries <- SomeQueries
    Visitors = {v1, v2}
    MaxFiles = 2
    DefaultSize = 1
    MaxSize = 2
    Sizes = {0, 3}
    Bound <- ShelfBound
SYMMETRY ShelfSymmetry
INVARIANTS
    TypeOK
    LinksLast
    WalkSound
    LinksHold
    PagesComplete
CHECK_DEADLOCK FALSE
