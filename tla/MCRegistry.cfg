\* Both Rooms may be deleted, and no call is under way.
SPECIFICATION MCSpec
CONSTANTS
    None = None
    d1 = d1
    d2 = d2
    top = top
    Keys = {k1, k2}
    Remotes = {r1}
    Calls = {c1, c2}
    Dirs <- TwoTrees
    Unchecked <- TwoTrees
    GitRoot <- TreeRoot
    LogicalPath <- TreePath
INVARIANT OneActiveRoomPerRepository
INVARIANT StrangersWereNamed
INVARIANT RegistrationsLeadHome
PROPERTY PinnedJoinsStay
CHECK_DEADLOCK FALSE
SYMMETRY Symmetry
