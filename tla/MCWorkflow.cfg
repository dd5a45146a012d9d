\* A Room every session has left is idle: nothing is wrong when it stops.
CHECK_DEADLOCK FALSE
SPECIFICATION Spec
CONSTANTS
    None = None
    sA1 = sA1
    sA2 = sA2
    sB = sB
    mA = mA
    mB = mB
    pDir = pDir
    pFile = pFile
    Sessions = {sA1, sA2, sB}
    Members = {mA, mB}
    MemberOf <- MCMemberOf
    Tasks = {t1}
    Leases = {}
    Assignments = {a1}
    HandoffTasks = {t1}
    Paths = {}
    Overlapping <- MCOverlapping
    Modes = {}
    Ttl = 1
    Qualified = {sB}
    MayDie = {}
INVARIANTS
    LegacyFacesAgree
    OwnedWhileAnswered
    IndependentApproval
PROPERTIES
    DoneIsFinal
    NoSilentTakeover
    ChangesRequestedRemembered
SYMMETRY SessionSymmetry
