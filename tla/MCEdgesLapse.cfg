\* A Room every session has left is idle: nothing is wrong when it stops.
CHECK_DEADLOCK FALSE
SPECIFICATION MCSpec
CONSTANTS
    None = None
    sA1 = sA1
    sA2 = sA2
    sB = sB
    mA = mA
    mB = mB
    pDir = pDir
    pFile = pFile
    Sessions = {sA1, sA2, sB}
    Members = {mA, mB}
    MemberOf <- MCMemberOf
    Tasks = {t1, t2, t3}
    Leases = {l1}
    Assignments = {}
    HandoffTasks = {}
    Paths = {pDir}
    Overlapping <- MCOverlapping
    Modes = {"exclusive"}
    Ttl = 2
    Qualified = {}
    MayDie = {sA1}
SYMMETRY TaskSymmetry
INVARIANTS
    Acyclic
PROPERTIES
    DeadLeasesLapse
