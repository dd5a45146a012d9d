\* The requests are done and the bounds reached: nothing is wrong when it stops.
CHECK_DEADLOCK FALSE
SPECIFICATION MCSpec
CONSTANTS
    None = None
    Members = {mA, mB}
    SameName <- Namesakes
    Creds = {c1, c2}
    Sessions = {s1, s2}
    Intakes = {i1}
    Calls = {p1, p2}
    Assets = {k1}
    Documents = {d1}
    Tasks = {t1}
    Agents = {mA, mB}
    RequireVerified = TRUE
    Retention = TRUE
    MaxVersions = 2
    MaxEdits = 2
    MaxClaims = 2
SYMMETRY Symmetry
INVARIANTS
    OneIdentityPerCredential
    AnsweredByTheTarget
    ApprovedIndependently
    ReceiptWasHandedOut
PROPERTIES
    OutsidersStayOut
