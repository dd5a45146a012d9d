\* Two callers, with one id or none, and two inputs: duplicates, retries and
\* misuse of the id.
SPECIFICATION FairSpec
CONSTANTS
    c1 = c1
    c2 = c2
    r1 = r1
    i1 = i1
    i2 = i2
    None = None
    Callers = {c1, c2}
    RequestIds = {r1}
    Inputs = {i1, i2}
    MaxEvents = 2
INVARIANTS
    AnswersAreTrue
    NoStuckRequest
PROPERTIES
    ExactlyOnceKept
    LockReturns
    RequestsEnd
