\* The log ends at MaxLog, a bound of the model.
SPECIFICATION FairSpec
CONSTANTS
    None = None
    Backups = {b1, b2}
    Creds = {c1}
    MaxKept = 1
    MaxWork = 2
    MaxLog = 4
    MaxUses = 2
    MaxFailures = 1
    MaxCrashes = 0
PROPERTIES
    NoSilentLoss
CHECK_DEADLOCK FALSE
