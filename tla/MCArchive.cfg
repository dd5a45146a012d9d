\* The log ends at MaxLog, a bound of the model.
SPECIFICATION FairSpec
CONSTANTS
    None = None
    Backups = {b1, b2}
    Creds = {c1}
    MaxKept = 1
    MaxWork = 1
    MaxLog = 3
    MaxUses = 2
    MaxFailures = 1
    MaxCrashes = 1
INVARIANTS
    FreshBackupRestores
PROPERTIES
    OnlyEarlierWritesDropped
    UsesAreRecorded
CHECK_DEADLOCK FALSE
