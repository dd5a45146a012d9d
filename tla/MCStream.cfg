\* The log ends at MaxEvents, a bound of the model.
CHECK_DEADLOCK FALSE
SPECIFICATION FairSpec
CONSTANTS
    None = None
    Sessions = {}
    PageLimit = 2
    MaxEvents = 3
    k3 = k3
    near = near
    far = far
    Clients = {k1, k2, k3}
    IpOf <- MCIpOf
    MaxPerProject = 2
    MaxPerIp = 1
INVARIANTS
    WithinLimits
    SlotsReturn
PROPERTIES
    ReceivedInOrder
    StreamDelivers
