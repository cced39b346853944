SPECIFICATION Spec
CONSTANTS
    None = None
    Vehicles = {v1}
    MaxPendingLocations = 2
    MaxCommands = 4
    MaxRides = 1
    MaxPoints = 2
    MaxConnections = 1
    MaxFaults = 0
INVARIANT
    StopKeepsAdmissionOpen
CHECK_DEADLOCK FALSE
