SPECIFICATION Spec
CONSTANTS
    None = None
    Vehicles = {v1, v2}
    MaxPendingLocations = 2
    MaxCommands = 4
    MaxRides = 2
    MaxPoints = 2
    MaxConnections = 1
    MaxFaults = 1
INVARIANTS
    LeaseOwnsCommand
    AgreesWithStore
    RouteIsStored
    OutcomesInOrder
    CommandAppliesToSeenState
    BarriersAreServed
CHECK_DEADLOCK FALSE
SYMMETRY VehicleSymmetry
