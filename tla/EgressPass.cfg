SPECIFICATION Spec
CONSTANTS
    Kernels <- EveryKernel
    MaxApplied = 2
    MaxFaults = 1
    MaxReconf = 1
CHECK_DEADLOCK FALSE
INVARIANTS
    Sealed
    RoutedInside
    Reachable
