\* Two requests under every environment, a window's last second included.
CONSTANTS
    Requests = {r1, r2}
    Environments <- AllEnvironments
    MaxSeconds = 1
    Unreadable = Unreadable
    None = None
SYMMETRY Symmetry
SPECIFICATION Spec
INVARIANTS
    FailureSignalIsExact
    ClockIsHonest
    ServesOnlyAsMeant
