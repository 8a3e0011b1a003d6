SPECIFICATION Spec
CONSTANTS
    Clients = {c1, c2}
    Names = {alice, bob}
    Keys = {k1, k2}
    Devices = {d1, d2}
    Roots = {r1, r2, r3}
    NoRoot = NoRoot
    NoUser = NoUser
    NoDoc = NoDoc
    None = None
    MaxSerial = 3
    MaxFaults = 1
    MaxStops = 2
SYMMETRY Symmetry
INVARIANTS NeverRefused CanPublish RevocationSticks
CHECK_DEADLOCK FALSE
