SPECIFICATION Spec
CONSTANTS
    Zones = {z1}
    Users = {u1, u2}
    Decliners = {u1}
    Carriers = {}
    None = None
    MaxStage = 2
    MaxCaptures = 1
    MaxFaults = 0
    MaxCrashes = 0
    MaxRestores = 0
INVARIANTS SharedKept
CHECK_DEADLOCK FALSE
