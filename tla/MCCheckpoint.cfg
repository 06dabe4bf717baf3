SPECIFICATION FairSpec
CONSTANTS
    Zones = {z1}
    Users = {u1, u2}
    Decliners = {u1}
    Carriers = {u2}
    None = None
    MaxStage = 2
    MaxCaptures = 1
    MaxFaults = 1
    MaxCrashes = 1
    MaxRestores = 1
INVARIANTS AcceptedKept RemovalStored RetiredStays ForfeitStored CloseTruthful
PROPERTIES RowsCatchUp
CHECK_DEADLOCK FALSE
