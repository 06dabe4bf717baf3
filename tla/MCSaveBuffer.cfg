SPECIFICATION Spec
CONSTANTS
    Users = {u1}
    Worker = Worker
    Viewers = {v1}
    ControlKinds = {"password", "delete", "restore"}
    None = None
    MaxPlayers = 1
    MaxRevision = 2
    MaxCredential = 1
INVARIANTS TypeOK NoLostAccept CloseTruthful SessionCurrent ReadFresh
PROPERTIES ImplementsLedger
CHECK_DEADLOCK FALSE
