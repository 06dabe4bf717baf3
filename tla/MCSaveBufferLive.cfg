SPECIFICATION FairSpec
CONSTANTS
    Users = {u1}
    Worker = Worker
    Viewers = {}
    ControlKinds = {"delete", "restore"}
    None = None
    MaxPlayers = 1
    MaxRevision = 2
    MaxCredential = 0
PROPERTIES EventuallyWritten CloseReturns
CHECK_DEADLOCK FALSE
