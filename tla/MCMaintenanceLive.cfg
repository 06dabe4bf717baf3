SPECIFICATION FairSpec
CONSTANTS
    p1 = p1
    p2 = p2
    a1 = a1
    a2 = a2
    None = None
    Runner = Runner
    Reconciler = Reconciler
    Players <- OnePlayer
    Admins <- OneAdmin
    Actions = {"hold","restart"}
    IsManaged = TRUE
    IsScheduled = FALSE
    Faults = {"save", "journal"}
    MaxOperations = 1
    MaxCompletions = 3
    MaxRestarts = 1
PROPERTIES
    WriterServed
    HoldEnds
    RestartResolves
    OutcomeJournalled
