SPECIFICATION Spec
CONSTANTS
    p1 = p1
    p2 = p2
    a1 = a1
    a2 = a2
    None = None
    Runner = Runner
    Reconciler = Reconciler
    Players <- OnePlayer
    Admins <- OneAdmin
    Actions = {"hold"}
    IsManaged = FALSE
    IsScheduled = FALSE
    Faults = {}
    MaxOperations = 2
    MaxCompletions = 3
    MaxRestarts = 0
PROPERTIES
    NoCancelDuringCleanup
