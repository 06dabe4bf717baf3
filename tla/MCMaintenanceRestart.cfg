SPECIFICATION Spec
CONSTANTS
    p1 = p1
    p2 = p2
    a1 = a1
    a2 = a2
    None = None
    Runner = Runner
    Reconciler = Reconciler
    Players <- OnePlayer
    Admins <- OneAdmin
    Actions = {"restart"}
    IsManaged = TRUE
    IsScheduled = TRUE
    Faults = {"save"}
    MaxOperations = 2
    MaxCompletions = 3
    MaxRestarts = 2
INVARIANTS
    StaysClosed
PROPERTIES
    StoppingIsFinal
    ImplementsPolicy
