SPECIFICATION Spec
CONSTANTS
    p1 = p1
    p2 = p2
    a1 = a1
    a2 = a2
    None = None
    Runner = Runner
    Reconciler = Reconciler
    Players <- OnePlayer
    Admins <- TwoAdmins
    Actions = {"hold", "announce"}
    IsManaged = FALSE
    IsScheduled = FALSE
    Faults = {"save", "journal"}
    MaxOperations = 2
    MaxCompletions = 4
    MaxRestarts = 0
SYMMETRY Swap
INVARIANTS
    ClosedToEntry
    JournalAgrees
PROPERTIES
    OutcomeKept
