CONSTANTS
    None = None o1 = o1 o2 = o2 p1 = p1 p2 = p2 p3 = p3 w1 = w1
    Orders = {o1, o2}
    Pushes = {p1, p2, p3}
    Workers = {w1}
    AdminTargets <- NotPaymentFailed
    Faults = {"rejected", "unanswered", "early", "lost", "dberror", "crash"}
    MaxResends = 0
    Simulated = {p3}
SYMMETRY Symmetry
SPECIFICATION Spec
INVARIANTS OneKnownPrompt ReleasedOnce
PROPERTIES KnownPayerNotPrompted FollowsLifecycle
