CONSTANTS
    None = None o1 = o1 p1 = p1 p2 = p2 w1 = w1 w2 = w2
    Orders = {o1}
    Pushes = {p1, p2}
    Workers = {w1, w2}
    AdminTargets <- AnyTarget
    Faults = {"rejected", "unanswered", "early", "repeated", "lost", "dberror", "crash"}
    MaxResends = 1
    Simulated = {}
SYMMETRY Symmetry
SPECIFICATION Spec
INVARIANTS TypeOK PaidMeansCharged RecordedResult
