CONSTANTS
    None = None o1 = o1 p1 = p1 p2 = p2 w1 = w1
    Orders = {o1}
    Pushes = {p1, p2}
    Workers = {w1}
    AdminTargets <- NoTarget
    Faults = {"repeated"}
    MaxResends = 1
    Simulated = {}
SPECIFICATION Spec
PROPERTIES RepeatIsQuiet
