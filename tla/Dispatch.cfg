SPECIFICATION Spec
CONSTANTS
    Orders = {o1}
    Partners = {p1, p2}
    Desks = {d1}
    Hands = {h1, h2}
    MaxConcurrent = 1
    MaxCarrying = 2
    MaxFaults = 1
    None = None
SYMMETRY Symmetry
INVARIANTS HoldersAgreed OrderFollowsJob
PROPERTY ImplementsDelivery
CHECK_DEADLOCK FALSE
