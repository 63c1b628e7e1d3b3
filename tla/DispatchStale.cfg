SPECIFICATION Spec
CONSTANTS
    Orders = {o1}
    Partners = {p1, p2}
    Desks = {d1}
    Hands = {h1, h2}
    MaxConcurrent = 1
    MaxCarrying = 1
    MaxFaults = 0
    None = None
SYMMETRY Symmetry
PROPERTY OnlyTheHolderMoves
CHECK_DEADLOCK FALSE
