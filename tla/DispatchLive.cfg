SPECIFICATION FairSpec
CONSTANTS
    Orders = {o1}
    Partners = {p1, p2}
    Desks = {d1, d2}
    Hands = {h1}
    MaxConcurrent = 1
    MaxCarrying = 1
    MaxFaults = 0
    None = None
PROPERTIES LapsedOffersEnd WaitingJobsAreOffered
CHECK_DEADLOCK FALSE
