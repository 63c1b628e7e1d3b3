SPECIFICATION FairSpec
CONSTANTS
    Orders = {o1}
    Attempts = {a1}
    Buyers = {b1}
    Hooks = {h1}
    Refunders = {}
    MaxRefunds = 2
PROPERTY CapturedOrdersMoveOn
CHECK_DEADLOCK FALSE
