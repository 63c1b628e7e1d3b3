SPECIFICATION PaymentSpec
CONSTANTS
    Ledgers = {"attempts", "cash"}
    Orders = {o1}
    Attempts = {a1, a2}
    Buyers = {b1, b2}
    Hooks = {h1, h2}
    Refunders = {f1}
    MaxRefunds = 1
    CashOrders = {c1, c2, c3}
    Partners = {p1, p2}
    Remittances = {r1, r2}
    None = None
INVARIANTS OneOpenAttempt PlacedOrdersArePaid BooksFollowTheGateway BatchesAreWhole
PROPERTIES SettledOnce EveryWordIsRecorded
CHECK_DEADLOCK FALSE
