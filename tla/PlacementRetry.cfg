SPECIFICATION PlacementSpec
CONSTANTS
    Orders = {o1, o2}
    Customers = {u1}
    Keys = {k1}
    Checkouts = {r1, r2}
    Baskets = {b1}
    Nothing = Nothing
INVARIANT OneOrderPerKey
