SPECIFICATION BasketSpec
CONSTANTS
    Sides = {"cart", "placement"}
    s1 = s1
    s2 = s2
    i2 = i2
    Carts = {c1, c2}
    Lines = {l1, l2, l3}
    Shops = {s1, s2}
    Items = {i1, i2}
    Options = {o1}
    ShopOf <- MCShopOf
    Requests = {r1, r2}
    MaxLines = 2
    MaxQuantity = 2
    MaxOrders = 1
    Orders = {l1, l2, l3}
    Customers = {u1, u2}
    Keys = {k1}
    Baskets = {b1}
    Checkouts = {r1, r2}
    Nothing = None
    None = None
SYMMETRY Symmetry
INVARIANTS OneShop OnlyWhatWasChosen OneAnswerPerKey
PROPERTY OnlyASeenCartGoes
