SPECIFICATION Spec
CONSTANTS
    Categories = {c1, c2, c3}
    Items = {i1, i2}
    Combos = {b1}
    Variants = {v1}
    AddOns = {a1}
    Kinds = {"restaurant", "pharmacy"}
    Requests = {r1, r2}
    Readers = {m1}
    MaxCategories = 1
    MaxCalls = 3
    MaxOptions = 3
    None = None
SYMMETRY Symmetry
INVARIANTS MenuIsWhole GroupsCanBeChosen PrescriptionsOnlyFromPharmacies SectionsNearTheLimit MenuShowsWhatStood
CHECK_DEADLOCK FALSE
