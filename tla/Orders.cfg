SPECIFICATION OrdersSpec
CONSTANTS
    Parts = {"orders", "settings"}
    Orders = {o1}
    Calls = {c1, c2}
    Window = 1
    MaxTime = 1
    Writers = {c1, c2}
    Places <- MCPlaces
    Scopes <- MCScopes
    Entries <- MCEntries
    Signals <- MCSignals
    Strays <- MCStrays
    Distances <- MCDistances
    Subtotals <- MCSubtotals
    MaxChanges = 3
SYMMETRY Symmetry
INVARIANTS TimesNeverGoBack CustomersCancelInTime NearestSettingWins  
PROPERTIES ImplementsLifecycle EarlierPinsStand
CHECK_DEADLOCK FALSE
