------------------------------ MODULE MCOrders ------------------------------
(* Orders and Settings for TLC: one order moved by two requests, and the    *)
(* settings of an area of a division and of that division at large, changed *)
(* by two.  Of the settings an order's moves are decided by one number, the *)
(* window, which each request reads once and the model keeps fixed; so a    *)
(* behaviour exercises one of the two, picked at the start.                 *)
EXTENDS Orders, Settings, TLC

CONSTANT Parts      \* the parts to check

VARIABLE part

Area == [area |-> "mirpur", district |-> NoCode, division |-> "dhaka"]
Division == [area |-> NoCode, district |-> NoCode, division |-> "dhaka"]

MCPlaces == {Area, Division}

MCScopes == {Scope("area", "mirpur"), Scope("division", "dhaka"), GlobalScope, Scope("global", "mirpur")}

MCEntries ==
    {<<"discovery_base_radius", Km(1)>>, <<"discovery_base_radius", Km(25) + 1>>, <<"discovery_min_merchants", 1>>,
     <<"pricing_expansion_mult", 10>>, <<"pricing_expansion_mult", 9>>,
     <<"pricing_free_delivery", Taka(100)>>, <<"discovery_division_ceil", 0>>}

MCSignals == {[nearby |-> 3, failing |-> FALSE], [nearby |-> 10, failing |-> FALSE]}

MCStrays ==
    {[key |-> "discovery_division_ceil", scope |-> Scope("area", "mirpur"),
      value |-> Value("bool", 0), pinned |-> FALSE],
     [key |-> "discovery_old_radius", scope |-> GlobalScope,
      value |-> Value("count", 7), pinned |-> FALSE],
     [key |-> "pricing_expansion_mult", scope |-> GlobalScope,
      value |-> Value("ratio", 9), pinned |-> FALSE]}

MCDistances == {0, 1000, 1001}

MCSubtotals == {0, Taka(500) - 1, Taka(500)}

AnyOrder == [o \in Orders |-> "cash"]

OrdersInit ==
    /\ part \in Parts
    /\ Init
    /\ SettingsInit
    /\ part = "orders" => rows = {}
    /\ part = "settings" => payment = AnyOrder

OrderStep == part = "orders" /\ Next /\ UNCHANGED <<settingsVars, part>>

SettingsStep == part = "settings" /\ SettingsNext /\ UNCHANGED <<vars, part>>

OrdersNext == OrderStep \/ SettingsStep

OrdersSpec == OrdersInit /\ [][OrdersNext]_<<vars, settingsVars, part>>

Symmetry == Permutations(Calls)
=============================================================================
