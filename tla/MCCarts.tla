------------------------------ MODULE MCCarts -------------------------------
(* Carts and Placement on small sets.  The two meet in a few statements,    *)
(* which each module has from its own side, so a behaviour exercises one of *)
(* them, picked at the start, while the other rests.  Each shop's catalogue *)
(* has an item; cart ids, line ids and requests are interchangeable, and    *)
(* orders share the values of lines, checkouts those of requests.           *)
EXTENDS Carts, Placement, TLC

CONSTANTS
    Sides,      \* the sides to check
    s1, s2, i2

VARIABLE side

MCShopOf == [i \in Items |-> IF i = i2 THEN s2 ELSE s1]

BasketInit ==
    /\ side \in Sides
    /\ Init
    /\ PlacementInit
    /\ side = "cart" => \A c \in Customers : basketOf[c] = Nothing

CartStep == side = "cart" /\ Next /\ UNCHANGED <<placementVars, side>>

PlacementStep == side = "placement" /\ PlacementNext /\ UNCHANGED <<vars, side>>

BasketNext == CartStep \/ PlacementStep

BasketSpec == BasketInit /\ [][BasketNext]_<<vars, placementVars, side>>

Symmetry == Permutations(Carts) \cup Permutations(Lines) \cup Permutations(Requests)

=============================================================================
