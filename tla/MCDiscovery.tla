----------------------------- MODULE MCDiscovery -----------------------------
(* Merchants and Discovery for TLC: two shops' ids and owners, a division    *)
(* that holds the customer and two places, and a third place on its border.  *)
EXTENDS Discovery, TLC

CONSTANT A

At(lat, lng) == [lat |-> lat, lng |-> lng]

near == At(1, 2)
far == At(3, 2)
border == At(4, 2)

MCPins == {near, far, border}
MCSpot == At(1, 1)
MCMetres == near :> 2 @@ far :> 3 @@ border :> 4
MCDivisions == {[code |-> A, boundary |-> <<At(0, 0), At(4, 0), At(4, 4), At(0, 4), At(0, 0)>>]}

Symmetry == Permutations(Requests) \cup Permutations(Shops) \cup Permutations(Owners)

MCGrid == {At(lat, lng) : lat, lng \in 0..2}
=============================================================================
