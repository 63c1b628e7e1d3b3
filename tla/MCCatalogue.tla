----------------------------- MODULE MCCatalogue -----------------------------
(* Catalogue for TLC: a shop of two items and one combo, two devices. *)
EXTENDS Catalogue, TLC

Symmetry == Permutations(Requests) \cup Permutations(Categories) \cup Permutations(Items)
=============================================================================
