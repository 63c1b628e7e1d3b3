----------------------------- MODULE MCDispatch -----------------------------
(* Dispatch on small sets.  Symmetry is for the safety runs only.          *)
EXTENDS Dispatch, TLC

Symmetry == Permutations(Partners) \cup Permutations(Desks) \cup Permutations(Hands)

=============================================================================
