---------------------------- MODULE MCLifetime ------------------------------
(***************************************************************************)
(* Lifetime with an owner, a view and a view of the view, or a copy.       *)
(***************************************************************************)
EXTENDS Lifetime, TLC

Symmetry == Permutations(Obj) \cup Permutations(Export)

=============================================================================
