-------------------------- MODULE MCFreeThreading ---------------------------
(***************************************************************************)
(* An owner of three cells, a strided view of two of them and the same     *)
(* view reversed, which has a cache of its own.                            *)
(***************************************************************************)
EXTENDS FreeThreading, TLC

CONSTANTS a, v, w

MCArrays  == {a, v, w}
MCViews   == {v, w}
MCCellsOf == a :> <<1, 2, 3>> @@ v :> <<1, 3>> @@ w :> <<3, 1>>
MCValues  == {0, 1}
MCUpdates == {[x \in MCValues |-> 1 - x], [x \in MCValues |-> 1]}

MCSymmetry == Permutations(Threads)

=============================================================================
