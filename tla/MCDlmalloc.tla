----------------------------- MODULE MCDlmalloc -----------------------------
(* Model checking of Dlmalloc. *)
EXTENDS Dlmalloc

Pairs == {<<3, 9>>}
Symmetry == Permutations(Threads)
=============================================================================
