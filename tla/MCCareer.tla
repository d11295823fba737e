----------------------------- MODULE MCCareer ------------------------------
(***************************************************************************)
(* TLC instance of Career.                                                 *)
(***************************************************************************)
EXTENDS Career, TLC

Symmetry == Permutations(Jobs) \cup Permutations(Workers)

=============================================================================
