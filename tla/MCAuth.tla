------------------------------- MODULE MCAuth -------------------------------
(* Instances of Auth for TLC: the model values come from the cfg files. *)
EXTENDS Auth, TLC

Symmetry == Permutations(Tabs) \cup Permutations(Users) \cup Permutations(States)
=============================================================================
