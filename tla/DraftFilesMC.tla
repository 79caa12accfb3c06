---------------------------- MODULE DraftFilesMC ----------------------------
(* Instances of DraftFiles for TLC: the clients and the texts are model    *)
(* values and interchangeable.                                             *)
EXTENDS DraftFiles, TLC

Symmetry == Permutations(Clients) \cup Permutations(Texts)
=============================================================================
