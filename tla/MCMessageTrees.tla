--------------------------- MODULE MCMessageTrees ---------------------------
(* MessageTrees with interchangeable messages. *)
EXTENDS MessageTrees, TLC

Symmetry == Permutations(Nodes)
=============================================================================
