----------------------------- MODULE MCRaftNode -----------------------------
(* RaftNode for TLC: nodes are interchangeable model values.               *)
EXTENDS RaftNode, TLC

Symmetry == Permutations(Node)

=============================================================================
