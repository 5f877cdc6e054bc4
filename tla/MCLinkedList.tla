---------------------------- MODULE MCLinkedList ----------------------------
(* Instances of LinkedList for TLC. *)
EXTENDS LinkedList, TLC

NodeSymmetry == Permutations(Nodes)

=============================================================================
