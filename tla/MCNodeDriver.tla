---------------------------- MODULE MCNodeDriver ----------------------------
(* Instances of NodeDriver for TLC.                                        *)
EXTENDS NodeDriverRefinement, TLC

\* Every machine has a name of its own: itself.
OwnNames == [m \in Machines |-> m]

CONSTANT HomeNode
OneNode == [m \in Machines |-> HomeNode]

VMIDSymmetry == Permutations(VMIDs)
SafetySymmetry == Permutations(Machines) \cup Permutations(VMIDs)
=============================================================================
