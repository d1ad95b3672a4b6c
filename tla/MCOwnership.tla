----------------------------- MODULE MCOwnership -----------------------------
(* Objects and descriptors that nothing tells apart *)
EXTENDS Ownership, TLC

CONSTANTS o1, o2, o3, n1, n2, n3, a1

Symmetry == Permutations({o1, o2, o3}) \cup Permutations({n1, n2, n3})
===============================================================================
