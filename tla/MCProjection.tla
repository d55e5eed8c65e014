---------------------------- MODULE MCProjection ----------------------------
(* Instances of Projection for TLC. *)
EXTENDS Projection, TLC

CONSTANTS d1, d2, i1, i2

\* Instances and documents are interchangeable.
Symmetry == Permutations(Instances) \cup Permutations(Docs)
=============================================================================
