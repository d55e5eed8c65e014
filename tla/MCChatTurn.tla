----------------------------- MODULE MCChatTurn -----------------------------
(* Instances of ChatTurn for TLC. *)
EXTENDS ChatTurn, TLC

\* Turns, workers and task slots are interchangeable.
Symmetry == Permutations(Turns) \cup Permutations(Workers) \cup Permutations(Slots)
=============================================================================
