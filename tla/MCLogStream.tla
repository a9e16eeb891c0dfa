---------------------------- MODULE MCLogStream -----------------------------
(* Instances of LogStream for TLC. *)
EXTENDS LogStream, TLC

Symmetry == Permutations(Containers) \cup Permutations(Owners)
=============================================================================
