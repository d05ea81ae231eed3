----------------------- MODULE MCHazardPointerDomain -----------------------
(* Definitions that only the TLC configurations of HazardPointerDomain need. *)
EXTENDS HazardPointerDomain, TLC

\* Readers, writers and addresses are interchangeable.
Symmetry == Permutations(Readers) \cup Permutations(Writers) \cup Permutations(Nodes)
=============================================================================
