------------------------- MODULE MCConcurrentQueue -------------------------
(* Definitions that only the TLC configurations of ConcurrentQueue need. *)
EXTENDS ConcurrentQueue, TLC

\* Producers are interchangeable, and so are consumers.  (Safety runs only.)
Symmetry == Permutations(Producers) \cup Permutations(Consumers)
=============================================================================
