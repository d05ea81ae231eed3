------------------------------- MODULE MCGateway -------------------------------
(* Definitions that only the TLC configurations of Gateway need. *)
EXTENDS Gateway, TLC

\* The engines are interchangeable, and so are the clients.  (Safety runs only.)
Symmetry == Permutations(Engines) \cup Permutations(Clients)
=============================================================================
