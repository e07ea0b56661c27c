------------------------------ MODULE MCAgent ------------------------------
(* The composed agent on small instances. *)
EXTENDS Agent, TLC

\* Connections and control sessions are interchangeable.
Symmetry == Permutations(Clients) \cup Permutations(Controls)
=============================================================================
