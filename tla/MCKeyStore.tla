----------------------------- MODULE MCKeyStore -----------------------------
(* A few processes and keys, with every kind of failure. *)
EXTENDS KeyStore, TLC

\* Processes and keys are interchangeable.
Symmetry == Permutations(Procs) \cup Permutations(KeyIds)
=============================================================================
