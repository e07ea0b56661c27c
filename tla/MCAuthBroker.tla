---------------------------- MODULE MCAuthBroker ----------------------------
(* AuthBroker on small instances; the sets are given in the configurations. *)
EXTENDS AuthBroker, TLC

\* Connections, sessions, keys and PINs are interchangeable.
Symmetry == Permutations(Clients) \cup Permutations(Controls)
              \cup Permutations(Keys) \cup Permutations(Pins)
=============================================================================
