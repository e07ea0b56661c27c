------------------------------ MODULE Workers ------------------------------
(* What the parts of keyvisor-agent share: it serves each connection of an  *)
(* SSH client with a worker thread of its own, named after the client.      *)

CONSTANT Clients  \* SSH clients, each with at most one connection at a time
=============================================================================
