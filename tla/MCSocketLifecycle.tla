------------------------- MODULE MCSocketLifecycle -------------------------
(* Three agents that start, fail, serve and are killed at the same time; they *)
(* are alike.                                                                 *)
EXTENDS SocketLifecycle, TLC

AgentSymmetry == Permutations(Agents)
=============================================================================
