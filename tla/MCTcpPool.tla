----------------------------- MODULE MCTcpPool -----------------------------
(* TcpPool on a small pool: model values for connections, threads and      *)
(* descriptors, each a symmetric set for the safety run.                   *)
EXTENDS TcpPool, TLC

Symmetry == Permutations(Clients) \cup Permutations(Threads) \cup Permutations(Fds)

=============================================================================
