-------------------------- MODULE MCClassicServer --------------------------
(* ClassicServer with symmetric connections and threads.                   *)
EXTENDS ClassicServer, TLC

Symmetry == Permutations(Clients) \cup Permutations(Threads)

=============================================================================
