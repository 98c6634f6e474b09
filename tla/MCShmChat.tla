----------------------------- MODULE MCShmChat -----------------------------
(* ShmChat with the clients taken up to a renaming: c1 is the first to try *)
(* to log in.                                                              *)
EXTENDS ShmChat

CONSTANT c1

InTurn == \A c \in Clients \ {c1} : pc[c] # "out" => pc[c1] # "out"

MCSpec == Init /\ [][Next /\ InTurn']_vars /\ Fairness

=============================================================================
