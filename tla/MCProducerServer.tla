-------------------------- MODULE MCProducerServer --------------------------
(* ProducerServer on small sets.  Clients and threads are taken up to a    *)
(* renaming: c1 comes first, t1 is created first.  When an earlier process *)
(* left something in the queues, c1 alone comes, and no number left is     *)
(* another client's.                                                       *)
EXTENDS ProducerServer

CONSTANTS c1, t1

Numbered(c) == \E q \in {left.fds, left.others} : Occurrences(c, q) > 0
NothingLeft == left.fds = <<>> /\ left.others = <<>>

MCInit ==
  /\ Init
  /\ Created \subseteq {t1}
  /\ \A c \in Clients \ {c1} : ~Numbered(c)

InTurn == \A c \in Clients \ {c1} : conn[c] # "away" => conn[c1] # "away" /\ NothingLeft

MCSpec == MCInit /\ [][Next /\ InTurn']_vars /\ Fairness

=============================================================================
