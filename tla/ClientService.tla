--------------------------- MODULE ClientService ---------------------------
(***************************************************************************)
(* What a pool of processing threads promises its clients, whatever the    *)
(* protocol and the way the pool is run: a client that comes is taken by   *)
(* one thread, once, and is either served or lost, for good.  The tally    *)
(* the server reports never runs ahead of the clients it is done with.     *)
(* A process may end and another begin: the clients the first one was with *)
(* are lost, those that wait may be found by the second one.  A process    *)
(* may also close its door, once: nobody comes any more and some of those  *)
(* that wait are lost, but the others are still served.                    *)
(***************************************************************************)
EXTENDS Integers, FiniteSets

CONSTANTS
  Clients,
  Lossy     \* TRUE when what clients and server send each other may be lost

VARIABLES
  status,   \* where each client stands
  tally,    \* the number of served clients the server reports
  door      \* "open", "closed", or "gone": there is no server process

vars == <<status, tally, door>>

Init == status = [c \in Clients |-> "away"] /\ tally = 0 /\ door = "open"

Up == door # "gone"

Move(c, from, to) ==
  /\ Up /\ status[c] = from /\ status' = [status EXCEPT ![c] = to]
  /\ UNCHANGED <<tally, door>>

Arrive(c) == door = "open" /\ Move(c, "away", "waiting")
Begin(c)  == Move(c, "waiting", "serving")
Finish(c) == Move(c, "serving", "served")
Lose(c)   == Lossy /\ (Move(c, "away", "lost") \/ Move(c, "serving", "lost"))

Report ==
  /\ Up /\ tally < Cardinality({c \in Clients : status[c] \in {"served", "lost"}})
  /\ tally' = tally + 1
  /\ UNCHANGED <<status, door>>

Shut ==
  /\ door = "open" /\ door' = "closed"
  /\ \E L \in SUBSET {c \in Clients : status[c] = "waiting"} :
       status' = [c \in Clients |-> IF c \in L THEN "lost" ELSE status[c]]
  /\ UNCHANGED tally

End ==
  /\ Up /\ door' = "gone"
  /\ \E L \in SUBSET {c \in Clients : status[c] \in {"waiting", "serving"}} :
       /\ \A c \in Clients \ L : status[c] # "serving"
       /\ status' = [c \in Clients |-> IF c \in L THEN "lost" ELSE status[c]]
  /\ UNCHANGED tally

Start == ~Up /\ door' = "open" /\ tally' = 0 /\ UNCHANGED status

Next ==
  \/ Report \/ Shut \/ End \/ Start
  \/ \E c \in Clients : Arrive(c) \/ Begin(c) \/ Finish(c) \/ Lose(c)

Spec == Init /\ [][Next]_vars

=============================================================================
