------------------------------ MODULE TotalOrder ------------------------------
(***************************************************************************)
(* What a chat server promises about order (abstract): there is one log of *)
(* broadcasts, and each member receives a subsequence of that log, never   *)
(* going back in it.  Nothing is said about completeness: a member may     *)
(* miss a broadcast, and may receive the same one twice in a row.          *)
(***************************************************************************)
EXTENDS Naturals, Sequences

CONSTANTS Members, Texts

VARIABLES
  log,       \* the broadcasts, in the order they were begun
  rcvd       \* per member: positions in log, in the order they arrived

vars == <<log, rcvd>>

Init == log = <<>> /\ rcvd = [m \in Members |-> <<>>]

Broadcast(x) == log' = Append(log, x) /\ UNCHANGED rcvd

Deliver(m) ==
  \E k \in 1..Len(log) :
    /\ \A i \in 1..Len(rcvd[m]) : rcvd[m][i] <= k
    /\ rcvd' = [rcvd EXCEPT ![m] = Append(@, k)]
    /\ UNCHANGED log

Next == (\E x \in Texts : Broadcast(x)) \/ (\E m \in Members : Deliver(m))

Spec == Init /\ [][Next]_vars
=============================================================================
