----------------------------- MODULE EchoService -----------------------------
(***************************************************************************)
(* What every echo server of the repository promises (abstract): a client  *)
(* gets back the bytes it sent, in the order it sent them, none twice and  *)
(* none left out.  The bytes of a client are numbered 1, 2, ... as it      *)
(* sends them, so what it got back is always 1..n for an n it has sent.    *)
(***************************************************************************)
EXTENDS Naturals, Sequences

CONSTANT Clients

VARIABLES
  sent,      \* per client: number of bytes sent
  echoed     \* per client: the bytes given back

vars == <<sent, echoed>>

FirstBytes(n) == [j \in 1..n |-> j]

Init == sent = [c \in Clients |-> 0] /\ echoed = [c \in Clients |-> <<>>]

Send(c) ==
  /\ sent'[c] \in Nat /\ sent'[c] > sent[c]
  /\ sent' = [sent EXCEPT ![c] = sent'[c]]
  /\ UNCHANGED echoed

Echo(c) ==
  \E n \in (Len(echoed[c]) + 1)..sent[c] :
    echoed' = [echoed EXCEPT ![c] = FirstBytes(n)] /\ UNCHANGED sent

Next == \E c \in Clients : Send(c) \/ Echo(c)

Spec == Init /\ [][Next]_vars
=============================================================================
