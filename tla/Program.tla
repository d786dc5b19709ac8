------------------------------- MODULE Program -------------------------------
(***************************************************************************)
(* What the small programs of the book have in common.  Which of them runs *)
(* is chosen once.  Its actors are the two sides of a connection, hosts,   *)
(* threads, or a process and its children.                                 *)
(***************************************************************************)
EXTENDS Integers, Sequences, FiniteSetsExt

VARIABLES
  program,      \* which program, or pair of programs, runs
  timely,       \* TRUE if every sleep is longer than what it waits for
  pc,           \* per actor: where it is
  buf,          \* per actor: its buffer, or what it holds in a register
  text,         \* what is typed, or what has to be sent
  printed       \* per actor: what it has printed

progVars == <<program, timely, pc, buf, text, printed>>

\* An actor goes on, with these bytes in its buffer.
Goes(s, to, bytes) == pc' = [pc EXCEPT ![s] = to] /\ buf' = [buf EXCEPT ![s] = bytes]
Moves(s, from, to) == pc[s] = from /\ pc' = [pc EXCEPT ![s] = to]
Prints(s, what) == printed' = [printed EXCEPT ![s] = @ \o what]
Rigid == UNCHANGED <<program, timely>>
Increasing(s) == \A j, k \in DOMAIN s : j < k => s[j] < s[k]
===============================================================================
