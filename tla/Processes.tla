------------------------------ MODULE Processes ------------------------------
(***************************************************************************)
(* A parent and its children.  chapter-11: "pipe1", "pipe2", "pipe3", in   *)
(* which a child speaks first and the last two answer, over the same pipe  *)
(* or a second one.  chapter-10: "wait", "waitpid", "zombie" and           *)
(* "remove_zombie", which see to the ends of their children.               *)
(***************************************************************************)
EXTENDS Program

VARIABLES
  pipe,         \* the messages in the first and in the second pipe
  sigchld,      \* SIGCHLD of the parent: "no", "pending" or "handled" now
  merged        \* SIGCHLDs that found one pending

processVars == <<pipe, sigchld, merged>>

PipePrograms == {"pipe1", "pipe2", "pipe3"}
ForkPrograms == {"wait", "waitpid", "zombie", "remove_zombie"}
ProcessPrograms == PipePrograms \cup ForkPrograms
Kids == IF program \in {"wait", "remove_zombie"} THEN {"child", "second"} ELSE {"child"}
Sleeps == 5     \* of the parent in remove_zombie.c

NoProcesses == pipe = <<<<>>, <<>>>> /\ sigchld = "no" /\ merged = 0

\* The children are there when the parent goes on, and have not run yet.
ProcessInit ==
  /\ program \in ProcessPrograms /\ timely \in BOOLEAN /\ text = <<>> /\ NoProcesses
  /\ pc = [a \in Kids \cup {"parent"} |->
             IF a # "parent" THEN "run" ELSE IF program \in PipePrograms THEN "read" ELSE "sleep"]
  /\ buf = [a \in DOMAIN pc |-> 0] /\ printed = [a \in DOMAIN pc |-> <<>>]

(***************************************************************************)
(* Pipes.  At most one message is in a pipe at a time, so a read takes it. *)
(***************************************************************************)
Question == "Who are you?"
Answer == "Thank you for your message"
\* Fault: pipe3.c answers through the first pipe.
OnePipe == 1
Back == IF program = "pipe3" THEN 2 ELSE 1

Puts(a, p, m, from, to) ==
  /\ Moves(a, from, to) /\ pipe' = [pipe EXCEPT ![p] = Append(@, m)]
  /\ UNCHANGED <<buf, text, printed, sigchld, merged>>
Takes(a, p, from, to) ==
  /\ pipe[p] # <<>> /\ Moves(a, from, to)
  /\ Prints(a, <<Head(pipe[p])>>) /\ pipe' = [pipe EXCEPT ![p] = Tail(@)]
  /\ UNCHANGED <<buf, text, sigchld, merged>>

\* The child of pipe2.c sleeps, so that the parent reads first.
Slept == program = "pipe2" /\ timely => pc["parent"] # "read"

ChildAsks == Puts("child", 1, Question, "run", IF program = "pipe1" THEN "end" ELSE "read")
ChildHears == Slept /\ Takes("child", Back, "read", "end")
ParentHears == Takes("parent", 1, "read", IF program = "pipe1" THEN "end" ELSE "answer")
ParentAnswers == Puts("parent", Back, Answer, "answer", "end")

PipeStep == ChildAsks \/ ChildHears \/ ParentHears \/ ParentAnswers

(***************************************************************************)
(* Children that end.                                                      *)
(***************************************************************************)
Zombies == {k \in Kids : pc[k] = "zombie"}
Owned == sigchld \in {"pending", "again"}

\* SIGCHLD is ignored except in remove_zombie.c, and does not queue.  An orphan
\* is reaped by init.
ChildExits(k) ==
  /\ Moves(k, "run", IF pc["parent"] = "end" THEN "gone" ELSE "zombie")
  /\ IF program # "remove_zombie" \/ pc["parent"] = "end" THEN UNCHANGED <<sigchld, merged>>
     ELSE /\ sigchld' = IF sigchld \in {"handled", "again"} THEN "again" ELSE "pending"
          /\ merged' = IF Owned THEN merged + 1 ELSE merged
  /\ UNCHANGED <<buf, text, printed, pipe>>

\* wait or waitpid returns a child that has ended, with its status.
Reaps(k) ==
  /\ k \in Zombies /\ Prints("parent", <<k>>) /\ UNCHANGED <<buf, text, pipe, merged>>

\* Fault: the second wait is left out.
WaitsOnce == 1
Waits == IF program = "wait" THEN 2 ELSE 1

ParentWaits(k) ==
  /\ program \in {"wait", "waitpid"} /\ pc["parent"] = "sleep" /\ Reaps(k)
  /\ pc' = [pc EXCEPT ![k] = "gone", !["parent"] = IF Len(printed'["parent"]) = Waits THEN "end" ELSE @]
  /\ UNCHANGED sigchld

\* read_childproc.
HandlerStarts ==
  /\ sigchld = "pending" /\ pc["parent"] # "end" /\ sigchld' = "handled"
  /\ UNCHANGED <<pc, buf, text, printed, pipe, merged>>
HandlerReaps(k) ==
  /\ sigchld \in {"handled", "again"} /\ Reaps(k)
  /\ pc' = [pc EXCEPT ![k] = "gone"] /\ sigchld' = IF sigchld = "again" THEN "pending" ELSE "no"

\* The parents that do not wait sleep, once or five times; a signal cuts a
\* sleep short.  Without timely their children may outlive them.
Expected == timely => \A k \in Kids : pc[k] # "run"
ParentSleeps ==
  /\ program \in {"zombie", "remove_zombie"} /\ pc["parent"] = "sleep" /\ sigchld = "no"
  /\ buf' = [buf EXCEPT !["parent"] = @ + 1]
  /\ IF buf'["parent"] = (IF program = "zombie" THEN 1 ELSE Sleeps)
     THEN Expected /\ pc' = [pc EXCEPT !["parent"] = "end"] ELSE UNCHANGED pc
  /\ UNCHANGED <<text, printed, processVars>>

ForkStep ==
  \/ ParentSleeps \/ HandlerStarts
  \/ \E k \in Kids : ChildExits(k) \/ ParentWaits(k) \/ HandlerReaps(k)

ProcessStep == IF program \in PipePrograms THEN PipeStep ELSE ForkStep

ProcessNext == program \in ProcessPrograms /\ ProcessStep /\ Rigid

(***************************************************************************)
(* Properties.                                                             *)
(***************************************************************************)
\* The parent hears the question and the child the answer.  With a single pipe
\* this takes a long enough sleep, or the child may hear its own question, and
\* nobody else does.
PipesTalk == program \in PipePrograms =>
  /\ printed["parent"] \in {<<>>, <<Question>>}
  /\ program # "pipe2" \/ timely => printed["child"] \in {<<>>, <<Answer>>}
  /\ printed["child"] = <<Question>> => printed["parent"] = <<>>

\* A parent that waits has reaped all its children when it ends, each once.
\* One that leaves it to its handler keeps as many zombies as SIGCHLDs were
\* merged, once the handler has done what it was called for.
ChildrenReaped == program \in ForkPrograms =>
  /\ \A j, k \in DOMAIN printed["parent"] : printed["parent"][j] = printed["parent"][k] => j = k
  /\ program \in {"wait", "waitpid"} /\ pc["parent"] = "end" => \A k \in Kids : pc[k] = "gone"
  /\ program = "remove_zombie" /\ sigchld = "no" => Cardinality(Zombies) = merged
==============================================================================
