----------------------------- MODULE EventServers -----------------------------
(***************************************************************************)
(* The event loops with blocking sockets: "epoll" (EpollServer) or         *)
(* "select" (SelectServer), chosen once, with the same clients.            *)
(***************************************************************************)
EXTENDS SelectServer

VARIABLE program

loopVars == <<program, vars, selectVars>>

LoopInit == program \in {"epoll", "select"} /\ SelectInit

LoopStep ==
  \/ program = "epoll" /\ ServerStep /\ UNCHANGED selectVars
  \/ program = "select" /\ SelectStep

LoopClient(c) == ClientStep(c) /\ UNCHANGED selectVars

LoopNext == alive /\ (LoopStep \/ \E c \in Clients : LoopClient(c)) /\ UNCHANGED program

LoopSpec == LoopInit /\ [][LoopNext]_loopVars

\* main runs whenever it can, and the clients read their echo.
LoopFairSpec ==
  /\ LoopSpec /\ WF_loopVars(alive /\ LoopStep /\ UNCHANGED program)
  /\ \A c \in Clients :
       WF_loopVars(alive /\ ClientRead(c) /\ UNCHANGED <<program, selectVars>>)

\* ReadsAreOpen, of the program that has an fd_set.
EveryConnectionWatched == program = "select" => ReadsAreOpen
\* Each step of the select server is a step of a level-triggered EpollServer
\* that always reports every ready descriptor, or the abort.
SelectStepsAreEpoll ==
  [][program = "select" => Epoll!Next \/ UNCHANGED Epoll!vars]_loopVars
===============================================================================
