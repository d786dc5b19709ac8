----------------------------- MODULE SmallPrograms -----------------------------
(***************************************************************************)
(* Every small program, or pair of programs, of the book, each run on its  *)
(* own: program is chosen at the start and does not change.  The variables *)
(* of the others stay as they were.                                        *)
(***************************************************************************)
EXTENDS EchoPair, TransferPair, UrgentPair, Datagrams, Threads, Processes

NoEcho == file = [s \in Sides |-> <<>>] /\ round = 0 /\ lines = 0

Init ==
  \/ EchoInit /\ NoUrgentData /\ NoDatagrams /\ NoThreads /\ NoProcesses
  \/ TransferInit /\ NoEcho /\ NoUrgentData /\ NoDatagrams /\ NoThreads /\ NoProcesses
  \/ UrgentInit /\ NoEcho /\ NoDatagrams /\ NoThreads /\ NoProcesses
  \/ DatagramInit /\ NoConnection /\ NoEcho /\ NoUrgentData /\ NoThreads /\ NoProcesses
  \/ ThreadInit /\ NoConnection /\ NoEcho /\ NoUrgentData /\ NoDatagrams /\ NoProcesses
  \/ ProcessInit /\ NoConnection /\ NoEcho /\ NoUrgentData /\ NoDatagrams /\ NoThreads

vars ==
  <<progVars, netVars, echoVars, urgentVars, netFaults, threadVars, processVars>>
\* The variables that only one family uses.
NotEcho == UNCHANGED <<urgentVars, netFaults, threadVars, processVars>>
NotTransfer == NotEcho /\ UNCHANGED echoVars
NotUrgent == UNCHANGED <<echoVars, netFaults, threadVars, processVars>>
NotDatagram == UNCHANGED <<netVars, echoVars, urgentVars, threadVars, processVars>>
NotThread == UNCHANGED <<netVars, echoVars, urgentVars, netFaults, processVars>>
NotProcess == UNCHANGED <<netVars, echoVars, urgentVars, netFaults, threadVars>>

Next ==
  \/ EchoNext /\ NotEcho
  \/ TransferNext /\ NotTransfer
  \/ UrgentNext /\ NotUrgent
  \/ DatagramNext /\ NotDatagram
  \/ ThreadNext /\ NotThread
  \/ ProcessNext /\ NotProcess

Spec == Init /\ [][Next]_vars

\* All programs, threads and processes run when they can, and a user types or
\* quits in the end; nobody has to interrupt anything, and no datagram has to
\* be lost or copied.
EchoServer == Accept \/ ServerEnds \/ ServerStep
EchoClient == Type \/ Read \/ Show \/ Quit
FairSpec ==
  /\ Spec
  /\ WF_vars(program \in EchoPrograms /\ EchoServer /\ NotEcho)
  /\ WF_vars(program \in EchoPrograms /\ EchoClient /\ NotEcho)
  /\ WF_vars(program \in TransferPrograms /\ TransferServer /\ NotTransfer)
  /\ WF_vars(program \in TransferPrograms /\ TransferClient /\ NotTransfer)
  /\ WF_vars(RstArrives /\ NotTransfer)
  /\ WF_vars(program \in UrgentPrograms /\ Sender /\ Rigid /\ NotUrgent)
  /\ WF_vars(program \in UrgentPrograms /\ Receiver /\ Rigid /\ NotUrgent)
  /\ WF_vars(program \in DatagramPrograms /\ DatagramStep /\ Rigid /\ NotDatagram)
  /\ \A t \in 0..NUM_THREAD :
       WF_vars(program \in ThreadPrograms /\ t \in Running /\ ThreadStep(t) /\ Rigid /\ NotThread)
  /\ WF_vars(program \in ProcessPrograms /\ ProcessStep /\ Rigid /\ NotProcess)

\* Nobody waits for ever: the echo server has served all its clients, or a
\* SIGPIPE has ended it; every text is transferred and every thread joined;
\* those who speak UDP end unless a datagram is lost, and those who use one
\* pipe for both directions unless the sleep is too short.
Ended ==
  CASE program \in EchoPrograms ->
         pc["server"] \in {"end", "dead"} /\ pc["client"] \in {"end", "gone"}
    [] program = "news" -> pc["sender"] = "end"
    [] program = "uecho" -> lost > 0 \/ \A c \in Pals : pc[c] = "end"
    [] program \in ForkPrograms -> pc["parent"] = "end"
    [] OTHER -> lost > 0 \/ (program = "pipe2" /\ ~timely) \/ \A a \in DOMAIN pc : pc[a] = "end"
AllEnd == <>Ended
================================================================================
