----------------------------- MODULE SelectServer -----------------------------
(***************************************************************************)
(* The echo server of chapter-12 (echo_selectserv.c).  Kernel, clients and *)
(* what happens to one ready descriptor are those of a level-triggered     *)
(* EpollServer.  The interest list is a variable of the program here, an   *)
(* fd_set and its highest member, which main has to keep up to date.       *)
(* batch is what is left of cpy_reads.  A time-out of select changes       *)
(* nothing and is left out.                                                *)
(***************************************************************************)
EXTENDS EpollServer

ASSUME SelectAssumption == ~EdgeTriggered /\ ~Drain /\ Nobody \notin Clients

VARIABLES
  reads,        \* the descriptors whose bit is set
  fd_max,       \* the bound of select and of the loop over cpy_reads
  aborted       \* TRUE once a fortified FD_SET has refused a descriptor

selectVars == <<reads, fd_max, aborted>>

SelectInit == Init /\ reads = {Serv} /\ fd_max = Serv /\ aborted = FALSE

\* for(i = 0; i < fd_max + 1; i++): the ready descriptors in ascending order.
\* serv_sock is the first that main has opened, and the lowest.
Ascending(q) == \A j, k \in DOMAIN q : j < k => q[j] < q[k]
Watched == {f \in reads : f <= fd_max}

Select ==
  /\ batch = <<>> /\ Ready \cap Watched # {}
  /\ \E q \in Orders(Ready \cap Watched) : Ascending(q) /\ batch' = q
  /\ UNCHANGED <<buf, edge, fdTab, conn, sent, got, echoed, seen, alive, selectVars>>

\* The descriptor that accept opens.
clnt_sock == CHOOSE f \in FreeFds : \A g \in FreeFds : f <= g

\* Fault: fd_max is the descriptor that was opened last.
Latest(f) == f
Highest(f) == IF fd_max < f THEN f ELSE fd_max

SelectAccept(c) ==
  /\ Accept(c)
  /\ reads' = reads \cup {clnt_sock} /\ fd_max' = Highest(clnt_sock)
  /\ UNCHANGED aborted

\* accept returns -1, and FD_SET(-1) is undefined.  Built without fortification
\* it sets bit 63, which is open already or above fd_max when no descriptor is
\* left; with it the program aborts.
SelectAcceptFails ==
  \/ AcceptFails /\ UNCHANGED selectVars
  \/ /\ At(Serv) /\ FreeFds = {} /\ Accepting
     /\ alive' = FALSE /\ aborted' = TRUE
     /\ UNCHANGED <<batch, buf, edge, fdTab, conn, sent, got, echoed, seen, reads, fd_max>>

\* Fault: the bit of a closed descriptor stays set.
NoClear(f) == ReadEof(f) /\ UNCHANGED selectVars

\* FD_CLR and close.
ClearAndClose(f) == ReadEof(f) /\ reads' = reads \ {f} /\ UNCHANGED <<fd_max, aborted>>

SelectRead(f) ==
  \/ (ReadData(f) \/ ReadReset(f)) /\ UNCHANGED selectVars
  \/ ClearAndClose(f)

SelectStep ==
  \/ Select \/ (\E c \in Clients : SelectAccept(c)) \/ SelectAcceptFails
  \/ (\E f \in Fds : SelectRead(f)) \/ (Write /\ UNCHANGED selectVars)

SelectNext ==
  alive /\ (SelectStep \/ \E c \in Clients : ClientStep(c) /\ UNCHANGED selectVars)

SelectSpec == SelectInit /\ [][SelectNext]_<<vars, selectVars>>

(***************************************************************************)
(* Properties.                                                             *)
(***************************************************************************)
Open == {f \in Fds : fdTab[f] # Nobody}

\* The fd_set never misses a connection nor holds a closed descriptor, at which
\* select would fail and main leave its loop, and no connection lies above
\* fd_max, although numbers are closed and given out again in any order.
ReadsAreOpen == Watched = Open \cup {Serv} /\ reads = Watched

\* select over reads is a level-triggered epoll_wait that reports every ready
\* descriptor, and each other step of the program one of EpollServer.  An abort
\* is where it leaves it.
Epoll == INSTANCE EpollServer WITH
           EPOLL_SIZE <- Cardinality(Fds) + 1, alive <- (alive \/ aborted)
SelectImplementsEpoll == Epoll!Spec
===============================================================================
