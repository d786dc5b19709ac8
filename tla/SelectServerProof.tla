--------------------------- MODULE SelectServerProof ---------------------------
(***************************************************************************)
(* Proofs about the select server: its fd_set holds exactly the open       *)
(* descriptors, none above fd_max, and so the server implements            *)
(* EpollServer, and with it EchoService.  They hold for every number of    *)
(* clients and descriptors and all sizes of buffers and messages.          *)
(***************************************************************************)
EXTENDS EventServers, FiniteSetTheorems, TLAPS

\* The loop ends with an abort.
AbortEnds == ~(alive /\ aborted)

\* ReadsAreOpen with the types it needs.  edge is never used.
SelectInv ==
  /\ fdTab \in [Fds -> Clients \cup {Nobody}]
  /\ reads = Open \cup {Serv} /\ fd_max \in Int
  /\ \A f \in reads : f <= fd_max
  /\ edge = {} /\ AbortEnds

LEMMA InitSelect == SelectInit => SelectInv
<1> SUFFICES ASSUME SelectInit PROVE SelectInv
  OBVIOUS
<1>1. fdTab = [f \in Fds |-> Nobody] /\ edge = {}
  BY DEF SelectInit, Init
<1>2. reads = {Serv} /\ fd_max = Serv /\ AbortEnds
  BY DEF SelectInit, AbortEnds
<1>3. Open = {}
  BY <1>1 DEF Open
<1> QED
  BY <1>1, <1>2, <1>3 DEF SelectInv, Serv

LEMMA InvWatches == SelectInv => ReadsAreOpen
BY DEF SelectInv, ReadsAreOpen, Watched

(***************************************************************************)
(* The invariant.                                                          *)
(***************************************************************************)
\* accept: the new descriptor is open and in the set, and not above fd_max.
LEMMA AcceptKeeps ==
  ASSUME SelectInv, NEW c \in Clients, SelectAccept(c)
  PROVE  SelectInv'
<1>1. PICK f \in FreeFds : /\ \A g \in FreeFds : f <= g
                           /\ fdTab' = [fdTab EXCEPT ![f] = c]
  BY DEF SelectAccept, Accept
<1>2. FreeFds \subseteq Nat
  BY ConstantsAssumption DEF FreeFds
<1>3. clnt_sock \in FreeFds /\ \A g \in FreeFds : clnt_sock <= g
  BY <1>1 DEF clnt_sock
<1>4. clnt_sock = f
  BY <1>1, <1>2, <1>3
<1>5. f \in Fds /\ f \in Nat /\ c # Nobody
  BY <1>2, SelectAssumption DEF FreeFds
<1>6. reads' = reads \cup {f} /\ fd_max' = (IF fd_max < f THEN f ELSE fd_max)
  BY <1>4 DEF SelectAccept, Highest
<1>7. edge' = {} /\ AbortEnds'
  BY DEF SelectAccept, Accept, SelectInv, AbortEnds
<1>8. fdTab' \in [Fds -> Clients \cup {Nobody}] /\ Open' = Open \cup {f}
  BY <1>1, <1>5 DEF SelectInv, Open
<1>9. reads \subseteq Int
  <2>1. Open \subseteq Fds
    BY DEF Open
  <2>2. Fds \subseteq Int /\ Serv \in Int
    BY ConstantsAssumption DEF Serv
  <2> QED
    BY <2>1, <2>2 DEF SelectInv
<1>10. fd_max' \in Int /\ \A g \in reads' : g <= fd_max'
  BY <1>5, <1>6, <1>9 DEF SelectInv
<1> QED
  BY <1>6, <1>7, <1>8, <1>10 DEF SelectInv

\* FD_CLR and close: the descriptor leaves both.
LEMMA CloseKeeps ==
  ASSUME SelectInv, NEW f \in Fds, ClearAndClose(f)
  PROVE  SelectInv'
<1>1. fdTab' = [fdTab EXCEPT ![f] = Nobody] /\ edge' = {} /\ AbortEnds'
  BY DEF ClearAndClose, ReadEof, Eof, SelectInv, AbortEnds
<1>2. Open' = Open \ {f} /\ f # Serv
  BY <1>1, ConstantsAssumption DEF SelectInv, Open, Serv
<1> QED
  BY <1>1, <1>2 DEF ClearAndClose, SelectInv

LEMMA StepKeeps == SelectInv /\ SelectNext => SelectInv'
<1> SUFFICES ASSUME SelectInv, SelectNext PROVE SelectInv'
  OBVIOUS
<1>1. ASSUME UNCHANGED <<fdTab, edge, reads, fd_max>>, AbortEnds' PROVE SelectInv'
  BY <1>1 DEF SelectInv, Open
<1>2. Select => UNCHANGED <<fdTab, edge, reads, fd_max>> /\ AbortEnds'
  BY DEF Select, SelectInv, AbortEnds, selectVars
<1>3. SelectAcceptFails => UNCHANGED <<fdTab, edge, reads, fd_max>> /\ AbortEnds'
  BY DEF SelectAcceptFails, AcceptFails, SelectInv, AbortEnds, selectVars
<1>4. ASSUME NEW f \in Fds, ReadData(f) \/ ReadReset(f), UNCHANGED selectVars
      PROVE  UNCHANGED <<fdTab, edge, reads, fd_max>> /\ AbortEnds'
  BY <1>4 DEF ReadData, Taken, ReadReset, SelectInv, AbortEnds, selectVars
<1>5. ASSUME Write, UNCHANGED selectVars
      PROVE  UNCHANGED <<fdTab, edge, reads, fd_max>> /\ AbortEnds'
  BY <1>5 DEF Write, WriteData, Written, WriteToClosed, WriteSigpipe, SelectInv, AbortEnds,
              selectVars
<1>6. ASSUME NEW c \in Clients, ClientStep(c), UNCHANGED selectVars
      PROVE  UNCHANGED <<fdTab, edge, reads, fd_max>> /\ AbortEnds'
  BY <1>6, SelectAssumption DEF ClientStep, ClientSend, ClientRead, ClientClose, News,
                                SelectInv, AbortEnds, selectVars
<1> QED
  BY <1>1, <1>2, <1>3, <1>4, <1>5, <1>6, AcceptKeeps, CloseKeeps DEF SelectNext, SelectStep, SelectRead

(***************************************************************************)
(* The refinement: EpollServer without the abort, and a batch for all.     *)
(***************************************************************************)
\* The instance has its own copy of FiniteSets.
LEMMA SameCardinality == \A S : Epoll!Cardinality(S) = Cardinality(S)
BY DEF Cardinality, Epoll!Cardinality

\* select reports every ready descriptor, and that many fit in a batch.
LEMMA SelectIsEpollWait == ASSUME SelectInv, Select PROVE Epoll!EpollWait
<1>1. Ready \subseteq Fds \cup {Serv} /\ Ready \cap Watched = Ready
  <2>1. Ready \subseteq Open \cup {Serv} /\ Open \subseteq Fds
    BY DEF Ready, Readable, Open
  <2>2. Watched = Open \cup {Serv}
    BY DEF SelectInv, Watched
  <2> QED
    BY <2>1, <2>2
<1>2. Epoll!Ready = Ready
  BY DEF Epoll!Ready, Ready, Epoll!Readable, Readable, Epoll!Unread, Unread, Epoll!Nobody,
         Nobody, Epoll!Accepting, Accepting, Epoll!Serv, Serv
<1>8. Epoll!Orders(Ready) = Orders(Ready)
  BY SameCardinality DEF Epoll!Orders, Orders
<1>3. IsFiniteSet(Fds \cup {Serv}) /\ Cardinality(Fds \cup {Serv}) <= Cardinality(Fds) + 1
      /\ Cardinality(Fds) \in Nat
  <2>1. IsFiniteSet(Fds) /\ Cardinality(Fds) \in Nat
    BY FS_CardinalityType, ConstantsAssumption
  <2>2. Cardinality(Fds \cup {Serv}) \in {Cardinality(Fds), Cardinality(Fds) + 1}
    BY <2>1, FS_AddElement
  <2> QED
    BY <2>1, <2>2, FS_AddElement
<1>4. Cardinality(Ready) <= Cardinality(Fds) + 1 /\ Cardinality(Ready) \in Nat
  BY <1>1, <1>3, FS_Subset, FS_CardinalityType
<1>5. Epoll!Least(Cardinality(Ready), Cardinality(Fds) + 1) = Cardinality(Ready)
  BY <1>3, <1>4 DEF Epoll!Least
<1>6. batch' \in Orders(Ready) /\ Ready # {} /\ batch = <<>>
  BY <1>1 DEF Select
<1>7. edge' = edge \ Ready /\ UNCHANGED <<buf, fdTab, conn, sent, got, echoed, seen, alive, aborted>>
  BY DEF Select, SelectInv, selectVars
<1> QED
  BY <1>2, <1>5, <1>6, <1>7, <1>8, SameCardinality DEF Epoll!EpollWait

LEMMA StepIsEpoll ==
  ASSUME SelectInv, SelectNext
  PROVE  Epoll!Next \/ UNCHANGED Epoll!vars
<1>1. (alive \/ aborted) /\ ~aborted
  BY DEF SelectNext, SelectInv, AbortEnds
<1>2. ASSUME Select PROVE Epoll!Next
  BY <1>1, <1>2, SelectIsEpollWait DEF Epoll!Next, Epoll!ServerStep
<1>3. ASSUME NEW c \in Clients, SelectAccept(c) PROVE Epoll!Accept(c)
  BY <1>3 DEF SelectAccept, Accept, Epoll!Accept, At, Epoll!At, FreeFds, Epoll!FreeFds,
              Serv, Epoll!Serv, Nobody, Epoll!Nobody
<1>4. ASSUME SelectAcceptFails PROVE Epoll!AcceptFails \/ UNCHANGED Epoll!vars
  BY <1>1, <1>4 DEF SelectAcceptFails, AcceptFails, Epoll!AcceptFails, At, Epoll!At, FreeFds,
              Epoll!FreeFds, Serv, Epoll!Serv, Nobody, Epoll!Nobody, Accepting,
              Epoll!Accepting, Epoll!vars, selectVars
<1>5. ASSUME NEW f \in Fds, SelectRead(f) PROVE Epoll!Read(f)
  BY <1>5 DEF SelectRead, ClearAndClose, ReadData, Taken, ReadEof, Eof, ReadReset, At, Chunk,
              Least, Unread, AfterIo, Nobody, Epoll!Read, Epoll!ReadData, Epoll!Taken,
              Epoll!ReadEof, Epoll!Eof, Epoll!ReadReset, Epoll!At, Epoll!Chunk, Epoll!Least,
              Epoll!Unread, Epoll!AfterIo, Epoll!Nobody, selectVars
<1>6. ASSUME Write, UNCHANGED selectVars PROVE Epoll!Write
  BY <1>1, <1>6 DEF Write, WriteData, Written, WriteToClosed, WriteSigpipe, Peer, Room, Least,
              AfterIo, Epoll!Write, Epoll!WriteData, Epoll!Written, Epoll!WriteToClosed,
              Epoll!WriteSigpipe, Epoll!Peer, Epoll!Room, Epoll!Least, Epoll!AfterIo, selectVars
<1>7. ASSUME NEW c \in Clients, ClientStep(c), UNCHANGED selectVars PROVE Epoll!ClientStep(c)
  BY <1>7 DEF ClientStep, ClientSend, ClientRead, ClientClose, News, Epoll!ClientStep,
              Epoll!ClientSend, Epoll!ClientRead, Epoll!ClientClose, Epoll!News, selectVars
<1> QED
  BY <1>1, <1>2, <1>3, <1>4, <1>5, <1>6, <1>7
     DEF SelectNext, SelectStep, Epoll!Next, Epoll!ServerStep

(***************************************************************************)
(* The results.                                                            *)
(***************************************************************************)
LEMMA SelectInvariance == SelectSpec => []SelectInv
<1>1. SelectInv /\ UNCHANGED <<vars, selectVars>> => SelectInv'
  BY DEF SelectInv, AbortEnds, vars, selectVars, Open
<1> QED
  BY <1>1, InitSelect, StepKeeps, PTL DEF SelectSpec

\* The program with its fd_set implements the level-triggered epoll server that
\* reports every ready descriptor in each batch.
THEOREM ImplementsEpoll == SelectSpec => SelectImplementsEpoll
<1>1. SelectInit => Epoll!Init
  BY DEF SelectInit, Init, Epoll!Init, Nobody, Epoll!Nobody
<1>2. SelectInv /\ [SelectNext]_<<vars, selectVars>> => [Epoll!Next]_(Epoll!vars)
  BY StepIsEpoll DEF vars, selectVars, Epoll!vars
<1> QED
  BY <1>1, <1>2, SelectInvariance, PTL DEF SelectSpec, SelectImplementsEpoll, Epoll!Spec

\* The invariant, in a run of either program.
LEMMA LoopInvariance == LoopSpec => [](program = "select" => SelectInv)
<1>1. LoopInit => (program = "select" => SelectInv)
  BY InitSelect DEF LoopInit
<1>2. (program = "select" => SelectInv) /\ [LoopNext]_loopVars
        => (program = "select" => SelectInv)'
  <2>1. SelectInv /\ UNCHANGED loopVars => SelectInv'
    BY DEF SelectInv, AbortEnds, loopVars, vars, selectVars, Open
  <2>2. program = "select" /\ LoopNext => SelectNext
    BY DEF LoopNext, LoopStep, LoopClient, SelectNext
  <2> QED
    BY <2>1, <2>2, StepKeeps DEF LoopNext, loopVars
<1> QED
  BY <1>1, <1>2, PTL DEF LoopSpec

\* Every connection is watched by the next select: in reads, and not above
\* fd_max.
THEOREM ConnectionsWatched == LoopSpec => []EveryConnectionWatched
<1>1. (program = "select" => SelectInv) => EveryConnectionWatched
  BY InvWatches DEF EveryConnectionWatched
<1> QED
  BY <1>1, LoopInvariance, PTL

\* Every step of the select server is one of a level-triggered epoll server.
THEOREM StepsAreEpoll == LoopSpec => SelectStepsAreEpoll
<1>1. (program = "select" => SelectInv) /\ [LoopNext]_loopVars
        => [program = "select" => Epoll!Next \/ UNCHANGED Epoll!vars]_loopVars
  <2>1. program = "select" /\ LoopNext => SelectNext
    BY DEF LoopNext, LoopStep, LoopClient, SelectNext
  <2> QED
    BY <2>1, StepIsEpoll
<1> QED
  BY <1>1, LoopInvariance, PTL DEF LoopSpec, SelectStepsAreEpoll

\* The same instance with the theorems about EpollServer.
EpollProof == INSTANCE EpollServerProof WITH
                EPOLL_SIZE <- Cardinality(Fds) + 1, alive <- (alive \/ aborted)

\* They are the same formulas.
LEMMA SameEpoll == Epoll!Spec <=> EpollProof!Spec
<1>1. Epoll!Init <=> EpollProof!Init
  BY DEF Epoll!Init, EpollProof!Init, Epoll!Nobody, EpollProof!Nobody
<1>2. [Epoll!Next]_(Epoll!vars) <=> [EpollProof!Next]_(EpollProof!vars)
  BY DEF Epoll!vars, Epoll!Init, Epoll!Next, Epoll!ServerStep, Epoll!ClientStep,
      Epoll!ClientSend, Epoll!ClientRead, Epoll!ClientClose, Epoll!News, Epoll!Unread,
      Epoll!Readable, Epoll!Accepting, Epoll!Ready, Epoll!Orders, Epoll!Least,
      Epoll!EpollWait, Epoll!At, Epoll!FreeFds, Epoll!Accept, Epoll!AcceptFails,
      Epoll!AfterIo, Epoll!Taken, Epoll!Chunk, Epoll!ReadData, Epoll!Eof, Epoll!ReadEof,
      Epoll!ReadReset, Epoll!ReadAgain, Epoll!Peer, Epoll!Room, Epoll!Written,
      Epoll!WriteData, Epoll!WriteToClosed, Epoll!WriteSigpipe, Epoll!Read, Epoll!Write,
      Epoll!Serv, Epoll!Nobody, Epoll!Cardinality, EpollProof!vars, EpollProof!Init,
      EpollProof!Next, EpollProof!ServerStep, EpollProof!ClientStep, EpollProof!ClientSend,
      EpollProof!ClientRead, EpollProof!ClientClose, EpollProof!News, EpollProof!Unread,
      EpollProof!Readable, EpollProof!Accepting, EpollProof!Ready, EpollProof!Orders,
      EpollProof!Least, EpollProof!EpollWait, EpollProof!At, EpollProof!FreeFds,
      EpollProof!Accept, EpollProof!AcceptFails, EpollProof!AfterIo, EpollProof!Taken,
      EpollProof!Chunk, EpollProof!ReadData, EpollProof!Eof, EpollProof!ReadEof,
      EpollProof!ReadReset, EpollProof!ReadAgain, EpollProof!Peer, EpollProof!Room,
      EpollProof!Written, EpollProof!WriteData, EpollProof!WriteToClosed,
      EpollProof!WriteSigpipe, EpollProof!Read, EpollProof!Write, EpollProof!Serv,
      EpollProof!Nobody, EpollProof!Cardinality
<1> QED
  BY <1>1, <1>2, PTL DEF Epoll!Spec, EpollProof!Spec

LEMMA SameEcho == EpollProof!EchoesInOrder <=> EchoesInOrder
<1>1. EpollProof!Echo!Init <=> Echo!Init
  BY DEF EpollProof!Echo!Init, Echo!Init
<1>2. [EpollProof!Echo!Next]_(EpollProof!Echo!vars) <=> [Echo!Next]_(Echo!vars)
  BY DEF EpollProof!Echo!Next, EpollProof!Echo!Send, EpollProof!Echo!Echo,
         EpollProof!Echo!FirstBytes, EpollProof!Echo!vars,
         Echo!Next, Echo!Send, Echo!Echo, Echo!FirstBytes, Echo!vars
<1> QED
  BY <1>1, <1>2, PTL DEF EpollProof!EchoesInOrder, EchoesInOrder, EpollProof!Echo!Spec, Echo!Spec

\* What is proved of EpollServer holds of the select server: a client gets its
\* first bytes back, in order, each once.
THEOREM SelectImplementsEchoService == SelectSpec => EchoesInOrder
<1>1. EpollProof!ConstantsAssumption
  <2>1. Cardinality(Fds) + 1 \in Nat \ {0}
    BY ConstantsAssumption, FS_CardinalityType
  <2>2. EpollProof!IsFiniteSet(Fds)
    BY ConstantsAssumption DEF EpollProof!IsFiniteSet, IsFiniteSet
  <2> QED
    BY <2>1, <2>2, ConstantsAssumption DEF EpollProof!ConstantsAssumption
<1>2. EpollProof!Spec => EpollProof!EchoesInOrder
  BY <1>1, SelectAssumption, EpollProof!ImplementsEchoService
<1> QED
  BY <1>2, ImplementsEpoll, SameEpoll, SameEcho, PTL DEF SelectImplementsEpoll
================================================================================
