----------------------------- MODULE EpollServer -----------------------------
(***************************************************************************)
(* The four echo servers of chapter-17 around epoll_wait, which differ in  *)
(* three parameters:                                                       *)
(*                          EdgeTriggered   Drain    BUF_SIZE              *)
(*   echo_epollserv.c          FALSE        FALSE      100                 *)
(*   echo_EPLTserv.c           FALSE        FALSE        4                 *)
(*   echo_EPETserv.c           TRUE         FALSE        4                 *)
(*   echo_EPETserv_isok.c      TRUE         TRUE         4                 *)
(* Drain stands for the non-blocking sockets and the loop that reads until *)
(* EAGAIN.  The bytes of a client are numbered in the order it sends them. *)
(***************************************************************************)
EXTENDS Integers, Sequences, FiniteSets

CONSTANTS
  Clients, Fds,
  EdgeTriggered, Drain, BUF_SIZE,
  EPOLL_SIZE,   \* most events that one epoll_wait returns
  MaxBytes,     \* bound: bytes per client
  Talkers,      \* the clients that send more than one byte
  SndBuf        \* echoed bytes the kernel holds before write blocks or fails

ASSUME ConstantsAssumption ==
  /\ EdgeTriggered \in BOOLEAN /\ Drain \in BOOLEAN
  /\ IsFiniteSet(Fds) /\ Fds \subseteq Nat /\ MaxBytes \in Nat
  /\ BUF_SIZE \in Nat \ {0} /\ EPOLL_SIZE \in Nat \ {0} /\ SndBuf \in Nat \ {0}

Serv == -1        \* the listening descriptor
Nobody == "nobody"

VARIABLES
  batch,        \* events of ep_events not handled yet; the head is handled now
  buf,          \* bytes read for the head of batch and not written yet
  edge,         \* kernel, edge triggered: descriptors with news since reported
  fdTab,        \* kernel: client a descriptor is connected to
  conn,         \* per client: its connection
  sent, got,    \* per client: bytes it sent, bytes the server has read
  echoed,       \* per client: bytes the server's writes handed to the kernel
  seen,         \* per client: how many of those it has read
  alive         \* FALSE once SIGPIPE has killed the process

vars == <<batch, buf, edge, fdTab, conn, sent, got, echoed, seen, alive>>

\* "closed" is close() by the client; "aborted" the same with echoed bytes
\* unread, which TCP signals by RST; "reset" an RST the server was told of.
ConnState == {"pending", "up", "closed", "aborted", "reset"}

Init ==
  /\ batch = <<>> /\ buf = <<>> /\ edge = {}
  /\ fdTab = [f \in Fds |-> Nobody]
  /\ conn = [c \in Clients |-> "pending"]
  /\ sent = [c \in Clients |-> 0] /\ got = [c \in Clients |-> 0]
  /\ echoed = [c \in Clients |-> <<>>] /\ seen = [c \in Clients |-> 0]
  /\ alive = TRUE

Unread(c) == sent[c] - got[c]
\* EPOLLIN: something to read, or the end of the stream.
Readable(f) == fdTab[f] # Nobody /\ (Unread(fdTab[f]) > 0 \/ conn[fdTab[f]] # "up")
Accepting == \E c \in Clients : conn[c] = "pending"
\* Data and a close are news for an edge-triggered descriptor.
News(c) == IF EdgeTriggered THEN edge \cup {f \in Fds : fdTab[f] = c} ELSE edge

(***************************************************************************)
(* The clients.                                                            *)
(***************************************************************************)
ClientSend(c) ==
  /\ conn[c] = "up" /\ sent[c] < MaxBytes
  /\ \E n \in (sent[c] + 1)..MaxBytes :
       (c \in Talkers \/ n = 1) /\ sent' = [sent EXCEPT ![c] = n]
  /\ edge' = News(c)
  /\ UNCHANGED <<batch, buf, fdTab, conn, got, echoed, seen, alive>>

ClientRead(c) ==
  /\ conn[c] = "up" /\ seen[c] < Len(echoed[c])
  /\ seen' = [seen EXCEPT ![c] = Len(echoed[c])]
  /\ UNCHANGED <<batch, buf, edge, fdTab, conn, sent, got, echoed, alive>>

ClientClose(c) ==
  /\ conn[c] = "up"
  /\ conn' = [conn EXCEPT ![c] = IF seen[c] = Len(echoed[c]) THEN "closed"
                                 ELSE "aborted"]
  /\ edge' = News(c)
  /\ UNCHANGED <<batch, buf, fdTab, sent, got, echoed, seen, alive>>

(***************************************************************************)
(* epoll_wait: the ready descriptors, up to EPOLL_SIZE of them, each once, *)
(* in any order.  The listening one is level triggered in all programs.    *)
(***************************************************************************)
Ready ==
  {f \in Fds : Readable(f) /\ (EdgeTriggered => f \in edge)}
    \cup (IF Accepting THEN {Serv} ELSE {})
Orders(S) ==
  {q \in [1..Cardinality(S) -> S] : \A j, k \in DOMAIN q : q[j] = q[k] => j = k}
Least(m, n) == IF m < n THEN m ELSE n

EpollWait ==
  /\ batch = <<>> /\ Ready # {}
  /\ \E S \in SUBSET Ready :
       /\ Cardinality(S) = Least(Cardinality(Ready), EPOLL_SIZE)
       /\ batch' \in Orders(S)
       /\ edge' = edge \ S
  /\ UNCHANGED <<buf, fdTab, conn, sent, got, echoed, seen, alive>>

(***************************************************************************)
(* One event: a connection.                                                *)
(***************************************************************************)
At(f) == batch # <<>> /\ Head(batch) = f /\ buf = <<>>
FreeFds == {f \in Fds : fdTab[f] = Nobody}

\* accept and EPOLL_CTL_ADD.
Accept(c) ==
  /\ At(Serv) /\ conn[c] = "pending"
  /\ \E f \in FreeFds :
       /\ \A g \in FreeFds : f <= g
       /\ fdTab' = [fdTab EXCEPT ![f] = c]
  /\ conn' = [conn EXCEPT ![c] = "up"]
  /\ batch' = Tail(batch)
  /\ UNCHANGED <<buf, edge, sent, got, echoed, seen, alive>>

\* accept returns -1 (no descriptor left) and so does EPOLL_CTL_ADD of -1.
AcceptFails ==
  /\ At(Serv) /\ FreeFds = {} /\ Accepting
  /\ batch' = Tail(batch)
  /\ UNCHANGED <<buf, edge, fdTab, conn, sent, got, echoed, seen, alive>>

(***************************************************************************)
(* One event: a client.  Drain returns to the same event until EAGAIN.     *)
(***************************************************************************)
\* Fault: a blocking descriptor is read again.
AfterIoAgain == batch
\* Fault: a non-blocking descriptor is read once.
AfterIoOnce == Tail(batch)

AfterIo == IF Drain THEN batch ELSE Tail(batch)

Taken(f, n, consumed) ==
  LET c == fdTab[f] IN
    /\ n > 0
    /\ buf' = [j \in 1..n |-> got[c] + j]
    /\ got' = [got EXCEPT ![c] = @ + consumed]
    /\ UNCHANGED <<batch, edge, fdTab, conn, sent, echoed, seen, alive>>

Chunk(f) == Least(Unread(fdTab[f]), BUF_SIZE)

\* Fault: one byte of the chunk is read again.
ReadOverlap(f) == At(f) /\ Taken(f, Chunk(f), IF Chunk(f) = 1 THEN 1 ELSE Chunk(f) - 1)

ReadData(f) == At(f) /\ Taken(f, Chunk(f), Chunk(f))

Eof(f, table, rest) ==
  /\ At(f) /\ Unread(fdTab[f]) = 0 /\ conn[fdTab[f]] \in {"closed", "reset"}
  /\ fdTab' = table /\ batch' = rest
  /\ edge' = edge \ {f}
  /\ UNCHANGED <<buf, conn, sent, got, echoed, seen, alive>>

\* Fault: the event is handled again after the close.
ReadEofStays(f) == Eof(f, [fdTab EXCEPT ![f] = Nobody], batch)
\* Fault: the descriptor is not closed.
ReadEofNoClose(f) == Eof(f, fdTab, Tail(batch))

\* read() = 0: EPOLL_CTL_DEL and close.
ReadEof(f) == Eof(f, [fdTab EXCEPT ![f] = Nobody], Tail(batch))

\* read() = -1, ECONNRESET: Drain tries again, the others write -1 bytes.
ReadReset(f) ==
  /\ At(f) /\ Unread(fdTab[f]) = 0 /\ conn[fdTab[f]] = "aborted"
  /\ conn' = [conn EXCEPT ![fdTab[f]] = "reset"]
  /\ batch' = AfterIo
  /\ UNCHANGED <<buf, edge, fdTab, sent, got, echoed, seen, alive>>

\* read() = -1, EAGAIN.  A blocking read would wait here, and main with it.
ReadAgain(f) ==
  /\ Drain /\ At(f) /\ Unread(fdTab[f]) = 0 /\ conn[fdTab[f]] = "up"
  /\ batch' = Tail(batch)
  /\ UNCHANGED <<buf, edge, fdTab, conn, sent, got, echoed, seen, alive>>

\* The client whose bytes are in buf, and what the kernel still takes from it.
Peer == fdTab[Head(batch)]
Room(c) == SndBuf - (Len(echoed[c]) - seen[c])

Written(goesOn) ==
  /\ buf # <<>> /\ conn[Peer] = "up"
  /\ LET n == Least(Len(buf), Room(Peer)) IN
       /\ n > 0 \/ Drain
       /\ echoed' = [echoed EXCEPT ![Peer] = @ \o SubSeq(buf, 1, n)]
       /\ buf' = IF goesOn THEN SubSeq(buf, n + 1, Len(buf)) ELSE <<>>
  /\ batch' = IF buf' = <<>> THEN AfterIo ELSE batch
  /\ UNCHANGED <<edge, fdTab, conn, sent, got, seen, alive>>

\* Fault: what a write leaves over is dropped on a blocking socket too.
WriteOnce == Written(FALSE)

\* write(): a blocking one goes on until all is written, a non-blocking one
\* writes what fits, and what it leaves in buf is lost.
WriteData == Written(~Drain)

\* The client has closed: the kernel takes the bytes, and the RST that answers
\* them may or may not be there before the next write.
WriteToClosed ==
  /\ buf # <<>>
  /\ \/ conn[Peer] = "closed"
        /\ \E s \in {"closed", "reset"} : conn' = [conn EXCEPT ![Peer] = s]
     \/ conn[Peer] = "aborted" /\ conn' = [conn EXCEPT ![Peer] = "reset"]
  /\ buf' = <<>> /\ batch' = AfterIo
  /\ UNCHANGED <<edge, fdTab, sent, got, echoed, seen, alive>>

WriteSigpipe ==
  /\ buf # <<>> /\ conn[Peer] = "reset"
  /\ alive' = FALSE
  /\ UNCHANGED <<batch, buf, edge, fdTab, conn, sent, got, echoed, seen>>

Read(f) == ReadData(f) \/ ReadEof(f) \/ ReadReset(f) \/ ReadAgain(f)
Write == WriteData \/ WriteToClosed \/ WriteSigpipe
ServerStep ==
  \/ EpollWait \/ (\E c \in Clients : Accept(c)) \/ AcceptFails
  \/ (\E f \in Fds : Read(f)) \/ Write
ClientStep(c) == ClientSend(c) \/ ClientRead(c) \/ ClientClose(c)

Next == alive /\ (ServerStep \/ \E c \in Clients : ClientStep(c))
Spec == Init /\ [][Next]_vars

(***************************************************************************)
(* Properties.                                                             *)
(***************************************************************************)
\* The type of every variable.
TypeOK ==
  /\ batch \in Seq(Fds \cup {Serv}) /\ buf \in Seq(1..MaxBytes)
  /\ edge \subseteq Fds /\ fdTab \in [Fds -> Clients \cup {Nobody}]
  /\ conn \in [Clients -> ConnState]
  /\ sent \in [Clients -> 0..MaxBytes] /\ got \in [Clients -> 0..MaxBytes]
  /\ echoed \in [Clients -> Seq(1..MaxBytes)] /\ seen \in [Clients -> Nat]
  /\ alive \in BOOLEAN

\* An event is still true when it is handled, although earlier events of the
\* batch have accepted, closed and reused descriptors since epoll_wait returned:
\* its descriptor is open, and a blocking read of it does not block.
EventsAreCurrent ==
  \A k \in DOMAIN batch :
    IF batch[k] = Serv THEN Accepting
    ELSE fdTab[batch[k]] # Nobody /\ (k > 1 => Readable(batch[k]))
BlockedInRead ==
  \E f \in Fds : At(f) /\ ~Drain /\ ~Readable(f)
NeverBlockedInRead == ~BlockedInRead

\* No byte is echoed twice or before an earlier one, lost ones apart.
Increasing ==
  \A c \in Clients : \A j, k \in DOMAIN echoed[c] : j < k => echoed[c][j] < echoed[c][k]

\* With blocking sockets every client gets exactly its first bytes back.
Echo == INSTANCE EchoService
EchoesInOrder == Echo!Spec

(***************************************************************************)
(* Fairness: main runs whenever it can, and the clients read their echo.   *)
(***************************************************************************)
FairSpec ==
  /\ Spec /\ WF_vars(alive /\ ServerStep)
  /\ \A c \in Clients : WF_vars(alive /\ ClientRead(c))

\* What a client has sent is read and answered, unless it leaves first.
Answered ==
  []<>(~alive \/ \A c \in Clients : got[c] = sent[c] \/ conn[c] # "up")
Echoed ==
  []<>(~alive \/ \A c \in Clients : Len(echoed[c]) = sent[c] \/ conn[c] # "up")

\* The descriptor of a client that has closed is closed and free again.
DescriptorFreed ==
  []<>(~alive \/ \A f \in Fds : fdTab[f] # Nobody => conn[fdTab[f]] = "up")
=============================================================================
