------------------------------ MODULE ChatServer ------------------------------
(***************************************************************************)
(* chapter-18/chat_server.c: the main thread accepts connections and       *)
(* appends them to clnt_socks under mutx; one thread per connection        *)
(* (handle_clnt) reads messages and broadcasts each to the whole table     *)
(* (send_msg), and takes its entry out of the table when its client leaves.*)
(*                                                                         *)
(* Threads are numbered in creation order, 0 being main.  A message is     *)
(* <<c, n>>: the n-th that client c sent.  The descriptor table is the     *)
(* kernel's: accept takes the lowest free descriptor, close frees it at    *)
(* once, so a descriptor left behind in clnt_socks may come to name        *)
(* another client.                                                         *)
(***************************************************************************)
EXTENDS Integers, Sequences, FiniteSets

CONSTANTS
  Clients,      \* the client processes (chat_clnt.c)
  Fds,          \* the descriptors free once the server is listening
  MAX_CLNT,     \* size of clnt_socks
  MaxThreads,   \* bound: number of accepts
  Talkers,      \* those of them that send
  Chatty,       \* those of them that send more than one message
  Leavers,      \* those clients that may leave
  MaxMsgs,      \* bound: messages per talker
  Window        \* what a connection holds before write() to it blocks

Nobody == "nobody"  \* has a descriptor that is free

ASSUME ConstantsAssumption ==
  /\ Talkers \subseteq Clients /\ Leavers \subseteq Clients /\ IsFiniteSet(Fds) /\ Fds \subseteq Nat
  /\ MAX_CLNT \in Nat /\ MaxThreads \in Nat /\ MaxThreads <= MAX_CLNT
  /\ MaxMsgs \in Nat /\ Window \in Nat \ {0} /\ Nobody \notin Clients

NoFd == -1          \* what accept returns when it fails
NoOne == -1
Main == 0
Threads == 1..MaxThreads
Messages == Clients \X (1..MaxMsgs)
Failed == <<>>      \* read returned -1, and send_msg is given len = -1

VARIABLES
  mpc,          \* main: where it is in its loop
  clnt_sock,    \* main's local, whose address every thread is given
  clnt_socks,   \* the table; cell MAX_CLNT is the memory just past it
  clnt_cnt,
  mutx,         \* owner of the mutex
  created,      \* number of pthread_create calls so far
  pc,           \* per thread: where it is
  sock,         \* per thread: handle_clnt's local clnt_sock
  msg,          \* per thread: what it read last
  i,            \* per thread: the loop index of send_msg
  pos,          \* ghost, per thread: place in log of what it broadcasts
  given,        \* ghost, per thread: the descriptor accept had returned for it
  fdTab,        \* kernel: which client a descriptor is connected to
  conn,         \* per client: state of its connection
  sent, taken,  \* per client: messages it wrote, and those the server has read
  seen,         \* per client: deliveries it has consumed
  log, rcvd,    \* ghost: broadcasts begun; per client, log positions written
  alive         \* FALSE once SIGPIPE has killed the process

mainVars == <<mpc, clnt_sock>>
tableVars == <<clnt_socks, clnt_cnt>>
threadVars == <<created, pc, sock, msg, i, pos, given>>
netVars == <<fdTab, conn, sent, taken, seen>>
ghostVars == <<log, rcvd>>
vars == <<mainVars, tableVars, mutx, threadVars, netVars, ghostVars, alive>>

MainPc == {"accept", "lock", "append", "unlock", "create"}
\* "remove", "count" and "release" are the statements of the second critical
\* section; "unborn" is a thread not created yet.
ThreadPc == {"unborn", "start", "read", "lockSend", "write", "lockRemove",
             "remove", "count", "release", "close", "done"}
ConnState == {"pending", "up", "gone", "aborted", "reset"}

Init ==
  /\ mpc = "accept" /\ clnt_sock = NoFd
  /\ clnt_socks = [k \in 0..MAX_CLNT |-> 0] /\ clnt_cnt = 0 /\ mutx = NoOne
  /\ created = 0
  /\ pc = [t \in Threads |-> "unborn"] /\ sock = [t \in Threads |-> NoFd]
  /\ msg = [t \in Threads |-> Failed] /\ i = [t \in Threads |-> 0]
  /\ pos = [t \in Threads |-> 0] /\ given = [t \in Threads |-> NoFd]
  /\ fdTab = [f \in Fds |-> Nobody]
  /\ conn = [c \in Clients |-> "pending"]
  /\ sent = [c \in Clients |-> 0] /\ taken = [c \in Clients |-> 0]
  /\ seen = [c \in Clients |-> 0]
  /\ log = <<>> /\ rcvd = [c \in Clients |-> <<>>]
  /\ alive = TRUE

(***************************************************************************)
(* The clients (chat_clnt.c), which run on their own.  Each is in the      *)
(* backlog from the start, until some accept takes it; what it writes      *)
(* before that the server cannot tell from what it writes after.           *)
(***************************************************************************)
Send(c) ==
  /\ c \in Talkers /\ conn[c] = "up" /\ sent[c] < MaxMsgs
  /\ c \in Chatty \/ sent[c] = 0
  /\ sent' = [sent EXCEPT ![c] = @ + 1]
  /\ UNCHANGED <<mainVars, tableVars, mutx, threadVars, fdTab, conn, taken,
                 seen, ghostVars, alive>>

Recv(c) ==
  /\ conn[c] = "up" /\ seen[c] < Len(rcvd[c])
  /\ seen' = [seen EXCEPT ![c] = @ + 1]
  /\ UNCHANGED <<mainVars, tableVars, mutx, threadVars, fdTab, conn, sent,
                 taken, ghostVars, alive>>

\* close() and exit(0).  With unread data TCP sends RST instead of FIN.
Quit(c) ==
  /\ c \in Leavers /\ conn[c] = "up"
  /\ conn' = [conn EXCEPT ![c] = IF seen[c] = Len(rcvd[c]) THEN "gone"
                                 ELSE "aborted"]
  /\ UNCHANGED <<mainVars, tableVars, mutx, threadVars, fdTab, sent, taken,
                 seen, ghostVars, alive>>

(***************************************************************************)
(* The main thread.  accept fails, unnoticed, when no descriptor is free.  *)
(***************************************************************************)
FreeFds == {f \in Fds : fdTab[f] = Nobody}
LowestFree(f) == f \in FreeFds /\ \A g \in FreeFds : f <= g

AcceptOk(c) ==
  /\ mpc = "accept" /\ created < MaxThreads /\ conn[c] = "pending"
  /\ \E f \in Fds :
       /\ LowestFree(f)
       /\ clnt_sock' = f /\ fdTab' = [fdTab EXCEPT ![f] = c]
  /\ conn' = [conn EXCEPT ![c] = "up"]
  /\ mpc' = "lock"
  /\ UNCHANGED <<tableVars, mutx, threadVars, sent, taken, seen, ghostVars,
                 alive>>

AcceptFail ==
  /\ mpc = "accept" /\ created < MaxThreads
  /\ FreeFds = {} /\ \E c \in Clients : conn[c] = "pending"
  /\ clnt_sock' = NoFd /\ mpc' = "lock"
  /\ UNCHANGED <<tableVars, mutx, threadVars, netVars, ghostVars, alive>>

MainLocked ==
  /\ mpc = "lock" /\ mpc' = "append" /\ mutx' = Main
  /\ UNCHANGED <<clnt_sock, tableVars, threadVars, netVars, ghostVars, alive>>

\* Fault: main does not wait for the mutex.
MainNoLock == MainLocked

MainLock == mutx = NoOne /\ MainLocked

MainAppend ==
  /\ mpc = "append"
  /\ clnt_socks' = [clnt_socks EXCEPT ![clnt_cnt] = clnt_sock]
  /\ clnt_cnt' = clnt_cnt + 1 /\ mpc' = "unlock"
  /\ UNCHANGED <<clnt_sock, mutx, threadVars, netVars, ghostVars, alive>>

MainUnlock ==
  /\ mpc = "unlock" /\ mutx' = NoOne /\ mpc' = "create"
  /\ UNCHANGED <<clnt_sock, tableVars, threadVars, netVars, ghostVars, alive>>

\* pthread_create: the thread gets &clnt_sock, not its value.
MainCreate ==
  /\ mpc = "create" /\ mpc' = "accept"
  /\ created' = created + 1
  /\ pc' = [pc EXCEPT ![created + 1] = "start"]
  /\ given' = [given EXCEPT ![created + 1] = clnt_sock]
  /\ UNCHANGED <<clnt_sock, tableVars, mutx, sock, msg, i, pos, netVars,
                 ghostVars, alive>>

(***************************************************************************)
(* handle_clnt.                                                            *)
(***************************************************************************)
Goto(t, from, to) == pc[t] = from /\ pc' = [pc EXCEPT ![t] = to]

\* int clnt_sock = *((int *)arg): whatever main's variable holds by now.
ReadArg(t) ==
  /\ Goto(t, "start", "read")
  /\ sock' = [sock EXCEPT ![t] = clnt_sock]
  /\ UNCHANGED <<mainVars, tableVars, mutx, created, msg, i, pos, given, netVars,
                 ghostVars, alive>>

Open(f) == f \in Fds /\ fdTab[f] # Nobody

MsgTaken(t, c) ==
  /\ Goto(t, "read", "lockSend")
  /\ taken' = [taken EXCEPT ![c] = @ + 1]
  /\ msg' = [msg EXCEPT ![t] = <<c, taken[c] + 1>>]
  /\ UNCHANGED <<mainVars, tableVars, mutx, created, sock, i, pos, given, fdTab,
                 conn, sent, seen, ghostVars, alive>>

\* read() returns a message.
ReadMsg(t) ==
  Open(sock[t]) /\ LET c == fdTab[sock[t]] IN taken[c] < sent[c] /\ MsgTaken(t, c)

\* read() returns 0: nothing is left and the peer has closed.
ReadEof(t) ==
  /\ Goto(t, "read", "lockRemove") /\ Open(sock[t])
  /\ LET c == fdTab[sock[t]] IN
       taken[c] = sent[c] /\ conn[c] \in {"gone", "reset"}
  /\ UNCHANGED <<mainVars, tableVars, mutx, created, sock, msg, i, pos, given,
                 netVars, ghostVars, alive>>

\* read() returns -1, which the loop takes for a length: a descriptor that is
\* not open, or a connection reset (reported once).
ReadError(t) ==
  /\ Goto(t, "read", "lockSend")
  /\ msg' = [msg EXCEPT ![t] = Failed]
  /\ \/ ~Open(sock[t]) /\ UNCHANGED conn
     \/ /\ Open(sock[t])
        /\ LET c == fdTab[sock[t]] IN
             /\ taken[c] = sent[c] /\ conn[c] = "aborted"
             /\ conn' = [conn EXCEPT ![c] = "reset"]
  /\ UNCHANGED <<mainVars, tableVars, mutx, created, sock, i, pos, given, fdTab,
                 sent, taken, seen, ghostVars, alive>>

LockedSend(t, first) ==
  /\ Goto(t, "lockSend", "write")
  /\ mutx' = t
  /\ i' = [i EXCEPT ![t] = first]
  /\ log' = IF msg[t] = Failed THEN log ELSE Append(log, msg[t])
  /\ pos' = [pos EXCEPT ![t] = Len(log')]
  /\ UNCHANGED <<mainVars, tableVars, created, sock, msg, given, netVars, rcvd,
                 alive>>

\* Fault: send_msg does not wait for the mutex.
LockSendNoWait(t) == LockedSend(t, 0)
\* Fault: the loop of send_msg starts at 1.
LockSendSkipsFirst(t) == mutx = NoOne /\ LockedSend(t, 1)

\* send_msg: the broadcast gets its place in the log with the lock.
LockSend(t) == mutx = NoOne /\ LockedSend(t, 0)

\* One write() of the loop, to the entry i[t] of the table.
AtEntry(t) == pc[t] = "write" /\ i[t] < clnt_cnt /\ i' = [i EXCEPT ![t] = @ + 1]
Target(t) == clnt_socks[i[t]]

\* The write fails and nobody looks: not a descriptor, or a length of -1.
WriteFails(t) ==
  /\ AtEntry(t) /\ (~Open(Target(t)) \/ msg[t] = Failed)
  /\ UNCHANGED <<mainVars, tableVars, mutx, created, pc, sock, msg, pos, given,
                 netVars, ghostVars, alive>>

\* It blocks, with the mutex held, while the client leaves its window full.
WriteDelivers(t) ==
  /\ AtEntry(t) /\ Open(Target(t)) /\ msg[t] # Failed
  /\ LET c == fdTab[Target(t)] IN
       /\ conn[c] = "up" /\ Len(rcvd[c]) - seen[c] < Window
       /\ rcvd' = [rcvd EXCEPT ![c] = Append(@, pos[t])]
  /\ UNCHANGED <<mainVars, tableVars, mutx, created, pc, sock, msg, pos, given,
                 netVars, log, alive>>

\* The client has closed: the first writes are accepted, and answered by an
\* RST that may or may not be back before the next; on a connection its client
\* aborted the write reports ECONNRESET.
WriteToClosed(t) ==
  /\ AtEntry(t) /\ Open(Target(t)) /\ msg[t] # Failed
  /\ LET c == fdTab[Target(t)] IN
       \/ conn[c] = "gone" /\ \E s \in {"gone", "reset"} :
                                 conn' = [conn EXCEPT ![c] = s]
       \/ conn[c] = "aborted" /\ conn' = [conn EXCEPT ![c] = "reset"]
  /\ UNCHANGED <<mainVars, tableVars, mutx, created, pc, sock, msg, pos, given,
                 fdTab, sent, taken, seen, ghostVars, alive>>

\* A write after the reset raises SIGPIPE, whose default action ends the process.
WriteSigpipe(t) ==
  /\ AtEntry(t) /\ Open(Target(t)) /\ msg[t] # Failed
  /\ conn[fdTab[Target(t)]] = "reset"
  /\ alive' = FALSE
  /\ UNCHANGED <<mainVars, tableVars, mutx, created, pc, sock, msg, pos, given,
                 netVars, ghostVars>>

SendEnds(t, next, owner) ==
  /\ Goto(t, "write", next) /\ i[t] >= clnt_cnt
  /\ mutx' = owner
  /\ UNCHANGED <<mainVars, tableVars, created, sock, msg, i, pos, given, netVars,
                 ghostVars, alive>>

\* Fault: the message is sent again without reading a new one.
EndSendRepeats(t) == SendEnds(t, "lockSend", NoOne)
\* Fault: send_msg returns without unlocking.
EndSendKeepsLock(t) == SendEnds(t, "read", mutx)

EndSend(t) == SendEnds(t, "read", NoOne)

\* The second critical section of handle_clnt, entered when its client left.
LockRemove(t) ==
  /\ Goto(t, "lockRemove", "remove")
  /\ mutx = NoOne /\ mutx' = t
  /\ UNCHANGED <<mainVars, tableVars, created, sock, msg, i, pos, given, netVars,
                 ghostVars, alive>>

\* The loop at 64-69: k is the first entry equal to s.  i++ has already moved
\* past k when the first assignment runs, so the shift starts at k + 1.
FirstAt(k, s, tab, n) == tab[k] = s /\ k < n /\ \A j \in 0..(k - 1) : tab[j] # s
Removed(s, tab, n) ==
  [j \in DOMAIN tab |->
     IF \E k \in DOMAIN tab : FirstAt(k, s, tab, n) /\ k < j /\ j <= n - 1
     THEN tab[j + 1] ELSE tab[j]]

Remove(t) ==
  /\ Goto(t, "remove", "count")
  /\ clnt_socks' = Removed(sock[t], clnt_socks, clnt_cnt)
  /\ UNCHANGED <<mainVars, clnt_cnt, mutx, created, sock, msg, i, pos, given,
                 netVars, ghostVars, alive>>

CountedDown(t, n) ==
  /\ Goto(t, "count", "release")
  /\ clnt_cnt' = n
  /\ UNCHANGED <<mainVars, clnt_socks, mutx, created, sock, msg, i, pos, given,
                 netVars, ghostVars, alive>>

\* Fault: a client that leaves is not counted out.
CountDownForgotten(t) == CountedDown(t, clnt_cnt)

CountDown(t) == CountedDown(t, clnt_cnt - 1)

Released(t, owner) ==
  /\ Goto(t, "release", "close") /\ mutx' = owner
  /\ UNCHANGED <<mainVars, tableVars, created, sock, msg, i, pos, given, netVars,
                 ghostVars, alive>>

\* Fault: the second critical section is left locked.
ReleaseKeepsLock(t) == Released(t, mutx)

Release(t) == Released(t, NoOne)

\* close(clnt_sock), outside the critical section; closing a descriptor that is
\* not open fails harmlessly.
Close(t) ==
  /\ Goto(t, "close", "done")
  /\ fdTab' = IF Open(sock[t]) THEN [fdTab EXCEPT ![sock[t]] = Nobody]
              ELSE fdTab
  /\ UNCHANGED <<mainVars, tableVars, mutx, created, sock, msg, i, pos, given, conn,
                 sent, taken, seen, ghostVars, alive>>

ClientStep(c) == Send(c) \/ Recv(c) \/ Quit(c)
MainStep == \/ \E c \in Clients : AcceptOk(c)
            \/ AcceptFail \/ MainLock \/ MainAppend \/ MainUnlock \/ MainCreate
Write(t) == WriteFails(t) \/ WriteDelivers(t) \/ WriteToClosed(t) \/ WriteSigpipe(t)
ThreadStep(t) ==
  \/ ReadArg(t) \/ ReadMsg(t) \/ ReadEof(t) \/ ReadError(t)
  \/ LockSend(t) \/ Write(t) \/ EndSend(t)
  \/ LockRemove(t) \/ Remove(t) \/ CountDown(t) \/ Release(t) \/ Close(t)

\* A dead process takes no step; its clients are of no interest any more.
Next ==
  /\ alive
  /\ \/ \E c \in Clients : ClientStep(c)
     \/ MainStep
     \/ \E t \in Threads : ThreadStep(t)

Spec == Init /\ [][Next]_vars

(***************************************************************************)
(* Properties.                                                             *)
(***************************************************************************)
\* The type of every variable.
TypeOK ==
  /\ mpc \in MainPc /\ clnt_sock \in Fds \cup {NoFd}
  /\ clnt_socks \in [0..MAX_CLNT -> Fds \cup {NoFd, 0}]
  /\ clnt_cnt \in Int /\ mutx \in {NoOne, Main} \cup Threads
  /\ created \in 0..MaxThreads
  /\ pc \in [Threads -> ThreadPc] /\ sock \in [Threads -> Fds \cup {NoFd}]
  /\ msg \in [Threads -> Messages \cup {Failed}]
  /\ i \in [Threads -> Nat] /\ pos \in [Threads -> Nat]
  /\ given \in [Threads -> Fds \cup {NoFd}]
  /\ fdTab \in [Fds -> Clients \cup {Nobody}]
  /\ conn \in [Clients -> ConnState]
  /\ sent \in [Clients -> 0..MaxMsgs] /\ taken \in [Clients -> 0..MaxMsgs]
  /\ seen \in [Clients -> Nat]
  /\ log \in Seq(Messages) /\ rcvd \in [Clients -> Seq(Nat)]
  /\ alive \in BOOLEAN

\* Nobody is in a critical section without the mutex.
InCritical(t) == pc[t] \in {"write", "remove", "count", "release"}
MutexInv ==
  /\ mpc \in {"append", "unlock"} => mutx = Main
  /\ \A t \in Threads : InCritical(t) => mutx = t

\* clnt_cnt is the number of connections being served: those whose thread has
\* not counted itself out, and the one main has appended but not given a thread
\* yet.  So it is never negative, every slot below it was written, and it stays
\* within clnt_socks exactly as long as no more clients than that are connected.
Counted == {t \in Threads : pc[t] \notin {"unborn", "release", "close", "done"}}
CountMatchesThreads ==
  clnt_cnt = Cardinality(Counted) + (IF mpc \in {"unlock", "create"} THEN 1 ELSE 0)

Started(t) == pc[t] \notin {"unborn", "start"}
\* Every thread read its argument before main overwrote it.
OwnArg == \A t \in Threads : Started(t) => sock[t] = given[t]

\* While every thread serves the connection it was created for, the messages of
\* one client are broadcast in the order it sent them, none twice.
SenderOrder ==
  OwnArg => \A j, k \in 1..Len(log) :
              j < k /\ log[j][1] = log[k][1] => log[j][2] < log[k][2]

\* Until the first client leaves, a finished broadcast has reached every
\* registered client that is still there, and once: the table has one entry for
\* each, whatever accept, pthread_create and the threads interleave.
NoneLeft == \A t \in Threads : pc[t] \notin {"count", "release", "close", "done"}
Registered ==
  {given[t] : t \in {u \in Threads : pc[u] # "unborn"}}
    \cup (IF mpc = "create" THEN {clnt_sock} ELSE {})
Finished(t) == pc[t] = "write" /\ i[t] >= clnt_cnt /\ msg[t] # Failed
EachOnceWhileNoneLeft ==
  \A t \in Threads : Finished(t) /\ NoneLeft =>
    \A f \in Registered \cap Fds :
      conn[fdTab[f]] = "up" =>
        Cardinality({k \in DOMAIN rcvd[fdTab[f]] : rcvd[fdTab[f]][k] = pos[t]}) = 1

\* All clients see the broadcasts in one order, that of the mutex, even when
\* stale entries of the table make some arrive twice or not at all.
Order == INSTANCE TotalOrder WITH Members <- Clients, Texts <- Messages
OneOrder == Order!Spec

\* The comment at line 76, "send the message to all clients": a finished
\* broadcast has reached every connected client that has its own thread.
SentToAll ==
  \A t, u \in Threads :
    Finished(t) /\ OwnArg /\ Open(given[u])
      /\ pc[u] \in {"read", "lockSend", "write"} =>
      LET c == fdTab[given[u]] IN
        conn[c] = "up" => \E k \in DOMAIN rcvd[c] : rcvd[c][k] = pos[t]

(***************************************************************************)
(* Fairness: the scheduler runs every thread of the server that can run,   *)
(* and recv_msg of chat_clnt.c keeps reading.  Locking is only weakly fair.*)
(***************************************************************************)
Fairness ==
  /\ WF_vars(alive /\ MainStep)
  /\ \A t \in Threads : WF_vars(alive /\ ThreadStep(t))
  /\ \A c \in Clients : WF_vars(alive /\ Recv(c))
FairSpec == Spec /\ Fairness

\* The mutex never stays locked, although send_msg holds it across blocking
\* writes: what blocks them is a client whose own receive thread still runs.
MutexReleased == (mutx # NoOne) ~> (mutx = NoOne \/ ~alive)

\* A thread that was given -1, because accept failed, or whose descriptor another
\* thread has closed, takes every failed read for a message and goes on through
\* send_msg: as locking is only weakly fair, it can keep all others from the
\* mutex.
Spins(t) == pc[t] \in {"read", "lockSend", "write"} /\ ~Open(sock[t])

\* A thread whose client has left gets the mutex in the end and closes the
\* connection, however many broadcasts it competes with, unless there is a
\* thread that spins again and again.
LeaverClosed ==
  \/ \A t \in Threads : pc[t] = "lockRemove" ~> (pc[t] = "done" \/ ~alive)
  \/ []<>(\E t \in Threads : Spins(t))
=============================================================================
