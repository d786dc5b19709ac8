----------------------------- MODULE ForkServer -----------------------------
(***************************************************************************)
(* chapter-10/echo_mpserv.c with its client echo_mpclient.c: main accepts  *)
(* and forks one child per client, a SIGCHLD handler reaps the children.   *)
(* Signals do not queue: one that arrives while another is pending is      *)
(* lost.  The client is two processes, one that types and one that reads.  *)
(* The bytes of a client are numbered in the order it sends them.          *)
(* StoreServer extends this module: with Logging a child also logs what it *)
(* echoes.                                                                 *)
(***************************************************************************)
EXTENDS Integers, Sequences, FiniteSets

CONSTANTS
  Clients,
  Procs,        \* process slots: zombies occupy one too, none free fails fork
  Logging,
  BUF_SIZE,     \* size of buf
  BUFSIZ,       \* what read is told it may read
  MaxBytes,     \* bound: bytes per client
  Talkers,      \* the clients that send
  Chatty        \* those of them that send more than one byte

ASSUME ForkAssumption ==
  /\ IsFiniteSet(Procs) /\ Logging \in BOOLEAN
  /\ BUF_SIZE \in Nat \ {0} /\ BUFSIZ \in Nat \ {0} /\ MaxBytes \in Nat

Nobody == "nobody"

VARIABLES
  mpc,          \* main: "accept", "fork" or "close"
  clnt_sock,    \* main: the client accepted last
  mainHas,      \* main: clients whose descriptor is open in it
  sigchld,      \* kernel: a SIGCHLD is pending
  inHandler,    \* main is in read_childproc, before waitpid
  merged,       \* history: SIGCHLDs that found one pending
  pstate,       \* per slot: "none", or where its process is: "read", "write",
                \* "exit", "zombie"; in StoreServer also "log" and "logger"
  serves,       \* per slot: clnt_sock of the child
  has,          \* per slot: clients whose descriptor is open in it
  buf,          \* per slot: bytes read and not written yet
  conn,         \* per client: "pending" or "up"; "shut" after shutdown(SHUT_WR),
                \* "gone" when all its processes have ended, "reset" when the
                \* server has been sent an RST
  sent, got,    \* per client: bytes it sent, bytes its child has read
  echoed,       \* per client: bytes given back
  reading       \* per client: its reading process still runs

mainVars == <<mpc, clnt_sock, mainHas>>
sigVars == <<sigchld, inHandler, merged>>
procVars == <<pstate, serves, has, buf>>
netVars == <<conn, sent, got, echoed, reading>>
forkVars == <<mainVars, sigVars, procVars, netVars>>

ForkInit ==
  /\ mpc = "accept" /\ clnt_sock = Nobody /\ mainHas = {}
  /\ sigchld = FALSE /\ inHandler = FALSE /\ merged = 0
  /\ serves = [p \in Procs |-> Nobody] /\ has = [p \in Procs |-> {}]
  /\ buf = [p \in Procs |-> <<>>]
  /\ conn = [c \in Clients |-> "pending"]
  /\ sent = [c \in Clients |-> 0] /\ got = [c \in Clients |-> 0]
  /\ echoed = [c \in Clients |-> <<>>] /\ reading = [c \in Clients |-> TRUE]

Init == ForkInit /\ pstate = [p \in Procs |-> "none"]

\* The connection ends for the client when no process has its descriptor open.
ServerClosed(c) ==
  conn[c] # "pending" /\ c \notin mainHas /\ \A p \in Procs : c \notin has[p]

(***************************************************************************)
(* main                                                                    *)
(***************************************************************************)
Accept(c) ==
  /\ ~inHandler /\ mpc = "accept" /\ conn[c] = "pending"
  /\ conn' = [conn EXCEPT ![c] = "up"]
  /\ clnt_sock' = c /\ mainHas' = mainHas \cup {c} /\ mpc' = "fork"
  /\ UNCHANGED <<sigVars, procVars, sent, got, echoed, reading>>

FreeSlots == {p \in Procs : pstate[p] = "none"}

Fork(p) ==
  /\ ~inHandler /\ mpc = "fork" /\ p \in FreeSlots
  /\ pstate' = [pstate EXCEPT ![p] = "read"]
  /\ serves' = [serves EXCEPT ![p] = clnt_sock]
  /\ has' = [has EXCEPT ![p] = mainHas]
  /\ mpc' = "close"
  /\ UNCHANGED <<clnt_sock, mainHas, sigVars, buf, netVars>>

\* Fault: main keeps the descriptor of the client it has forked a child for.
CloseForgotten == mainHas

AfterClose == mainHas \ {clnt_sock}

\* close(clnt_sock), in the parent and when fork fails.
CloseClient ==
  /\ ~inHandler
  /\ mpc = "close" \/ (mpc = "fork" /\ FreeSlots = {})
  /\ mainHas' = AfterClose /\ mpc' = "accept"
  /\ UNCHANGED <<clnt_sock, sigVars, procVars, netVars>>

(***************************************************************************)
(* SIGCHLD: the handler blocks it while it runs and reaps one child.       *)
(***************************************************************************)
Zombies == {p \in Procs : pstate[p] = "zombie"}

Deliver ==
  /\ sigchld /\ ~inHandler
  /\ sigchld' = FALSE /\ inHandler' = TRUE
  /\ UNCHANGED <<mainVars, merged, procVars, netVars>>

\* Fault: main ends when accept fails.
EndWhenInterrupted == "end"

\* accept returns -1 with EINTR: continue.
WhenInterrupted == "accept"

HandlerEnds ==
  /\ inHandler /\ inHandler' = FALSE
  /\ mpc' = IF mpc = "accept" THEN WhenInterrupted ELSE mpc
  /\ UNCHANGED <<clnt_sock, mainHas, sigchld, merged, serves, has, buf, netVars>>

\* Fault: the handler does not wait for the child.
ReapNone == HandlerEnds /\ UNCHANGED pstate

Reap ==
  /\ HandlerEnds
  /\ IF Zombies = {} THEN UNCHANGED pstate
     ELSE \E z \in Zombies : pstate' = [pstate EXCEPT ![z] = "none"]

(***************************************************************************)
(* A child.                                                                *)
(***************************************************************************)
\* A process ends, by return or by a signal.
Ends(p) ==
  /\ pstate' = [pstate EXCEPT ![p] = "zombie"]
  /\ has' = [has EXCEPT ![p] = {}] /\ buf' = [buf EXCEPT ![p] = <<>>]
  /\ sigchld' = TRUE
  /\ merged' = IF sigchld THEN merged + 1 ELSE merged
  /\ UNCHANGED <<mainVars, inHandler, serves>>

Unread(c) == sent[c] - got[c]
Chunk(c) == IF Unread(c) < BUFSIZ THEN Unread(c) ELSE BUFSIZ

ChildRead(p) ==
  LET c == serves[p] IN
  /\ pstate[p] = "read" /\ Unread(c) > 0
  /\ got' = [got EXCEPT ![c] = @ + Chunk(c)]
  /\ UNCHANGED <<conn, sent, echoed, reading>>
  /\ \/ /\ buf' = [buf EXCEPT ![p] = [j \in 1..Chunk(c) |-> got[c] + j]]
        /\ pstate' = [pstate EXCEPT ![p] = "write"]
        /\ UNCHANGED <<mainVars, sigVars, serves, has>>
     \* undefined: the read went past the end of buf
     \/ Chunk(c) > BUF_SIZE /\ Ends(p)

ChildEof(p) ==
  LET c == serves[p] IN
  /\ pstate[p] = "read" /\ Unread(c) = 0 /\ conn[c] # "up"
  /\ pstate' = [pstate EXCEPT ![p] = "exit"]
  /\ has' = [has EXCEPT ![p] = @ \ {c}]
  /\ UNCHANGED <<mainVars, sigVars, serves, buf, netVars>>

\* Fault: what is read past the end of buf overwrites its beginning.
WrapsInBuf(p) ==
  SubSeq(buf[p], IF Len(buf[p]) > BUF_SIZE THEN Len(buf[p]) - BUF_SIZE + 1 ELSE 1, Len(buf[p]))

AllWritten(p) == buf[p]

ChildWrite(p) ==
  LET c == serves[p] IN
  /\ pstate[p] = "write" /\ conn[c] # "reset"
  /\ \/ /\ conn[c] \in {"up", "shut"}
        /\ echoed' = [echoed EXCEPT ![c] = @ \o AllWritten(p)] /\ conn' = conn
     \/ /\ conn[c] = "gone" /\ echoed' = echoed
        /\ \E s \in {"gone", "reset"} : conn' = [conn EXCEPT ![c] = s]
  /\ pstate' = [pstate EXCEPT ![p] = IF Logging THEN "log" ELSE "read"]
  /\ buf' = IF Logging THEN buf ELSE [buf EXCEPT ![p] = <<>>]
  /\ UNCHANGED <<mainVars, sigVars, serves, has, sent, got, reading>>

ChildSigpipe(p) ==
  /\ pstate[p] = "write" /\ conn[serves[p]] = "reset"
  /\ Ends(p) /\ UNCHANGED netVars

ChildExit(p) == pstate[p] = "exit" /\ Ends(p) /\ UNCHANGED netVars

(***************************************************************************)
(* The client: write_routine and read_routine.                             *)
(***************************************************************************)
\* After the server has closed, a write only ends the writing process.
ClientSend(c) ==
  /\ c \in Talkers /\ conn[c] = "up" /\ ~ServerClosed(c) /\ sent[c] < MaxBytes
  /\ c \in Chatty \/ sent[c] = 0
  /\ sent' = [sent EXCEPT ![c] = @ + 1]
  /\ UNCHANGED <<mainVars, sigVars, procVars, conn, got, echoed, reading>>

\* "q": shutdown(sock, SHUT_WR).
ClientShut(c) ==
  /\ conn[c] = "up"
  /\ conn' = [conn EXCEPT ![c] = "shut"]
  /\ UNCHANGED <<mainVars, sigVars, procVars, sent, got, echoed, reading>>

\* read() = 0.  Earlier data needs no step: read_routine prints and goes on.
ClientEof(c) ==
  /\ reading[c] /\ ServerClosed(c)
  /\ reading' = [reading EXCEPT ![c] = FALSE]
  /\ UNCHANGED <<mainVars, sigVars, procVars, conn, sent, got, echoed>>

\* Both processes are killed.
ClientEnds(c) ==
  /\ conn[c] \in {"up", "shut"}
  /\ conn' = [conn EXCEPT ![c] = "gone"]
  /\ reading' = [reading EXCEPT ![c] = FALSE]
  /\ UNCHANGED <<mainVars, sigVars, procVars, sent, got, echoed>>

MainStep == (\E c \in Clients : Accept(c)) \/ (\E p \in Procs : Fork(p)) \/ CloseClient
Signal == Deliver \/ Reap
ChildStep(p) ==
  ChildRead(p) \/ ChildEof(p) \/ ChildWrite(p) \/ ChildSigpipe(p) \/ ChildExit(p)
ClientStep(c) == ClientSend(c) \/ ClientShut(c) \/ ClientEof(c) \/ ClientEnds(c)

Next ==
  \/ MainStep \/ Signal
  \/ (\E p \in Procs : ChildStep(p)) \/ (\E c \in Clients : ClientStep(c))

Spec == Init /\ [][Next]_forkVars

\* Every process that can run does so, and signals are delivered.
FairSpec ==
  /\ Spec /\ WF_forkVars(MainStep) /\ WF_forkVars(Signal)
  /\ \A p \in Procs : WF_forkVars(ChildStep(p))
  /\ \A c \in Clients : WF_forkVars(ClientEof(c))

(***************************************************************************)
(* Properties.                                                             *)
(***************************************************************************)
\* A connection is open in the child that serves it and nowhere else, but in
\* main until it closes its copy: no child inherits another client's descriptor.
OnlyItsChild ==
  /\ \A p \in Procs : has[p] \subseteq {serves[p]}
  /\ \A p, q \in Procs : p # q => has[p] \cap has[q] = {}
  /\ mainHas \subseteq {clnt_sock} /\ (mpc = "accept" => mainHas = {})

\* Each zombie is owed to a signal pending, to the handler about to reap, or to
\* a signal that was merged: none is lost while one signal comes at a time.
ZombiesAreOwed ==
  Cardinality(Zombies) =
    merged + (IF sigchld THEN 1 ELSE 0) + (IF inHandler THEN 1 ELSE 0)

\* Each client gets exactly its first bytes back, in order.
Echo == INSTANCE EchoService
EchoesInOrder == Echo!Spec

\* Signals interrupt accept, but every client that connects is accepted.
Accepted == <>(\A c \in Clients : conn[c] # "pending")

\* A client that shuts down its writing side reads the end of the stream: its
\* child has closed the connection, and so has main.
ClientReturns == []<>(\A c \in Clients : conn[c] = "shut" => ~reading[c])
=============================================================================
