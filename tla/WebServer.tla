----------------------------- MODULE WebServer -----------------------------
(***************************************************************************)
(* chapter-24/webserv_linux.c: main accepts and starts a detached thread   *)
(* per connection, which gets the ADDRESS of main's clnt_sock.  A thread   *)
(* answers one request with a file or with 400.  The threads share the     *)
(* descriptors and the position of strtok.  The clients either come one    *)
(* after the other and stay until they are answered, or come as a crowd.   *)
(***************************************************************************)
EXTENDS Integers, Sequences, FiniteSets, SequencesExt

CONSTANTS
  Clients, Threads, Fds,
  Files,       \* files that exist
  Crowd        \* the clients that may come at the same time

Failed == -1         \* what accept, dup and fopen return when Fds is used up
Nobody == "nobody"   \* a free descriptor
OnDisk == "on disk"  \* a descriptor of a file
Junk == "junk"       \* a piece of a line or of a name that has no dot
NoRequest == "none"

\* The files and the clients are none of the other things a value may stand for.
ASSUME WebAssumption ==
  /\ Crowd \subseteq Clients /\ Fds \subseteq Nat /\ IsFiniteSet(Fds)
  /\ Files \cap {"missing", "post", "bad", "nodot", "short", "400", Junk, NoRequest} = {}
  /\ Clients \cap {Nobody, OnDisk} = {}

\* "missing" names no file, but has a dot.  "post" is a complete request but for
\* its method, "bad" has no "HTTP/", "nodot" a name that no dot divides, and
\* "short" nothing but the "HTTP/".
Deadly == {"nodot", "short"}
Requests == Files \cup {"missing", "post", "bad"} \cup Deadly

VARIABLES
  polite,       \* the clients come one after the other
  backlog,      \* kernel: clients that wait to be accepted
  alive,        \* the process has not crashed
  mpc,          \* main: "accept" or "create"
  clnt_sock,    \* main's variable, which the threads read
  tpc,          \* per thread: "idle", "arg", "open", "read", then its strtok
                \* calls "method", "name", "type", "ext", then "close", and "file"
                \* or "error"
  tsock, wsock, \* per thread: descriptors of clnt_read and clnt_write
  line, name,   \* per thread: the request it has read, file_name
  tok,          \* strtok: the tokens after its position
  fdTab,        \* kernel: what a descriptor stands for
  state,        \* per client: "off", "connected", "sent" or "closed"
  request,      \* per client: its request
  unread,       \* per client: nobody has read its request yet
  answers       \* per client: what it was answered

threadVars == <<tpc, tsock, wsock, line, name, tok>>
clientVars == <<backlog, state, request, unread>>
vars == <<polite, alive, mpc, clnt_sock, threadVars, fdTab, clientVars, answers>>

Init ==
  /\ polite \in BOOLEAN /\ backlog = {} /\ alive = TRUE /\ mpc = "accept" /\ clnt_sock = Failed
  /\ tpc = [t \in Threads |-> "idle"]
  /\ tsock = [t \in Threads |-> Failed] /\ wsock = [t \in Threads |-> Failed]
  /\ line = [t \in Threads |-> "bad"] /\ name = [t \in Threads |-> Junk]
  /\ tok = <<>>
  /\ fdTab = [f \in Fds |-> Nobody]
  /\ state = [c \in Clients |-> "off"] /\ request = [c \in Clients |-> NoRequest]
  /\ unread = [c \in Clients |-> FALSE] /\ answers = [c \in Clients |-> <<>>]

FreeFds == {f \in Fds : fdTab[f] = Nobody}
\* The lowest free descriptor is opened for x; f is Failed when there is none.
Opened(f, x) ==
  IF FreeFds = {} THEN f = Failed /\ UNCHANGED fdTab
  ELSE /\ f \in FreeFds /\ \A g \in FreeFds : f <= g
       /\ fdTab' = [fdTab EXCEPT ![f] = x]
Closed(S) == fdTab' = [f \in Fds |-> IF f \in S THEN Nobody ELSE fdTab[f]]
On(f) == IF f \in Fds THEN fdTab[f] ELSE Nobody

(***************************************************************************)
(* The clients.                                                            *)
(***************************************************************************)
Busy == mpc = "create" \/ \E t \in Threads : tpc[t] # "idle"

Connect(c) ==
  /\ state[c] = "off"
  /\ IF polite THEN ~Busy /\ \A d \in Clients : state[d] \in {"off", "closed"}
     ELSE c \in Crowd
  /\ state' = [state EXCEPT ![c] = "connected"] /\ backlog' = backlog \cup {c}
  /\ UNCHANGED <<alive, mpc, clnt_sock, threadVars, fdTab, request, unread, answers>>

Send(c) ==
  /\ state[c] = "connected"
  /\ state' = [state EXCEPT ![c] = "sent"]
  /\ \E r \in Requests : request' = [request EXCEPT ![c] = r]
  /\ unread' = [unread EXCEPT ![c] = TRUE]
  /\ UNCHANGED <<alive, backlog, mpc, clnt_sock, threadVars, fdTab, answers>>

Close(c) ==
  /\ state[c] \in {"connected", "sent"} /\ (polite => answers[c] # <<>>)
  /\ state' = [state EXCEPT ![c] = "closed"]
  /\ UNCHANGED <<alive, backlog, mpc, clnt_sock, threadVars, fdTab, request, unread,
                 answers>>

(***************************************************************************)
(* main                                                                    *)
(***************************************************************************)
Accept(c) ==
  /\ mpc = "accept" /\ c \in backlog
  /\ \E f \in Fds \cup {Failed} :
       /\ Opened(f, c) /\ clnt_sock' = f
       /\ backlog' = IF f = Failed THEN backlog ELSE backlog \ {c}
  /\ mpc' = "create"
  /\ UNCHANGED <<alive, threadVars, state, request, unread, answers>>

\* The thread gets &clnt_sock: it reads the variable when it runs.
CreateThread(t) ==
  /\ mpc = "create" /\ tpc[t] = "idle"
  /\ tpc' = [tpc EXCEPT ![t] = "arg"] /\ mpc' = "accept"
  /\ UNCHANGED <<alive, clnt_sock, tsock, wsock, line, name, tok, fdTab, clientVars,
                 answers>>

(***************************************************************************)
(* request_handler                                                         *)
(***************************************************************************)
Goes(t, to) == tpc' = [tpc EXCEPT ![t] = to]
Crashes == alive' = FALSE /\ UNCHANGED <<threadVars, fdTab>>

ReadArg(t) ==
  /\ tpc[t] = "arg" /\ Goes(t, "open")
  /\ tsock' = [tsock EXCEPT ![t] = clnt_sock]
  /\ UNCHANGED <<alive, wsock, line, name, tok, fdTab>>

\* fdopen and dup.  fdopen of a closed descriptor is NULL, and fgets crashes.
Open(t) ==
  /\ tpc[t] = "open"
  /\ IF On(tsock[t]) = Nobody THEN Crashes
     ELSE /\ \E f \in Fds \cup {Failed} :
               Opened(f, On(tsock[t])) /\ wsock' = [wsock EXCEPT ![t] = f]
          /\ Goes(t, "read")
          /\ UNCHANGED <<alive, tsock, line, name, tok>>

\* Fault: the end of the stream is not noticed.
ReadLineOnly(t) ==
  LET c == On(tsock[t]) IN
  /\ tpc[t] = "read" /\ c \in Clients /\ unread[c]
  /\ line' = [line EXCEPT ![t] = request[c]]
  /\ Goes(t, IF request[c] = "bad" THEN "error" ELSE "method")
  /\ unread' = [unread EXCEPT ![c] = FALSE]
  /\ UNCHANGED <<alive, tsock, wsock, name, tok, fdTab, backlog, state, request>>

\* fgets: the request line, or nothing at the end of the stream or when another
\* thread has closed the descriptor.  req_line is then not set: the stack holds
\* zeros, or a line that strtok has cut behind the method for an earlier thread.
ReadLine(t) ==
  LET c == On(tsock[t])
      Got(r) == /\ line' = [line EXCEPT ![t] = r]
                /\ Goes(t, IF r = "bad" THEN "error" ELSE "method")
  IN
  /\ tpc[t] = "read"
  /\ IF c \in Clients /\ unread[c]
     THEN Got(request[c]) /\ unread' = [unread EXCEPT ![c] = FALSE]
     ELSE /\ c \in Clients => state[c] = "closed"
          /\ Got("bad") /\ unread' = unread
  /\ UNCHANGED <<alive, tsock, wsock, name, tok, fdTab, backlog, state, request>>

\* What follows the method: a name, "HTTP", and the version, which has a dot.
Rest(r) ==
  IF r = "short" THEN <<>>
  ELSE <<CASE r = "nodot" -> Junk [] r \in Files -> r [] OTHER -> "missing", Junk, "missing">>

\* method = strtok(req_line, " /")
FirstToken(t) ==
  /\ tpc[t] = "method" /\ Goes(t, "name")
  /\ tok' = Rest(line[t])
  /\ UNCHANGED <<alive, tsock, wsock, line, name, fdTab>>

\* Fault: file_name is static and filled once.
NextTokenOnce(t) ==
  /\ tpc[t] = "name" /\ tok # <<>>
  /\ name' = [name EXCEPT ![t] = IF @ = Junk THEN Head(tok) ELSE @] /\ tok' = Tail(tok)
  /\ Goes(t, "type")
  /\ UNCHANGED <<alive, tsock, wsock, line, fdTab>>

\* strtok(NULL, ...) goes on wherever the last strtok of any thread stopped;
\* it returns NULL, which strcpy does not survive, when nothing is left.
NextToken(t) ==
  /\ tpc[t] = "name"
  /\ IF tok = <<>> THEN Crashes
     ELSE /\ name' = [name EXCEPT ![t] = Head(tok)] /\ tok' = Tail(tok)
          /\ Goes(t, "type")
          /\ UNCHANGED <<alive, tsock, wsock, line, fdTab>>

IsGet(r) == r \notin {"post", "short"}

\* content_type: strtok(file_name, "."), and strtok(NULL, ".") for the rest.  If
\* nothing is left that returns NULL, which strcpy does not survive; otherwise
\* it goes on behind the next dot.
TypeStart(t) ==
  /\ tpc[t] = "type" /\ Goes(t, "ext")
  /\ tok' = IF name[t] = Junk THEN <<>> ELSE <<Junk>>
  /\ UNCHANGED <<alive, tsock, wsock, line, name, fdTab>>

FirstDot(s) == CHOOSE k \in DOMAIN s : s[k] # Junk /\ \A j \in 1..(k - 1) : s[j] = Junk
AfterDot(s) ==
  IF \A k \in DOMAIN s : s[k] = Junk THEN <<>>
  ELSE <<Junk>> \o SubSeq(s, FirstDot(s) + 1, Len(s))
TypeRest(t) ==
  /\ tpc[t] = "ext"
  /\ IF tok = <<>> THEN Crashes
     ELSE /\ tok' = AfterDot(tok)
          /\ Goes(t, IF IsGet(line[t]) THEN "close" ELSE "error")
          /\ UNCHANGED <<alive, tsock, wsock, line, name, fdTab>>

\* Fault: closing the one stream closes the other.
CloseReadAll(t) ==
  /\ tpc[t] = "close" /\ Goes(t, "file")
  /\ Closed({tsock[t], wsock[t]})
  /\ UNCHANGED <<alive, tsock, wsock, line, name, tok>>

\* fclose(clnt_read)
CloseRead(t) ==
  /\ tpc[t] = "close" /\ Goes(t, "file")
  /\ Closed({tsock[t]})
  /\ UNCHANGED <<alive, tsock, wsock, line, name, tok>>

(***************************************************************************)
(* The answers.  Writing to a client that has closed may raise SIGPIPE.    *)
(***************************************************************************)
Answer(t, what) ==
  LET c == On(wsock[t]) IN
  /\ alive' \in IF wsock[t] = Failed THEN {FALSE}
                ELSE IF c \in Clients /\ state[c] = "closed" THEN BOOLEAN ELSE {TRUE}
  /\ answers' = IF c \in Clients THEN [answers EXCEPT ![c] = Append(@, what)]
                ELSE answers
  /\ Goes(t, "idle")
  /\ UNCHANGED <<tsock, wsock, line, name, tok>>

\* Fault: the error path leaves the stream to be closed by the client.
NothingClosed(t) == {}

BothStreams(t) == {tsock[t], wsock[t]}

\* send_error and both fclose: no "HTTP/", or a method other than GET.
SendError(t) ==
  /\ tpc[t] = "error" /\ Answer(t, "400") /\ Closed(BothStreams(t))

\* fopen fails: send_error, and clnt_write stays open.
SendMissing(t) ==
  /\ tpc[t] = "file" /\ (name[t] \notin Files \/ FreeFds = {})
  /\ Answer(t, "400") /\ UNCHANGED fdTab

\* The file goes out and the stream is closed; the file stays open.
SendFile(t) ==
  /\ tpc[t] = "file" /\ name[t] \in Files
  /\ \E f \in FreeFds :
       /\ \A g \in FreeFds : f <= g
       /\ fdTab' = [g \in Fds |-> CASE g = f -> OnDisk
                                     [] g # f /\ g = wsock[t] -> Nobody
                                     [] OTHER -> fdTab[g]]
  /\ Answer(t, name[t])

MainStep ==
  \/ \E c \in Clients : Accept(c)
  \/ \E t \in Threads : CreateThread(t)

ThreadStep(t) ==
  \/ /\ ReadArg(t) \/ Open(t) \/ FirstToken(t) \/ NextToken(t) \/ TypeStart(t)
        \/ TypeRest(t) \/ CloseRead(t)
     /\ UNCHANGED <<mpc, clnt_sock, clientVars, answers>>
  \/ ReadLine(t) /\ UNCHANGED <<mpc, clnt_sock, answers>>
  \/ /\ SendError(t) \/ SendMissing(t) \/ SendFile(t)
     /\ UNCHANGED <<mpc, clnt_sock, clientVars>>

ClientStep(c) == Connect(c) \/ Send(c) \/ Close(c)

Next ==
  /\ alive /\ polite' = polite
  /\ MainStep \/ (\E t \in Threads : ThreadStep(t)) \/ (\E c \in Clients : ClientStep(c))

Spec == Init /\ [][Next]_vars

\* main and the threads run whenever they can, a client that has connected sends
\* its request, and none stays for ever.
FairSpec ==
  /\ Spec /\ WF_vars(alive /\ polite' = polite /\ MainStep)
  /\ \A t \in Threads : WF_vars(alive /\ polite' = polite /\ ThreadStep(t))
  /\ \A c \in Clients : WF_vars(alive /\ polite' = polite /\ (Send(c) \/ Close(c)))

(***************************************************************************)
(* Properties.                                                             *)
(***************************************************************************)
HasOpen(c) == \E f \in Fds : fdTab[f] = c

\* A file that a client is sent is the one it asked for.
RightFile ==
  \A c \in Clients : \A j \in DOMAIN answers[c] :
    answers[c][j] \in Files => answers[c][j] = request[c]

\* So it is as long as no request is handled while another is; and however the
\* threads mix up their tokens and connections, a file is sent only if some
\* client has asked for it.
SomebodyAsked ==
  \A c \in Clients : \A j \in DOMAIN answers[c] :
    answers[c][j] \in Files => \E d \in Clients : request[d] = answers[c][j]
RightFileAlone == (polite => RightFile) /\ SomebodyAsked

\* With one client after the other, the descriptors in use between two of them
\* are the files sent and the connections of clients that asked for a missing
\* file: one request, one leak.  The server crashes for two reasons only: the
\* leaks have left no descriptor for the next connection, or the client that is
\* being served asks for a name without a dot or for nothing at all, which none
\* ever survives to be answered.
Leaks ==
  {c \in Clients : answers[c] # <<>> /\ answers[c][1] \in Files}
    \cup {c \in Clients : HasOpen(c)}
BetweenClients == ~Busy /\ \A c \in Clients : state[c] \in {"off", "closed"}
OneLeakPerRequest == polite =>
  /\ alive /\ BetweenClients =>
       /\ Cardinality(Fds \ FreeFds) = Cardinality(Leaks)
       /\ \A c \in Clients : HasOpen(c) => request[c] \notin {"bad", "post"}
  /\ \A c \in Clients : answers[c] # <<>> => request[c] \notin Deadly
  /\ ~alive => \/ Cardinality(FreeFds) <= 1
               \/ \E c \in Clients : state[c] = "sent" /\ request[c] \in Deadly

\* With one client after the other each one that connects is answered.
Answered ==
  []<>(~alive \/ (polite => \A c \in Clients : state[c] # "off" => answers[c] # <<>>))

\* Every thread ends, also one that shares a connection or was given a closed one.
ThreadsEnd == []<>(~alive \/ \A t \in Threads : tpc[t] = "idle")
=============================================================================
