---------------------------- MODULE WebServerProof ----------------------------
(***************************************************************************)
(* Proofs about WebServer: what is sent was asked for, and with one client *)
(* after the other each one gets its own file and every request leaks at   *)
(* most one descriptor.  They hold for any number of clients, threads and  *)
(* descriptors and any files.                                              *)
(***************************************************************************)
EXTENDS WebServer, FiniteSetTheorems, WellFoundedInduction, TLAPS

Names == Files \cup {"missing", Junk}
Phases ==
  {"idle", "arg", "open", "read", "method", "name", "type", "ext", "close", "file", "error"}

Types ==
  /\ polite \in BOOLEAN /\ backlog \subseteq Clients /\ alive \in BOOLEAN
  /\ mpc \in {"accept", "create"} /\ clnt_sock \in Fds \cup {Failed}
  /\ tpc \in [Threads -> Phases]
  /\ tsock \in [Threads -> Fds \cup {Failed}] /\ wsock \in [Threads -> Fds \cup {Failed}]
  /\ line \in [Threads -> Requests] /\ name \in [Threads -> Names] /\ tok \in Seq(Names)
  /\ fdTab \in [Fds -> Clients \cup {Nobody, OnDisk}]
  /\ state \in [Clients -> {"off", "connected", "sent", "closed"}]
  /\ request \in [Clients -> Requests \cup {NoRequest}]
  /\ unread \in [Clients -> BOOLEAN]
  /\ answers \in [Clients -> Seq(Files \cup {"400"})]

\* A client has one request, and only what it has sent can be read.
OneRequest ==
  \A c \in Clients :
    /\ state[c] \in {"off", "connected"} => request[c] = NoRequest
    /\ unread[c] => request[c] # NoRequest

\* Whatever a thread has in its hands was asked for by somebody.
Asked(x) == x \in Files => \E d \in Clients : request[d] = x
AskedInv ==
  /\ \A t \in Threads : Asked(line[t]) /\ Asked(name[t])
  /\ \A k \in 1..Len(tok) : Asked(tok[k])
  /\ \A c \in Clients : \A j \in 1..Len(answers[c]) : Asked(answers[c][j])

(***************************************************************************)
(* One client after the other.                                             *)
(***************************************************************************)
Present(c) == state[c] \in {"connected", "sent"}
Holds(c) == {f \in Fds : fdTab[f] = c}
Disk == {f \in Fds : fdTab[f] = OnDisk}
Served == {c \in Clients : answers[c] # <<>> /\ answers[c][1] \in Files}

\* The name in a request, which only a name with a dot survives.
NameOf(r) == CASE r = "nodot" -> Junk [] r \in Files -> r [] OTHER -> "missing"

\* Thread t is the only one at work and serves c.
Serves(t, c) ==
  /\ \A u \in Threads : u # t => tpc[u] = "idle"
  /\ mpc = "accept"
  /\ tpc[t] = "arg" => clnt_sock \in Fds /\ Holds(c) = {clnt_sock}
  /\ tpc[t] = "open" => tsock[t] \in Fds /\ Holds(c) = {tsock[t]}
  /\ tpc[t] \in {"read", "method", "name", "type", "ext", "close", "error"} =>
       /\ tsock[t] \in Fds /\ wsock[t] # tsock[t]
       /\ Holds(c) = {tsock[t], wsock[t]} \cap Fds
       /\ wsock[t] = Failed => FreeFds = {}
  /\ tpc[t] = "file" =>
       /\ Holds(c) = {wsock[t]} \cap Fds
       /\ tsock[t] \in FreeFds
       /\ wsock[t] = Failed => FreeFds = {tsock[t]}
  /\ tpc[t] \in {"method", "name", "type", "ext", "close", "file", "error"} =>
       state[c] = "sent" /\ line[t] = request[c]
  /\ tpc[t] \in {"method", "name", "type", "ext"} => line[t] # "bad"
  /\ tpc[t] \in {"close", "file"} => line[t] \notin {"bad", "post"} \cup Deadly
  /\ tpc[t] = "error" => line[t] \in {"bad", "post"}
  /\ tpc[t] = "name" => tok = Rest(line[t])
  /\ tpc[t] \in {"type", "ext", "close", "file"} => line[t] # "short" /\ name[t] = NameOf(line[t])
  /\ tpc[t] = "ext" => tok = IF line[t] = "nodot" THEN <<>> ELSE <<Junk>>

\* No descriptor was left for the client that waits: accept fails, and the
\* threads that are started all the same have none either.
Doomed ==
  /\ Busy => FreeFds = {}
  /\ mpc = "create" => clnt_sock = Failed
  /\ \A t \in Threads :
       /\ tpc[t] \in {"idle", "arg", "open"}
       /\ tpc[t] = "arg" => clnt_sock = Failed
       /\ tpc[t] = "open" => tsock[t] = Failed

\* The clients before the one that is present.
PastInv ==
  \A c \in Clients :
    /\ answers[c] = <<>> => state[c] # "closed"
    /\ answers[c] # <<>> =>
         /\ state[c] \in {"sent", "closed"} /\ c \notin backlog /\ Len(answers[c]) = 1
         /\ answers[c][1] \in Files => answers[c][1] = request[c] /\ Holds(c) = {}
         /\ Holds(c) # {} => request[c] \notin {"bad", "post"}
         /\ \A f, g \in Holds(c) : f = g
    /\ state[c] = "off" => c \notin backlog /\ Holds(c) = {} /\ answers[c] = <<>>

\* The client that is present and has not been answered.
TurnInv ==
  /\ \A c, d \in Clients : Present(c) /\ Present(d) => c = d
  /\ Busy => \E c \in Clients : Present(c) /\ answers[c] = <<>>
  /\ \A c \in backlog : Holds(c) = {} /\ Doomed
  /\ \A c \in Clients : Present(c) /\ answers[c] = <<>> /\ c \notin backlog =>
       /\ Busy
       /\ mpc = "create" => /\ clnt_sock \in Fds /\ Holds(c) = {clnt_sock}
                            /\ \A t \in Threads : tpc[t] = "idle"
       /\ \A t \in Threads : tpc[t] # "idle" => Serves(t, c)

LeakInv == IsFiniteSet(Served) /\ Cardinality(Disk) = Cardinality(Served)

\* A file is the right one, and a request that crashes the server has no answer.
RightAnswers ==
  RightFile /\ \A c \in Clients : answers[c] # <<>> => request[c] \notin Deadly

PoliteInv == polite =>
  /\ RightAnswers
  /\ alive => PastInv /\ TurnInv /\ LeakInv
  /\ ~alive => \/ \A f, g \in FreeFds : f = g
               \/ \E c \in Clients : state[c] = "sent" /\ request[c] \in Deadly

(***************************************************************************)
(* Types and requests.                                                     *)
(***************************************************************************)
Base == Types /\ OneRequest

LEMMA InitBase == Init => Base
<1> SUFFICES ASSUME Init PROVE Types /\ OneRequest
  BY DEF Base
<1>1. Types
  <2>1. tok \in Seq(Names) /\ answers \in [Clients -> Seq(Files \cup {"400"})]
    BY DEF Init
  <2> QED
    BY <2>1 DEF Init, Types, Phases, Names, Requests
<1> QED
  BY <1>1 DEF Init, OneRequest

\* Opening a descriptor, or not finding one.
LEMMA OpenedType ==
  ASSUME Types, NEW f \in Fds \cup {Failed}, NEW x \in Clients \cup {OnDisk}, Opened(f, x)
  PROVE  fdTab' \in [Fds -> Clients \cup {Nobody, OnDisk}]
BY DEF Types, Opened, FreeFds

LEMMA RestIs ==
  /\ Rest("short") = <<>>
  /\ \A r : r # "short" => Rest(r) = <<NameOf(r), Junk, "missing">>
BY DEF Rest, NameOf

\* Behind the next dot there is the end of the line, or a piece of it.
LEMMA AfterDotIs ==
  ASSUME NEW S, Junk \in S, NEW s \in Seq(S)
  PROVE  /\ AfterDot(s) \in Seq(S)
         /\ \A k \in 1..Len(AfterDot(s)) :
              AfterDot(s)[k] = Junk \/ \E j \in 1..Len(s) : AfterDot(s)[k] = s[j]
<1>1. CASE \A k \in DOMAIN s : s[k] = Junk
  BY <1>1 DEF AfterDot
<1>2. CASE ~(\A k \in DOMAIN s : s[k] = Junk)
  <2> DEFINE First(k) == s[k] # Junk /\ \A j \in 1..(k - 1) : s[j] = Junk
             i == FirstDot(s)
  <2>1. \E k \in DOMAIN s : First(k)
    <3> DEFINE P == {k \in Nat : k \in 1..Len(s) /\ s[k] # Junk}
    <3>1. DOMAIN s = 1..Len(s) /\ P # {} /\ P \subseteq Nat
      BY <1>2
    <3> HIDE DEF P
    <3>2. PICK m \in P : \A k \in P : ~(<<k, m>> \in OpToRel(<, Nat))
      BY <3>1, WFMin, NatLessThanWellFounded
    <3>3. \A k \in P : ~(k < m)
      BY <3>1, <3>2 DEF OpToRel
    <3> QED
      BY <3>1, <3>3, SMTT(30) DEF P
  <2>2. i \in DOMAIN s
    BY <2>1 DEF FirstDot
  <2>3. i \in 1..Len(s) /\ AfterDot(s) = <<Junk>> \o SubSeq(s, i + 1, Len(s))
    BY <1>2, <2>2 DEF AfterDot
  <2> HIDE DEF i
  <2>4. SubSeq(s, i + 1, Len(s)) \in Seq(S) /\ <<Junk>> \in Seq(S)
    BY <2>3
  <2> QED
    BY SMTT(30), <2>3, <2>4
<1> QED
  BY <1>1, <1>2

LEMMA TokenTypes ==
  ASSUME Types, NEW t \in Threads
  PROVE  /\ Rest(line[t]) \in Seq(Names) /\ <<Junk>> \in Seq(Names) /\ <<>> \in Seq(Names)
         /\ AfterDot(tok) \in Seq(Names)
         /\ tok # <<>> => Head(tok) \in Names /\ Tail(tok) \in Seq(Names)
<1>1. NameOf(line[t]) \in Names
  BY DEF NameOf, Names
<1>2. <<Junk>> \in Seq(Names) /\ <<>> \in Seq(Names)
  BY DEF Names
<1>3. Rest(line[t]) \in Seq(Names)
  <2>1. <<NameOf(line[t]), Junk, "missing">> \in Seq(Names)
    BY <1>1 DEF Names
  <2> QED
    BY <1>2, <2>1, RestIs
<1>4. AfterDot(tok) \in Seq(Names)
  BY AfterDotIs DEF Types, Names
<1>5. tok # <<>> => Head(tok) \in Names /\ Tail(tok) \in Seq(Names)
  BY DEF Types
<1> QED
  BY <1>2, <1>3, <1>4, <1>5

LEMMA StepBase == Base /\ [Next]_vars => Base'
<1> SUFFICES ASSUME Base, [Next]_vars PROVE Types' /\ OneRequest'
  BY DEF Base
<1> USE DEF Base
<1>t. Types
  OBVIOUS
<1>0. CASE UNCHANGED vars
  BY <1>0 DEF vars, threadVars, clientVars, Types, OneRequest
<1>1. ASSUME NEW c \in Clients, ClientStep(c), polite' = polite PROVE Types' /\ OneRequest'
  <2>1. UNCHANGED <<alive, mpc, clnt_sock, tpc, tsock, wsock, line, name, tok, fdTab, answers>>
    BY <1>1 DEF ClientStep, Connect, Send, Close, threadVars
  <2>2. CASE Connect(c)
    BY <1>1, <2>1, <2>2 DEF Connect, Types, OneRequest
  <2>3. CASE Send(c)
    BY <1>1, <2>1, <2>3, WebAssumption DEF Send, Types, OneRequest, Requests, Deadly, NoRequest
  <2>4. CASE Close(c)
    BY <1>1, <2>1, <2>4 DEF Close, Types, OneRequest
  <2> QED
    BY <1>1, <2>2, <2>3, <2>4 DEF ClientStep
<1>2. ASSUME MainStep, polite' = polite PROVE Types' /\ OneRequest'
  <2>1. ASSUME NEW c \in Clients, Accept(c) PROVE Types' /\ OneRequest'
    <3>1. fdTab' \in [Fds -> Clients \cup {Nobody, OnDisk}]
      BY <2>1, OpenedType DEF Accept
    <3> QED
      BY <1>2, <2>1, <3>1 DEF Accept, threadVars, Types, OneRequest
  <2>2. ASSUME NEW t \in Threads, CreateThread(t) PROVE Types' /\ OneRequest'
    BY <1>2, <2>2 DEF CreateThread, clientVars, Types, OneRequest, Phases
  <2> QED
    BY <1>2, <2>1, <2>2 DEF MainStep
<1>3. ASSUME NEW t \in Threads, ThreadStep(t), polite' = polite PROVE Types' /\ OneRequest'
  <2>a. ASSUME UNCHANGED <<mpc, clnt_sock, clientVars, answers>>,
               tpc' \in [Threads -> Phases], alive' \in BOOLEAN,
               tsock' \in [Threads -> Fds \cup {Failed}], wsock' \in [Threads -> Fds \cup {Failed}],
               line' = line, name' \in [Threads -> Names], tok' \in Seq(Names),
               fdTab' \in [Fds -> Clients \cup {Nobody, OnDisk}]
        PROVE  Types' /\ OneRequest'
    BY <1>3, <2>a DEF clientVars, Types, OneRequest
  <2>1. CASE /\ ReadArg(t) \/ FirstToken(t) \/ NextToken(t) \/ TypeStart(t) \/ TypeRest(t)
             /\ UNCHANGED <<mpc, clnt_sock, clientVars, answers>>
    <3>1. tpc' \in [Threads -> Phases]
      BY <2>1 DEF ReadArg, FirstToken, NextToken, TypeStart, TypeRest, Goes, Crashes,
                  threadVars, Types, Phases
    <3>2. tok' \in Seq(Names) /\ name' \in [Threads -> Names]
      BY <1>t, <2>1, TokenTypes DEF ReadArg, FirstToken, NextToken, TypeStart, TypeRest, Crashes,
                  threadVars, Types
    <3>3. /\ UNCHANGED <<wsock, line, fdTab>> /\ tsock' \in [Threads -> Fds \cup {Failed}]
          /\ alive' \in BOOLEAN
      BY <2>1 DEF ReadArg, FirstToken, NextToken, TypeStart, TypeRest, Crashes, threadVars, Types
    <3> QED
      BY <2>1, <2>a, <3>1, <3>2, <3>3 DEF Types
  <2>2. CASE Open(t) /\ UNCHANGED <<mpc, clnt_sock, clientVars, answers>>
    <3>1. CASE On(tsock[t]) = Nobody
      BY <2>2, <2>a, <3>1 DEF Open, Crashes, threadVars, Types
    <3>2. CASE On(tsock[t]) # Nobody
      <4>1. On(tsock[t]) \in Clients \cup {OnDisk}
        BY <3>2 DEF On, Types
      <4>2. /\ fdTab' \in [Fds -> Clients \cup {Nobody, OnDisk}]
            /\ wsock' \in [Threads -> Fds \cup {Failed}]
        BY <2>2, <3>2, <4>1, OpenedType DEF Open, Types
      <4> QED
        BY <2>2, <2>a, <3>2, <4>2 DEF Open, Goes, Types, Phases
    <3> QED
      BY <3>1, <3>2
  <2>3. CASE CloseRead(t) /\ UNCHANGED <<mpc, clnt_sock, clientVars, answers>>
    BY <2>3, <2>a DEF CloseRead, Goes, Closed, Types, Phases
  <2>4. CASE ReadLine(t) /\ UNCHANGED <<mpc, clnt_sock, answers>>
    <3> DEFINE c == On(tsock[t])
    <3>1. /\ UNCHANGED <<mpc, clnt_sock, answers, alive, tsock, wsock, name, tok, fdTab, backlog,
                          state, request>>
          /\ \E r \in {request[c], "bad"} :
               /\ line' = [line EXCEPT ![t] = r] /\ Goes(t, IF r = "bad" THEN "error" ELSE "method")
               /\ r # "bad" => c \in Clients /\ unread[c]
          /\ unread' \in {unread, [unread EXCEPT ![c] = FALSE]}
      BY <2>4 DEF ReadLine
    <3> HIDE DEF c
    <3>2. line' \in [Threads -> Requests]
      BY <3>1 DEF Types, OneRequest, Requests
    <3>3. unread' \in [Clients -> BOOLEAN] /\ \A d \in Clients : unread'[d] => unread[d]
      BY <3>1 DEF Types
    <3>4. tpc' \in [Threads -> Phases]
      BY <3>1 DEF Goes, Types, Phases
    <3> QED
      BY <1>3, <3>1, <3>2, <3>3, <3>4 DEF Types, OneRequest
  <2>5. CASE /\ SendError(t) \/ SendMissing(t) \/ SendFile(t)
             /\ UNCHANGED <<mpc, clnt_sock, clientVars>>
    <3>1. PICK what \in Files \cup {"400"} : Answer(t, what)
      BY <2>5 DEF SendError, SendMissing, SendFile
    <3>2. fdTab' \in [Fds -> Clients \cup {Nobody, OnDisk}]
      BY <2>5 DEF SendError, SendMissing, SendFile, Closed, Types
    <3>3. answers' \in [Clients -> Seq(Files \cup {"400"})]
      <4> DEFINE c == On(wsock[t])
      <4>1. CASE c \in Clients
        <5>1. Append(answers[c], what) \in Seq(Files \cup {"400"})
          BY <4>1 DEF Types
        <5>2. answers' = [answers EXCEPT ![c] = Append(@, what)]
          BY <3>1, <4>1 DEF Answer
        <5> QED
          BY <4>1, <5>1, <5>2 DEF Types
      <4>2. CASE c \notin Clients
        BY <3>1, <4>2 DEF Answer, Types
      <4> QED
        BY <4>1, <4>2
    <3>4. alive' \in BOOLEAN /\ tpc' \in [Threads -> Phases]
      BY <3>1 DEF Answer, Goes, Types, Phases
    <3> QED
      BY <1>3, <2>5, <3>1, <3>2, <3>3, <3>4 DEF Answer, clientVars, Types, OneRequest
  <2> QED
    BY <1>3, <2>1, <2>2, <2>3, <2>4, <2>5 DEF ThreadStep
<1> QED
  BY <1>0, <1>1, <1>2, <1>3 DEF Next

LEMMA BaseInvariance == Spec => []Base
BY InitBase, StepBase, PTL DEF Spec

(***************************************************************************)
(* Nothing is sent that nobody asked for, also in a crowd.                 *)
(***************************************************************************)
LEMMA InitAsked == Init => AskedInv
<1>1. "bad" \notin Files /\ Junk \notin Files
  BY WebAssumption
<1> QED
  BY <1>1 DEF Init, AskedInv, Asked

\* A client's request does not change, and so what was asked for stays so.
LEMMA AskedStays ==
  ASSUME Base, [Next]_vars
  PROVE  \A x : Asked(x) => Asked(x)'
<1>1. ASSUME NEW c \in Clients, Send(c), NEW x, Asked(x) PROVE Asked(x)'
  <2>1. request[c] = NoRequest /\ \A d \in Clients : d # c => request'[d] = request[d]
    BY <1>1 DEF Send, Base, Types, OneRequest
  <2> QED
    BY <1>1, <2>1, WebAssumption DEF Asked
<1>2. CASE \A c \in Clients : ~Send(c)
  <2>1. request' = request
    BY <1>2 DEF vars, clientVars, Next, MainStep, Accept, CreateThread, ThreadStep, ReadLine,
                ClientStep, Connect, Close
  <2> QED
    BY <2>1 DEF Asked
<1> QED
  BY <1>1, <1>2

LEMMA StepAsked == ASSUME Base, AskedInv, [Next]_vars PROVE AskedInv'
<1> USE DEF Base
<1>0. \A x : Asked(x) => Asked(x)'
  BY AskedStays
<1>a. /\ \A t \in Threads : Asked(line[t]) /\ Asked(name[t])
      /\ \A k \in 1..Len(tok) : Asked(tok[k])
      /\ \A c \in Clients : \A j \in 1..Len(answers[c]) : Asked(answers[c][j])
  BY DEF AskedInv
<1>b. Asked("missing") /\ Asked(Junk) /\ Asked("bad") /\ Asked("400")
  BY WebAssumption DEF Asked
<1>1. CASE UNCHANGED <<line, name, tok, answers>>
  BY <1>0, <1>1, <1>a DEF AskedInv
<1>2. ASSUME NEW t \in Threads, answers' = answers,
             FirstToken(t) \/ NextToken(t) \/ TypeStart(t) \/ TypeRest(t)
      PROVE  AskedInv'
  <2>3. line' = line
    BY <1>2 DEF FirstToken, NextToken, TypeStart, TypeRest, Crashes, threadVars
  <2>1. \A k \in 1..Len(tok') : Asked(tok'[k])
    <3>1. CASE tok' = Rest(line[t])
      <4>1. Asked(NameOf(line[t]))
        BY <1>a, <1>b DEF NameOf
      <4>2. tok' = <<>> \/ tok' = <<NameOf(line[t]), Junk, "missing">>
        BY <3>1, RestIs
      <4> QED
        BY <1>b, <4>1, <4>2
    <3>2. CASE tok' = <<>> \/ tok' = <<Junk>>
      BY <1>b, <3>2
    <3>3. CASE tok' = tok
      BY <1>a, <3>3
    <3>4. CASE tok # <<>> /\ tok' = Tail(tok)
      BY <1>a, <3>4 DEF Types
    <3>5. CASE tok' = AfterDot(tok)
      BY <1>a, <1>b, <3>5, AfterDotIs DEF Types, Names
    <3> QED
      BY <1>2, <3>1, <3>2, <3>3, <3>4, <3>5
      DEF FirstToken, NextToken, TypeStart, TypeRest, Crashes, threadVars
  <2>2. \A u \in Threads : Asked(name'[u])
    <3>1. name' = name \/ (tok # <<>> /\ name' = [name EXCEPT ![t] = Head(tok)])
      BY <1>2 DEF FirstToken, NextToken, TypeStart, TypeRest, Crashes, threadVars
    <3>2. tok # <<>> => Asked(Head(tok))
      BY <1>a DEF Types
    <3> QED
      BY <1>a, <3>1, <3>2 DEF Types
  <2> QED
    BY <1>0, <1>2, <1>a, <2>1, <2>2, <2>3 DEF AskedInv
<1>3. ASSUME NEW t \in Threads, ReadLine(t), answers' = answers PROVE AskedInv'
  <2> DEFINE c == On(tsock[t])
  <2>1. /\ UNCHANGED <<name, tok>>
        /\ \E r : /\ line' = [line EXCEPT ![t] = r]
                  /\ r = "bad" \/ (c \in Clients /\ r = request[c])
    BY <1>3 DEF ReadLine
  <2>2. c \in Clients => Asked(request[c])
    BY DEF Asked
  <2> HIDE DEF c
  <2>3. \A u \in Threads : Asked(line'[u])
    BY <1>a, <1>b, <2>1, <2>2 DEF Types
  <2> QED
    BY <1>0, <1>3, <1>a, <2>1, <2>3 DEF AskedInv
<1>4. ASSUME NEW t \in Threads, SendError(t) \/ SendMissing(t) \/ SendFile(t)
      PROVE  AskedInv'
  <2>1. PICK what : Answer(t, what) /\ Asked(what)
    BY <1>4, <1>a, <1>b DEF SendError, SendMissing, SendFile
  <2>2. UNCHANGED <<line, name, tok>>
    BY <2>1 DEF Answer
  <2>3. ASSUME NEW d \in Clients, NEW j \in 1..Len(answers'[d]) PROVE Asked(answers'[d][j])
    <3>1. CASE answers'[d] = answers[d]
      BY <1>a, <3>1
    <3>2. CASE answers'[d] = Append(answers[d], what)
      <4>1. answers[d] \in Seq(Files \cup {"400"})
        BY DEF Types
      <4>2. CASE j \in 1..Len(answers[d])
        <5>1. answers'[d][j] = answers[d][j]
          BY <3>2, <4>1, <4>2
        <5> QED
          BY <1>a, <4>2, <5>1
      <4>3. CASE j = Len(answers[d]) + 1
        BY <2>1, <3>2, <4>1, <4>3
      <4>4. j \in 1..(Len(answers[d]) + 1) /\ Len(answers[d]) \in Nat
        BY <3>2, <4>1
      <4> QED
        BY <4>2, <4>3, <4>4
    <3> QED
      BY <2>1, <3>1, <3>2 DEF Answer, Types
  <2> QED
    BY <1>0, <1>a, <2>2, <2>3 DEF AskedInv
<1>5. ASSUME NEW t \in Threads, ReadArg(t) \/ Open(t) \/ CloseRead(t), answers' = answers
      PROVE  AskedInv'
  BY <1>1, <1>5 DEF ReadArg, Open, CloseRead, Crashes, threadVars
<1>6. ASSUME NEW t \in Threads, ThreadStep(t) PROVE AskedInv'
  BY <1>2, <1>3, <1>4, <1>5, <1>6 DEF ThreadStep
<1>7. CASE UNCHANGED vars \/ MainStep \/ \E c \in Clients : ClientStep(c)
  BY <1>1, <1>7 DEF vars, threadVars, ClientStep, Connect, Send, Close, MainStep, Accept,
     CreateThread
<1> QED
  BY <1>6, <1>7 DEF Next

(***************************************************************************)
(* One client after the other.                                             *)
(***************************************************************************)
Polite == Base /\ polite /\ alive /\ RightAnswers /\ PastInv /\ TurnInv /\ LeakInv
Waiting(c) == Present(c) /\ answers[c] = <<>>

LEMMA Names1 ==
  /\ Failed \notin Fds
  /\ \A c \in Clients : c # Nobody /\ c # OnDisk
  /\ "400" \notin Files /\ "missing" \notin Files /\ "nodot" \notin Files /\ Junk \notin Files
BY WebAssumption DEF Failed

\* A thread at work has a client, which waits to be accepted, with no descriptor
\* left for it, or is served by that thread.
LEMMA TurnOf ==
  ASSUME Polite, NEW t \in Threads, tpc[t] # "idle"
  PROVE  \E c \in Clients : /\ Waiting(c)
                            /\ (c \in backlog /\ Doomed) \/ (c \notin backlog /\ Serves(t, c))
BY DEF Polite, TurnInv, Busy, Waiting

\* A client in the backlog is the one that is present.
LEMMA BacklogPresent ==
  ASSUME Polite, NEW c \in backlog
  PROVE  c \in Clients /\ Waiting(c) /\ \A d \in Clients : Present(d) => d = c
<1>1. c \in Clients
  BY DEF Polite, Base, Types
<1> QED
  BY <1>1 DEF Polite, Base, Types, PastInv, TurnInv, Present, Waiting

LEMMA OpenedFacts ==
  ASSUME Types, NEW f \in FreeFds, NEW x \in Clients, fdTab' = [fdTab EXCEPT ![f] = x]
  PROVE  /\ f \in Fds /\ Holds(x)' = Holds(x) \cup {f} /\ f \notin Holds(x)
         /\ \A d \in Clients : d # x => Holds(d)' = Holds(d)
         /\ Disk' = Disk
BY Names1, ZenonT(30) DEF Types, FreeFds, Holds, Disk, Nobody, OnDisk

LEMMA ClosedFacts ==
  ASSUME Types, NEW S, Closed(S)
  PROVE  /\ \A d \in Clients : Holds(d)' = Holds(d) \ S
         /\ Disk' = Disk \ S /\ FreeFds' = FreeFds \cup (S \cap Fds)
BY Names1 DEF Types, Closed, FreeFds, Holds, Disk, Nobody, OnDisk

\* A step of the thread that serves c, which is not over yet.
LEMMA WorkStep ==
  ASSUME Polite, NEW t \in Threads, NEW c \in Clients, Waiting(c), c \notin backlog,
         Serves(t, c)', tpc'[t] # "idle",
         UNCHANGED <<polite, alive, backlog, state, request, answers, mpc>>,
         \A d \in Clients : d # c => Holds(d)' = Holds(d),
         Disk' = Disk
  PROVE  PoliteInv'
<1>1. backlog = {}
  BY BacklogPresent DEF Waiting
<1>2. RightAnswers'
  BY DEF Polite, RightAnswers, RightFile
<1>3. PastInv'
  BY DEF Polite, PastInv, Waiting, Present
<1>4. TurnInv'
  <2>1. Present(c)' /\ answers'[c] = <<>> /\ \A d \in Clients : Present(d)' => d = c
    BY DEF Waiting, Present, Polite, TurnInv
  <2>2. mpc' = "accept" /\ Busy'
    BY DEF Serves, Busy
  <2>3. \A u \in Threads : tpc'[u] # "idle" => u = t
    BY DEF Serves
  <2> QED
    BY <1>1, <2>1, <2>2, <2>3 DEF TurnInv
<1>5. LeakInv'
  BY DEF Polite, LeakInv, Served
<1> QED
  BY <1>2, <1>3, <1>4, <1>5 DEF PoliteInv, Polite

\* A step that the request of c makes the last one.
LEMMA CrashStep ==
  ASSUME Polite, NEW c \in Clients, state[c] = "sent", request[c] \in Deadly,
         ~alive', UNCHANGED <<state, request, answers>>
  PROVE  PoliteInv'
BY DEF Polite, PoliteInv, RightAnswers, RightFile

\* The last step: the answer.
LEMMA AnswerStep ==
  ASSUME Polite, NEW t \in Threads, NEW c \in Clients, Waiting(c), c \notin backlog,
         Serves(t, c), state[c] = "sent", request[c] \notin Deadly, NEW what \in Files \cup {"400"}, Answer(t, what),
         UNCHANGED <<polite, backlog, state, request, mpc>>,
         wsock[t] # Failed => On(wsock[t]) = c,
         wsock[t] = Failed => \A f, g \in FreeFds' : f = g,
         \A d \in Clients : d # c => Holds(d)' = Holds(d),
         IF what \in Files
         THEN /\ what = request[c] /\ Holds(c)' = {}
              /\ \E f \in Fds : f \notin Disk /\ Disk' = Disk \cup {f}
         ELSE /\ Disk' = Disk /\ \A f, g \in Holds(c)' : f = g
              /\ Holds(c)' # {} => request[c] \notin {"bad", "post"}
  PROVE  PoliteInv'
<1>1. backlog = {} /\ mpc = "accept"
  BY BacklogPresent DEF Waiting, Serves
<1>2. CASE wsock[t] = Failed
  <2>1. On(wsock[t]) = Nobody
    BY <1>2, Names1 DEF On
  <2>2. ~alive' /\ answers' = answers
    BY <1>2, <2>1, Names1 DEF Answer
  <2> QED
    BY <1>2, <2>2 DEF PoliteInv, Polite, RightAnswers, RightFile
<1>3. CASE wsock[t] # Failed
  <2>1. alive' /\ answers' = [answers EXCEPT ![c] = Append(@, what)]
    BY <1>3 DEF Answer
  <2>2. answers'[c] = <<what>> /\ \A d \in Clients : d # c => answers'[d] = answers[d]
    <3>1. answers \in [Clients -> Seq(Files \cup {"400"})] /\ answers[c] = <<>>
      BY DEF Polite, Base, Types, Waiting
    <3>2. Append(<<>>, what) = <<what>>
      OBVIOUS
    <3> QED
      BY <2>1, <3>1, <3>2
  <2>3. /\ Len(answers'[c]) = 1 /\ answers'[c][1] = what /\ answers'[c] # <<>>
        /\ DOMAIN answers'[c] = {1}
    BY <2>2
  <2>4. RightAnswers'
    BY <2>2, <2>3 DEF RightAnswers, RightFile, Polite
  <2>5. PastInv'
    <3> SUFFICES ASSUME NEW d \in Clients
                 PROVE  (/\ answers[d] = <<>> => state[d] # "closed"
                         /\ answers[d] # <<>> =>
                              /\ state[d] \in {"sent", "closed"} /\ d \notin backlog
                              /\ Len(answers[d]) = 1
                              /\ answers[d][1] \in Files =>
                                   answers[d][1] = request[d] /\ Holds(d) = {}
                              /\ Holds(d) # {} => request[d] \notin {"bad", "post"}
                              /\ \A f, g \in Holds(d) : f = g
                         /\ state[d] = "off" => d \notin backlog /\ Holds(d) = {} /\ answers[d] = <<>>)'
      BY DEF PastInv
    <3>1. CASE d = c
      BY <1>1, <2>3, <3>1
    <3>2. CASE d # c
      BY <2>2, <3>2 DEF Polite, PastInv
    <3> QED
      BY <3>1, <3>2
  <2>6. TurnInv'
    <3>1. \A u \in Threads : tpc'[u] = "idle"
      BY DEF Serves, Answer, Goes, Polite, Base, Types
    <3>2. ~Busy'
      BY <1>1, <3>1 DEF Busy
    <3>3. \A d \in Clients : Present(d)' => d = c
      BY DEF Polite, TurnInv, Waiting, Present
    <3> QED
      BY <1>1, <2>3, <3>1, <3>2, <3>3 DEF TurnInv
  <2>7. LeakInv'
    <3>1. c \notin Served
      BY DEF Served, Waiting
    <3>2. Served' = IF what \in Files THEN Served \cup {c} ELSE Served
      BY <2>2, <2>3, <3>1 DEF Served
    <3>3. IsFiniteSet(Disk)
      BY WebAssumption, FS_Subset DEF Disk
    <3>4. CASE what \notin Files
      BY <3>2, <3>4 DEF LeakInv, Polite
    <3>5. CASE what \in Files
      <4>1. PICK f \in Fds : f \notin Disk /\ Disk' = Disk \cup {f}
        BY <3>5
      <4>2. Cardinality(Disk') = Cardinality(Disk) + 1
        BY <3>3, <4>1, FS_AddElement
      <4>3. IsFiniteSet(Served') /\ Cardinality(Served') = Cardinality(Served) + 1
        BY <3>1, <3>2, <3>5, FS_AddElement DEF LeakInv, Polite
      <4> QED
        BY <4>2, <4>3 DEF LeakInv, Polite
    <3> QED
      BY <3>4, <3>5
  <2> QED
    BY <2>1, <2>4, <2>5, <2>6, <2>7 DEF PoliteInv
<1> QED
  BY <1>2, <1>3

\* A thread that was started although accept had failed.
LEMMA DoomedStep ==
  ASSUME Polite, NEW t \in Threads, ThreadStep(t), polite' = polite,
         NEW c \in Clients, Waiting(c), c \in backlog, Doomed
  PROVE  PoliteInv'
<1>1. tpc[t] \in {"arg", "open"} /\ FreeFds = {}
  <2>1. tpc[t] # "idle"
    BY DEF ThreadStep, ReadArg, Open, FirstToken, NextToken, TypeStart, TypeRest, CloseRead,
           ReadLine, SendError, SendMissing, SendFile
  <2> QED
    BY <2>1 DEF Doomed, Busy
<1>2. /\ ReadArg(t) \/ Open(t)
      /\ UNCHANGED <<mpc, clnt_sock, clientVars, answers>>
  BY <1>1 DEF ThreadStep, ReadArg, Open, FirstToken, NextToken, TypeStart, TypeRest, CloseRead,
              ReadLine, SendError, SendMissing, SendFile
<1>3. RightAnswers'
  BY <1>2 DEF Polite, RightAnswers, RightFile, clientVars
<1>4. CASE Open(t)
  <2>1. tsock[t] = Failed /\ On(tsock[t]) = Nobody
    BY <1>4, Names1 DEF Open, Doomed, On
  <2>2. ~alive' /\ fdTab' = fdTab
    BY <1>4, <2>1 DEF Open, Crashes
  <2> QED
    BY <1>1, <1>3, <2>2 DEF PoliteInv, FreeFds
<1>5. CASE ReadArg(t)
  <2>1. /\ alive' /\ fdTab' = fdTab /\ Doomed' /\ Busy'
    <3>1. tpc[t] = "arg" /\ tpc' = [tpc EXCEPT ![t] = "open"] /\ tsock' = [tsock EXCEPT ![t] = Failed]
      BY <1>5 DEF ReadArg, Goes, Doomed
    <3>2. alive' /\ fdTab' = fdTab /\ FreeFds' = {}
      BY <1>1, <1>5 DEF ReadArg, Polite, FreeFds
    <3>3. tpc \in [Threads -> Phases] /\ tsock \in [Threads -> Fds \cup {Failed}]
      BY DEF Polite, Base, Types
    <3> QED
      BY <1>2, <3>1, <3>2, <3>3 DEF Doomed, Busy
  <2>2. PastInv' /\ LeakInv'
    BY <1>2, <2>1 DEF Polite, PastInv, LeakInv, Served, Holds, Disk, clientVars
  <2>3. TurnInv'
    <3>1. \A d \in Clients : Holds(d)' = Holds(d) /\ (Present(d)' <=> Present(d))
      BY <1>2, <2>1 DEF Holds, Present, clientVars
    <3>2. \A d \in Clients : Present(d) => d = c
      BY BacklogPresent
    <3>3. \A d \in backlog : Holds(d) = {} /\ d \in Clients
      BY DEF Polite, TurnInv, Base, Types
    <3>4. backlog' = backlog /\ answers' = answers
      BY <1>2 DEF clientVars
    <3> QED
      BY <2>1, <3>1, <3>2, <3>3, <3>4 DEF TurnInv, Waiting
  <2> QED
    BY <1>3, <2>1, <2>2, <2>3 DEF PoliteInv
<1> QED
  BY <1>2, <1>4, <1>5

\* The thread that serves c, up to its answer.
LEMMA ReadSteps ==
  ASSUME Polite, NEW t \in Threads, NEW c \in Clients, Waiting(c), c \notin backlog,
         Serves(t, c), polite' = polite,
         \/ /\ ReadArg(t) \/ Open(t) \/ FirstToken(t) \/ NextToken(t) \/ TypeStart(t)
               \/ TypeRest(t) \/ CloseRead(t)
            /\ UNCHANGED <<mpc, clnt_sock, clientVars, answers>>
         \/ ReadLine(t) /\ UNCHANGED <<mpc, clnt_sock, answers>>
  PROVE  PoliteInv'
<1> DEFINE Same == UNCHANGED <<mpc, clnt_sock, clientVars, answers>>
           Idle == \A u \in Threads : u # t => tpc'[u] = "idle"
<1>t. Types
  BY DEF Polite, Base
<1>a. ASSUME NEW p, Goes(t, p), p \in Phases
      PROVE  tpc'[t] = p /\ \A u \in Threads : u # t => tpc'[u] = "idle"
  BY <1>t, <1>a DEF Goes, Types, Serves
<1>b. mpc = "accept" /\ alive
  BY DEF Serves, Polite
<1>c. ASSUME fdTab' = fdTab
      PROVE  /\ \A d \in Clients : Holds(d)' = Holds(d)
             /\ Disk' = Disk /\ FreeFds' = FreeFds
  BY <1>c DEF Holds, Disk, FreeFds
<1>1. CASE ReadArg(t) /\ Same
  <2>1. tpc[t] = "arg" /\ tpc'[t] = "open" /\ Idle /\ tsock'[t] = clnt_sock /\ fdTab' = fdTab
    BY <1>1, <1>t, <1>a DEF ReadArg, Types, Phases
  <2>2. Serves(t, c)'
    BY <1>1, <1>b, <1>c, <2>1 DEF Serves
  <2> QED
    BY <1>1, <1>c, <2>1, <2>2, WorkStep DEF ReadArg, clientVars
<1>2. CASE Open(t) /\ Same
  <2>1. tpc[t] = "open" /\ tsock[t] \in Fds /\ Holds(c) = {tsock[t]} /\ On(tsock[t]) = c
    BY <1>2 DEF Open, Serves, On, Holds
  <2>2. PICK f \in Fds \cup {Failed} : Opened(f, c) /\ wsock' = [wsock EXCEPT ![t] = f]
    BY <1>2, <2>1, Names1 DEF Open
  <2>3. tpc'[t] = "read" /\ Idle /\ wsock'[t] = f /\ UNCHANGED <<tsock, line, name, tok, alive>>
    BY <1>2, <1>t, <1>a, <2>1, <2>2, Names1 DEF Open, Types, Phases
  <2>4. /\ Holds(c)' = {tsock[t], f} \cap Fds /\ f # tsock[t]
        /\ f = Failed => FreeFds' = {}
        /\ \A d \in Clients : d # c => Holds(d)' = Holds(d)
        /\ Disk' = Disk
    <3>1. CASE FreeFds = {}
      BY <1>c, <2>1, <2>2, <3>1, Names1 DEF Opened
    <3>2. CASE FreeFds # {}
      <4>1. f \in FreeFds /\ fdTab' = [fdTab EXCEPT ![f] = c]
        BY <2>2, <3>2 DEF Opened
      <4>2. /\ f \in Fds /\ Holds(c)' = Holds(c) \cup {f} /\ f \notin Holds(c)
            /\ \A d \in Clients : d # c => Holds(d)' = Holds(d)
            /\ Disk' = Disk
        BY <1>t, <4>1, OpenedFacts
      <4> QED
        BY <2>1, <4>2, Names1
    <3> QED
      BY <3>1, <3>2
  <2>5. Serves(t, c)'
    BY <1>2, <1>b, <2>1, <2>3, <2>4 DEF Serves
  <2> QED
    BY <1>2, <2>3, <2>4, <2>5, WorkStep DEF clientVars
<1>3. CASE ReadLine(t) /\ UNCHANGED <<mpc, clnt_sock, answers>>
  <2>1. tpc[t] = "read" /\ On(tsock[t]) = c
    BY <1>3 DEF ReadLine, Serves, On, Holds
  <2>2. state[c] # "closed"
    BY DEF Waiting, Present
  <2>3. /\ unread[c] /\ line' = [line EXCEPT ![t] = request[c]]
        /\ Goes(t, IF request[c] = "bad" THEN "error" ELSE "method")
        /\ UNCHANGED <<alive, tsock, wsock, name, tok, fdTab, backlog, state, request>>
    BY <1>3, <2>1, <2>2 DEF ReadLine
  <2>4. state[c] = "sent"
    BY <2>3 DEF Polite, Base, OneRequest, Waiting, Present
  <2>5. /\ line'[t] = request[c] /\ Idle
        /\ tpc'[t] = IF request[c] = "bad" THEN "error" ELSE "method"
    BY <1>t, <1>a, <2>3 DEF Types, Phases
  <2>6. Serves(t, c)'
    BY <1>3, <1>b, <1>c, <2>1, <2>3, <2>4, <2>5 DEF Serves
  <2> QED
    BY <1>3, <1>c, <2>3, <2>5, <2>6, WorkStep
<1>4. CASE FirstToken(t) /\ Same
  <2>1. /\ tpc[t] = "method" /\ tpc'[t] = "name" /\ Idle
        /\ tok' = Rest(line[t])
        /\ UNCHANGED <<alive, tsock, wsock, line, name, fdTab>>
    BY <1>4, <1>a DEF FirstToken, Phases
  <2>2. Serves(t, c)'
    BY <1>4, <1>b, <1>c, <2>1 DEF Serves, NameOf, clientVars
  <2> QED
    BY <1>4, <1>c, <2>1, <2>2, WorkStep DEF clientVars
<1>5. CASE NextToken(t) /\ Same
  <2>1. /\ tpc[t] = "name" /\ tok = Rest(line[t]) /\ state[c] = "sent" /\ line[t] = request[c]
    BY <1>5 DEF NextToken, Serves
  <2>2. CASE line[t] = "short"
    <3>1. ~alive'
      BY <1>5, <2>1, <2>2, RestIs DEF NextToken, Crashes
    <3> QED
      BY <1>5, <2>1, <2>2, <3>1, CrashStep DEF clientVars, Deadly
  <2>3. CASE line[t] # "short"
    <3>1. tok # <<>> /\ Head(tok) = NameOf(line[t])
      BY <2>1, <2>3, RestIs
    <3>2. /\ tpc'[t] = "type" /\ Idle /\ name'[t] = NameOf(line[t])
          /\ UNCHANGED <<alive, tsock, wsock, line, fdTab>>
      BY <1>5, <1>t, <1>a, <3>1 DEF NextToken, Types, Phases
    <3>3. Serves(t, c)'
      BY <1>5, <1>b, <1>c, <2>1, <2>3, <3>2 DEF Serves, NameOf, clientVars
    <3> QED
      BY <1>5, <1>c, <3>2, <3>3, WorkStep DEF clientVars
  <2> QED
    BY <2>2, <2>3
<1>6. CASE TypeStart(t) /\ Same
  <2>1. tpc[t] = "type" /\ name[t] = NameOf(line[t]) /\ (name[t] = Junk <=> line[t] = "nodot")
    <3>1. tpc[t] = "type" /\ name[t] = NameOf(line[t])
      BY <1>6 DEF TypeStart, Serves
    <3>2. NameOf(line[t]) = Junk <=> line[t] = "nodot"
      BY Names1 DEF NameOf, Junk
    <3> QED
      BY <3>1, <3>2
  <2>2. /\ tpc'[t] = "ext" /\ Idle /\ tok' = (IF line[t] = "nodot" THEN <<>> ELSE <<Junk>>)
        /\ UNCHANGED <<alive, tsock, wsock, line, name, fdTab>>
    BY <1>6, <1>a, <2>1 DEF TypeStart, Phases
  <2>3. Serves(t, c)'
    BY <1>6, <1>b, <1>c, <2>1, <2>2 DEF Serves, NameOf, clientVars
  <2> QED
    BY <1>6, <1>c, <2>2, <2>3, WorkStep DEF clientVars
<1>7. CASE TypeRest(t) /\ Same
  <2>1. /\ tpc[t] = "ext" /\ tok = IF line[t] = "nodot" THEN <<>> ELSE <<Junk>>
        /\ line[t] # "short" /\ state[c] = "sent" /\ line[t] = request[c]
    BY <1>7 DEF TypeRest, Serves
  <2>2. CASE line[t] = "nodot"
    <3>1. ~alive'
      BY <1>7, <2>1, <2>2 DEF TypeRest, Crashes
    <3> QED
      BY <1>7, <2>1, <2>2, <3>1, CrashStep DEF clientVars, Deadly
  <2>3. CASE line[t] # "nodot"
    <3>1. tok # <<>>
      BY <2>1, <2>3
    <3>2. /\ tpc'[t] = (IF line[t] # "post" THEN "close" ELSE "error") /\ Idle
          /\ UNCHANGED <<alive, tsock, wsock, line, name, fdTab>>
      BY <1>7, <1>a, <2>1, <3>1 DEF TypeRest, Phases, IsGet
    <3>3. Serves(t, c)'
      BY <1>7, <1>b, <1>c, <2>1, <2>3, <3>2 DEF Serves, NameOf, Deadly, clientVars
    <3> QED
      BY <1>7, <1>c, <3>2, <3>3, WorkStep DEF clientVars
  <2> QED
    BY <2>2, <2>3
<1>8. CASE CloseRead(t) /\ Same
  <2>1. /\ tpc[t] = "close" /\ tpc'[t] = "file" /\ Idle /\ Closed({tsock[t]})
        /\ UNCHANGED <<alive, tsock, wsock, line, name, tok>>
    BY <1>8, <1>a DEF CloseRead, Phases
  <2>2. /\ tsock[t] \in Fds /\ wsock[t] # tsock[t] /\ Holds(c) = {tsock[t], wsock[t]} \cap Fds
        /\ wsock[t] = Failed => FreeFds = {}
    BY <2>1 DEF Serves
  <2>3. /\ \A d \in Clients : Holds(d)' = Holds(d) \ {tsock[t]}
        /\ Disk' = Disk \ {tsock[t]} /\ FreeFds' = FreeFds \cup {tsock[t]}
    BY <1>t, <2>1, <2>2, ClosedFacts
  <2>4. /\ \A d \in Clients : d # c => tsock[t] \notin Holds(d)
        /\ tsock[t] \notin Disk
    BY <2>2, Names1 DEF Holds, Disk
  <2>5. Serves(t, c)'
    BY <1>8, <1>b, <2>1, <2>2, <2>3 DEF Serves, NameOf, clientVars
  <2> QED
    BY <1>8, <2>1, <2>3, <2>4, <2>5, WorkStep DEF clientVars
<1> QED
  BY <1>1, <1>2, <1>3, <1>4, <1>5, <1>6, <1>7, <1>8

\* The thread that serves c answers.
LEMMA EndSteps ==
  ASSUME Polite, NEW t \in Threads, NEW c \in Clients, Waiting(c), c \notin backlog,
         Serves(t, c), polite' = polite,
         SendError(t) \/ SendMissing(t) \/ SendFile(t),
         UNCHANGED <<mpc, clnt_sock, clientVars>>
  PROVE  PoliteInv'
<1>t. Types
  BY DEF Polite, Base
<1>1. CASE SendError(t)
  <2>1. /\ tpc[t] = "error" /\ Answer(t, "400") /\ Closed({tsock[t], wsock[t]})
    BY <1>1 DEF SendError, BothStreams
  <2>2. /\ tsock[t] \in Fds /\ wsock[t] # tsock[t] /\ Holds(c) = {tsock[t], wsock[t]} \cap Fds
        /\ wsock[t] = Failed => FreeFds = {}
        /\ state[c] = "sent" /\ wsock[t] \in Fds \cup {Failed} /\ request[c] \notin Deadly
    BY <1>t, <2>1 DEF Serves, Types, Deadly
  <2>3. /\ \A d \in Clients : Holds(d)' = Holds(d) \ {tsock[t], wsock[t]}
        /\ Disk' = Disk \ {tsock[t], wsock[t]}
        /\ FreeFds' = FreeFds \cup ({tsock[t], wsock[t]} \cap Fds)
    BY <1>t, <2>1, ClosedFacts
  <2>4. /\ \A d \in Clients : d # c => Holds(d)' = Holds(d)
        /\ Disk' = Disk /\ Holds(c)' = {}
    <3>1. ASSUME NEW g \in {tsock[t], wsock[t]} \cap Fds PROVE fdTab[g] = c
      BY <2>2 DEF Holds
    <3>2. /\ \A d \in Clients : d # c => Holds(d) \cap {tsock[t], wsock[t]} = {}
          /\ Disk \cap {tsock[t], wsock[t]} = {}
      BY <3>1, Names1 DEF Holds, Disk
    <3> QED
      BY <2>2, <2>3, <3>2
  <2>5. wsock[t] # Failed => On(wsock[t]) = c
    BY <2>2 DEF On, Holds
  <2>6. wsock[t] = Failed => \A f, g \in FreeFds' : f = g
    BY <2>2, <2>3, Names1
  <2> QED
    BY <2>1, <2>2, <2>4, <2>5, <2>6, Names1, AnswerStep DEF clientVars
<1>2. ASSUME tpc[t] = "file"
      PROVE  /\ Holds(c) = {wsock[t]} \cap Fds /\ tsock[t] \in FreeFds
             /\ wsock[t] = Failed => FreeFds = {tsock[t]}
             /\ state[c] = "sent" /\ request[c] \notin {"bad", "post"} \cup Deadly
             /\ name[t] = NameOf(request[c]) /\ wsock[t] \in Fds \cup {Failed}
             /\ wsock[t] # Failed => On(wsock[t]) = c
  BY <1>t, <1>2 DEF Serves, Types, On, Holds
<1>3. CASE SendMissing(t)
  <2>1. tpc[t] = "file" /\ Answer(t, "400") /\ fdTab' = fdTab
    BY <1>3 DEF SendMissing
  <2>2. /\ \A d \in Clients : Holds(d)' = Holds(d)
        /\ Disk' = Disk /\ FreeFds' = FreeFds
    BY <2>1 DEF Holds, Disk, FreeFds
  <2>3. wsock[t] = Failed => \A f, g \in FreeFds' : f = g
    BY <1>2, <2>1, <2>2
  <2>4. \A f, g \in Holds(c)' : f = g
    BY <1>2, <2>1, <2>2
  <2>5. request[c] \notin {"bad", "post"}
    BY <1>2, <2>1
  <2> QED
    BY <1>2, <2>1, <2>2, <2>3, <2>4, <2>5, Names1, AnswerStep DEF clientVars
<1>4. CASE SendFile(t)
  <2>1. /\ tpc[t] = "file" /\ name[t] \in Files /\ Answer(t, name[t])
        /\ \E f \in FreeFds :
              fdTab' = [g \in Fds |-> CASE g = f -> OnDisk
                                       [] g # f /\ g = wsock[t] -> Nobody
                                       [] OTHER -> fdTab[g]]
    BY <1>4 DEF SendFile
  <2>2. PICK f \in FreeFds :
              fdTab' = [g \in Fds |-> CASE g = f -> OnDisk
                                       [] g # f /\ g = wsock[t] -> Nobody
                                       [] OTHER -> fdTab[g]]
    BY <2>1
  <2>3. f \in Fds /\ fdTab[f] = Nobody /\ f \notin Disk
    BY <2>2 DEF FreeFds, Disk, Nobody, OnDisk
  <2>4. wsock[t] \in Fds => fdTab[wsock[t]] = c /\ wsock[t] # f
    <3>1. wsock[t] \in Fds => fdTab[wsock[t]] = c
      BY <1>2, <2>1 DEF Holds
    <3> QED
      BY <2>3, <3>1, Names1
  <2>5. \A g \in Fds : fdTab'[g] = IF g = f THEN OnDisk ELSE IF g = wsock[t] THEN Nobody ELSE fdTab[g]
    BY <2>2
  <2>6. /\ \A d \in Clients : d # c => Holds(d)' = Holds(d)
        /\ Holds(c)' = {} /\ Disk' = Disk \cup {f}
    <3>1. \A d \in Clients : d # c => Holds(d)' = Holds(d)
      BY <2>3, <2>4, <2>5, Names1 DEF Holds
    <3>2. Holds(c)' = {}
      BY <1>2, <2>1, <2>3, <2>4, <2>5, Names1 DEF Holds
    <3>3. Disk' = Disk \cup {f}
      BY <2>3, <2>4, <2>5, Names1 DEF Disk, Nobody, OnDisk
    <3> QED
      BY <3>1, <3>2, <3>3
  <2>7. wsock[t] = Failed => \A g, h \in FreeFds' : g = h
    <3>1. ASSUME wsock[t] = Failed, NEW g \in FreeFds' PROVE g \in FreeFds /\ g # f
      BY <2>5, <3>1, Names1 DEF FreeFds, Nobody, OnDisk
    <3> QED
      BY <1>2, <2>1, <2>2, <3>1
  <2>8. name[t] = request[c]
    BY <1>2, <2>1, Names1 DEF NameOf
  <2>9. \E h \in Fds : h \notin Disk /\ Disk' = Disk \cup {h}
    BY <2>3, <2>6
  <2> DEFINE what == name[t]
  <2>10. what \in Files \cup {"400"} /\ Answer(t, what) /\ what \in Files /\ what = request[c]
    BY <2>1, <2>8
  <2> HIDE DEF what
  <2> QED
    BY <1>2, <2>1, <2>6, <2>7, <2>9, <2>10, AnswerStep DEF clientVars
<1> QED
  BY <1>1, <1>3, <1>4

\* main accepts the client that waits, or finds no descriptor for it.
LEMMA AcceptStep ==
  ASSUME Polite, NEW c \in Clients, Accept(c), polite' = polite
  PROVE  PoliteInv'
<1>1. /\ c \in backlog /\ mpc' = "create" /\ alive
      /\ UNCHANGED <<alive, tpc, tsock, wsock, line, name, tok, state, request, unread, answers>>
  BY DEF Accept, threadVars, Polite
<1>2. Waiting(c) /\ (\A d \in Clients : Present(d) => d = c) /\ backlog = {c}
  BY <1>1, BacklogPresent DEF Waiting
<1>3. Holds(c) = {} /\ Doomed /\ PastInv /\ LeakInv /\ Types
  BY <1>1 DEF Polite, TurnInv, Base
<1>4. Busy' /\ Present(c)' /\ answers'[c] = <<>> /\ \A d \in Clients : Present(d)' => d = c
  BY <1>1, <1>2 DEF Busy, Waiting, Present
<1>5. RightAnswers'
  BY <1>1 DEF Polite, RightAnswers, RightFile
<1>6. PICK f \in Fds \cup {Failed} :
        /\ Opened(f, c) /\ clnt_sock' = f
        /\ backlog' = IF f = Failed THEN backlog ELSE backlog \ {c}
  BY DEF Accept
<1>7. CASE FreeFds = {}
  <2>1. f = Failed /\ fdTab' = fdTab /\ backlog' = backlog /\ clnt_sock' = Failed
    BY <1>6, <1>7 DEF Opened
  <2>2. \A d \in Clients : Holds(d)' = Holds(d)
    BY <2>1 DEF Holds
  <2>3. PastInv' /\ LeakInv'
    BY <1>1, <1>3, <2>1, <2>2 DEF PastInv, LeakInv, Disk, Served
  <2>4. FreeFds' = {}
    BY <1>7, <2>1 DEF FreeFds
  <2>5. Doomed'
    BY <1>1, <1>3, <2>1, <2>4 DEF Doomed
  <2>6. TurnInv'
    BY <1>1, <1>2, <1>3, <1>4, <2>1, <2>2, <2>5 DEF TurnInv
  <2> QED
    BY <1>1, <1>5, <2>3, <2>6 DEF PoliteInv
<1>8. CASE FreeFds # {}
  <2>1. f \in FreeFds /\ f \in Fds /\ f # Failed /\ fdTab' = [fdTab EXCEPT ![f] = c]
    BY <1>6, <1>8, Names1 DEF Opened, FreeFds
  <2>2. /\ Holds(c)' = {f} /\ \A d \in Clients : d # c => Holds(d)' = Holds(d)
        /\ Disk' = Disk
    <3>1. /\ Holds(c)' = Holds(c) \cup {f} /\ \A d \in Clients : d # c => Holds(d)' = Holds(d)
          /\ Disk' = Disk
      BY <1>3, <2>1, OpenedFacts
    <3> QED
      BY <1>3, <3>1
  <2>3. backlog' = {} /\ clnt_sock' = f
    BY <1>2, <1>6, <2>1
  <2>4. \A t \in Threads : tpc'[t] = "idle"
    BY <1>1, <1>3, <1>8 DEF Doomed, Busy
  <2>5. PastInv' /\ LeakInv'
    <3>1. PastInv'
      BY <1>1, <1>2, <1>3, <2>2, <2>3 DEF PastInv, Waiting, Present
    <3> QED
      BY <1>1, <1>3, <2>2, <3>1 DEF LeakInv, Served
  <2>6. TurnInv'
    BY <1>1, <1>4, <2>1, <2>2, <2>3, <2>4 DEF TurnInv
  <2> QED
    BY <1>1, <1>5, <2>5, <2>6 DEF PoliteInv
<1> QED
  BY <1>7, <1>8

LEMMA CreateStep ==
  ASSUME Polite, NEW t \in Threads, CreateThread(t), polite' = polite
  PROVE  PoliteInv'
<1>1. /\ mpc = "create" /\ mpc' = "accept" /\ alive /\ tpc[t] = "idle"
      /\ tpc'[t] = "arg" /\ \A u \in Threads : u # t => tpc'[u] = tpc[u]
      /\ UNCHANGED <<alive, clnt_sock, tsock, wsock, line, name, tok, fdTab, backlog, state,
                     request, unread, answers>>
  BY DEF CreateThread, clientVars, Polite, Base, Types
<1>2. PastInv /\ TurnInv /\ LeakInv /\ Busy
  BY <1>1 DEF Polite, Busy
<1>3. /\ \A d \in Clients : Holds(d)' = Holds(d) /\ (Present(d)' <=> Present(d))
      /\ Disk' = Disk /\ FreeFds' = FreeFds
  BY <1>1 DEF Holds, Disk, FreeFds, Present
<1>4. RightAnswers' /\ PastInv' /\ LeakInv'
  BY <1>1, <1>2, <1>3 DEF Polite, RightAnswers, RightFile, PastInv, LeakInv, Served
<1>5. PICK c \in Clients : Present(c) /\ answers[c] = <<>>
  BY <1>2 DEF TurnInv
<1>6. /\ \A d \in Clients : Present(d)' => d = c
      /\ Present(c)' /\ answers'[c] = <<>> /\ Busy'
  BY <1>1, <1>2, <1>3, <1>5 DEF TurnInv, Busy
<1>7. CASE c \in backlog
  <2>1. Doomed /\ FreeFds = {}
    BY <1>2, <1>7 DEF TurnInv, Doomed
  <2>2. Doomed'
    BY <1>1, <1>3, <2>1 DEF Doomed
  <2>3. TurnInv'
    <3>1. \A d \in backlog : Holds(d)' = {}
      BY <1>2, <1>3 DEF TurnInv, Polite, Base, Types
    <3> QED
      BY <1>1, <1>6, <1>7, <2>2, <3>1 DEF TurnInv
  <2> QED
    BY <1>1, <1>4, <2>3 DEF PoliteInv
<1>8. CASE c \notin backlog
  <2>1. backlog = {}
    BY <1>2, <1>5, <1>8, BacklogPresent DEF Waiting, TurnInv
  <2>2. clnt_sock \in Fds /\ Holds(c) = {clnt_sock} /\ \A u \in Threads : tpc[u] = "idle"
    BY <1>1, <1>2, <1>5, <1>8 DEF TurnInv
  <2>3. Serves(t, c)' /\ \A u \in Threads : tpc'[u] # "idle" => u = t
    BY <1>1, <1>3, <2>2 DEF Serves
  <2>4. TurnInv'
    BY <1>1, <1>6, <2>1, <2>3 DEF TurnInv
  <2> QED
    BY <1>1, <1>4, <2>4 DEF PoliteInv
<1> QED
  BY <1>7, <1>8

LEMMA ClientSteps ==
  ASSUME Polite, NEW c \in Clients, ClientStep(c), polite' = polite
  PROVE  PoliteInv'
<1>1. /\ UNCHANGED <<alive, mpc, clnt_sock, tpc, tsock, wsock, line, name, tok, fdTab, answers>>
      /\ alive /\ polite /\ PastInv /\ TurnInv /\ LeakInv /\ RightAnswers /\ Types
      /\ \A d \in Clients : d # c => state'[d] = state[d] /\ request'[d] = request[d]
  BY DEF ClientStep, Connect, Send, Close, threadVars, Polite, Base, Types
<1>2. /\ \A d \in Clients : Holds(d)' = Holds(d)
      /\ Disk' = Disk /\ FreeFds' = FreeFds /\ (Busy' <=> Busy) /\ LeakInv'
      /\ (Doomed' <=> Doomed)
  BY <1>1 DEF Holds, Disk, FreeFds, Busy, LeakInv, Served, Doomed
<1>3. /\ \A d \in backlog : d \in Clients /\ Present(d) /\ answers[d] = <<>>
      /\ \A d \in Clients : Present(d) /\ d # c => Present(d)'
      /\ \A d \in Clients : Present(d)' /\ d # c => Present(d)
  BY <1>1, BacklogPresent DEF Present, Waiting
<1>4. CASE Connect(c)
  <2>1. /\ state[c] = "off" /\ state'[c] = "connected" /\ ~Busy /\ request' = request
        /\ \A d \in Clients : ~Present(d)
        /\ backlog' = {c}
    BY <1>1, <1>3, <1>4 DEF Connect, Present, Types
  <2>2. RightAnswers' /\ PastInv'
    BY <1>1, <1>2, <1>3, <2>1 DEF RightAnswers, RightFile, PastInv, Present
  <2>3. Doomed
    <3>1. \A t \in Threads : tpc[t] = "idle"
      BY <2>1 DEF Busy
    <3>2. mpc # "create"
      BY <2>1 DEF Busy
    <3> QED
      BY <2>1, <3>1, <3>2 DEF Doomed
  <2>4. TurnInv'
    <3>1. Holds(c)' = {}
      BY <1>1, <1>2, <2>1 DEF PastInv
    <3> QED
      BY <1>1, <1>2, <1>3, <2>1, <2>3, <3>1 DEF TurnInv
  <2> QED
    BY <1>1, <1>2, <2>2, <2>4 DEF PoliteInv
<1>5. CASE Send(c)
  <2>1. /\ state[c] = "connected" /\ state'[c] = "sent" /\ backlog' = backlog
        /\ Present(c) /\ Present(c)' /\ answers[c] = <<>>
    BY <1>1, <1>5 DEF Send, Present, Types, PastInv
  <2>2. RightAnswers'
    BY <1>1, <2>1 DEF RightAnswers, RightFile
  <2>3. PastInv'
    BY <1>1, <1>2, <2>1 DEF PastInv
  <2>4. TurnInv'
    <3>1. \A d \in Clients : Present(d)' => d = c
      BY <1>1, <1>3, <2>1 DEF TurnInv
    <3>2. ASSUME NEW t \in Threads, Serves(t, c) PROVE Serves(t, c)'
      BY <1>1, <1>2, <2>1, <3>2 DEF Serves
    <3>3. \A d \in backlog : Holds(d)' = {} /\ Doomed'
      BY <1>1, <1>2, <1>3 DEF TurnInv
    <3>4. c \notin backlog =>
            /\ Busy
            /\ mpc = "create" => /\ clnt_sock \in Fds /\ Holds(c) = {clnt_sock}
                                 /\ \A t \in Threads : tpc[t] = "idle"
            /\ \A t \in Threads : tpc[t] # "idle" => Serves(t, c)'
      BY <1>1, <2>1, <3>2 DEF TurnInv
    <3> QED
      BY <1>1, <1>2, <2>1, <3>1, <3>3, <3>4 DEF TurnInv
  <2> QED
    BY <1>1, <1>2, <2>2, <2>3, <2>4 DEF PoliteInv
<1>6. CASE Close(c)
  <2>1. /\ Present(c) /\ state'[c] = "closed" /\ UNCHANGED <<backlog, request>>
        /\ answers[c] # <<>>
    BY <1>1, <1>6 DEF Close, Present, Types
  <2>2. \A d \in Clients : ~Present(d)'
    BY <1>1, <1>3, <2>1 DEF TurnInv, Present
  <2>3. ~Busy /\ backlog = {}
    BY <1>1, <1>3, <2>1 DEF TurnInv
  <2>4. RightAnswers' /\ PastInv'
    BY <1>1, <1>2, <1>3, <2>1 DEF RightAnswers, RightFile, PastInv
  <2>5. TurnInv'
    BY <1>1, <1>2, <2>1, <2>2, <2>3 DEF TurnInv
  <2> QED
    BY <1>1, <1>2, <2>4, <2>5 DEF PoliteInv
<1> QED
  BY <1>4, <1>5, <1>6 DEF ClientStep

LEMMA InitPolite == Init => PoliteInv
<1> SUFFICES ASSUME Init PROVE PoliteInv
  OBVIOUS
<1>1. \A c \in Clients : answers[c] = <<>> /\ state[c] = "off" /\ c \notin backlog
  BY DEF Init
<1>2. (\A c \in Clients : Holds(c) = {}) /\ Disk = {} /\ ~Busy /\ alive
  BY Names1 DEF Init, Holds, Disk, Busy, Nobody, OnDisk
<1>3. RightAnswers
  BY <1>1 DEF RightAnswers, RightFile
<1>4. PastInv
  BY <1>1, <1>2 DEF PastInv
<1>5. TurnInv
  BY <1>1, <1>2 DEF TurnInv, Present, Init
<1>6. LeakInv
  <2>1. Served = {}
    BY <1>1 DEF Served
  <2> QED
    BY <1>2, <2>1, FS_EmptySet DEF LeakInv
<1> QED
  BY <1>2, <1>3, <1>4, <1>5, <1>6 DEF PoliteInv

LEMMA StepPolite == ASSUME Base, PoliteInv, [Next]_vars PROVE PoliteInv'
<1>0. CASE UNCHANGED vars
  <2>1. /\ UNCHANGED <<polite, alive, state, request>>
        /\ (RightAnswers' <=> RightAnswers) /\ (PastInv' <=> PastInv) /\ (LeakInv' <=> LeakInv)
        /\ FreeFds' = FreeFds
    BY <1>0 DEF vars, threadVars, clientVars, RightAnswers, RightFile, PastInv, LeakInv, FreeFds, Disk, Served, Holds
  <2>2. TurnInv' <=> TurnInv
    BY <1>0 DEF vars, threadVars, clientVars, TurnInv, Present, Busy, Doomed, Serves, Holds, FreeFds,
                NameOf
  <2> QED
    BY <2>1, <2>2 DEF PoliteInv
<1>1. CASE ~polite /\ Next
  BY <1>1 DEF Next, PoliteInv
<1>2. CASE polite /\ Next
  <2>1. Polite /\ polite' = polite
    BY <1>2 DEF Next, PoliteInv, Polite
  <2>2. ASSUME NEW t \in Threads, ThreadStep(t) PROVE PoliteInv'
    <3>1. tpc[t] # "idle"
      BY <2>2 DEF ThreadStep, ReadArg, Open, FirstToken, NextToken, TypeStart, TypeRest, CloseRead,
             ReadLine, SendError, SendMissing, SendFile
    <3>2. PICK c \in Clients : /\ Waiting(c)
                               /\ (c \in backlog /\ Doomed) \/ (c \notin backlog /\ Serves(t, c))
      BY <2>1, <3>1, TurnOf
    <3>3. CASE c \in backlog /\ Doomed
      BY <2>1, <2>2, <3>2, <3>3, DoomedStep
    <3>4. CASE c \notin backlog /\ Serves(t, c)
      <4>1. CASE /\ SendError(t) \/ SendMissing(t) \/ SendFile(t)
                 /\ UNCHANGED <<mpc, clnt_sock, clientVars>>
        BY <2>1, <3>2, <3>4, <4>1, EndSteps
      <4>2. CASE \/ /\ \/ ReadArg(t) \/ Open(t) \/ FirstToken(t) \/ NextToken(t)
                       \/ TypeStart(t) \/ TypeRest(t) \/ CloseRead(t)
                    /\ UNCHANGED <<mpc, clnt_sock, clientVars, answers>>
                 \/ ReadLine(t) /\ UNCHANGED <<mpc, clnt_sock, answers>>
        BY <2>1, <3>2, <3>4, <4>2, ReadSteps
      <4> QED
        BY <2>2, <4>1, <4>2 DEF ThreadStep
    <3> QED
      BY <3>2, <3>3, <3>4
  <2> QED
    BY <1>2, <2>1, <2>2, AcceptStep, CreateStep, ClientSteps DEF Next, MainStep
<1> QED
  BY <1>0, <1>1, <1>2

LEMMA Invariance == Spec => [](Base /\ AskedInv /\ PoliteInv)
<1>1. Init => Base /\ AskedInv /\ PoliteInv
  BY InitBase, InitAsked, InitPolite
<1>2. Base /\ AskedInv /\ PoliteInv /\ [Next]_vars => (Base /\ AskedInv /\ PoliteInv)'
  BY StepBase, StepAsked, StepPolite
<1> QED
  BY <1>1, <1>2, PTL DEF Spec

\* Threads that share strtok and descriptors in a crowd may mix up everything,
\* but what is sent as a file was asked for; and while the clients come one
\* after the other each file goes to the client that asked for it.
THEOREM FilesGoToWhoAsked == Spec => []RightFileAlone
<1>1. ASSUME Base, AskedInv, PoliteInv PROVE RightFileAlone
  <2>1. SomebodyAsked
    <3> SUFFICES ASSUME NEW c \in Clients, NEW j \in DOMAIN answers[c], answers[c][j] \in Files
                 PROVE  \E d \in Clients : request[d] = answers[c][j]
      BY DEF SomebodyAsked
    <3>1. answers[c] \in Seq(Files \cup {"400"})
      BY <1>1 DEF Base, Types
    <3>2. j \in 1..Len(answers[c])
      BY <3>1
    <3> QED
      BY <1>1, <3>2 DEF AskedInv, Asked
  <2> QED
    BY <1>1, <2>1 DEF PoliteInv, RightAnswers, RightFileAlone
<1> QED
  BY <1>1, Invariance, PTL

\* A descriptor that is in use is a file or some client's.
LEMMA InUse ==
  ASSUME Types
  PROVE  Fds \ FreeFds = Disk \cup {f \in Fds : fdTab[f] \in Clients}
BY Names1 DEF Types, FreeFds, Disk, Nobody, OnDisk

\* Between two clients each connection that is still open is another client's.
LEMMA OneEach ==
  ASSUME Types, \A c \in Clients : \A f, g \in Holds(c) : f = g
  PROVE  /\ IsFiniteSet({c \in Clients : HasOpen(c)})
         /\ Cardinality({f \in Fds : fdTab[f] \in Clients}) =
              Cardinality({c \in Clients : HasOpen(c)})
<1> DEFINE F == {f \in Fds : fdTab[f] \in Clients}
           C == {c \in Clients : HasOpen(c)}
           h == [f \in F |-> fdTab[f]]
<1>1. h \in [F -> C]
  BY DEF HasOpen
<1>2. \A f, g \in F : h[f] = h[g] => f = g
  BY DEF Holds
<1>3. \A c \in C : \E f \in F : h[f] = c
  BY DEF HasOpen
<1>4. IsFiniteSet(F)
  BY WebAssumption, FS_Subset
<1>5. ExistsBijection(F, C)
  <2>1. h \in Bijection(F, C)
    BY <1>1, <1>2, <1>3 DEF Bijection, Injection, Surjection, IsInjective
  <2> QED
    BY <2>1 DEF ExistsBijection
<1> QED
  BY <1>4, <1>5, FS_Bijection

\* With one client after the other every request leaks one descriptor at most,
\* the file or the connection, and the server crashes only once the leaks have
\* used up all descriptors but one, or because of the request that it handles.
THEOREM EachRequestLeaksOne == Spec => []OneLeakPerRequest
<1>1. ASSUME Base, PoliteInv PROVE OneLeakPerRequest
  <2> SUFFICES ASSUME polite PROVE
        /\ alive /\ BetweenClients =>
             /\ Cardinality(Fds \ FreeFds) = Cardinality(Leaks)
             /\ \A c \in Clients : HasOpen(c) => request[c] \notin {"bad", "post"}
        /\ \A c \in Clients : answers[c] # <<>> => request[c] \notin Deadly
        /\ ~alive => \/ Cardinality(FreeFds) <= 1
                     \/ \E c \in Clients : state[c] = "sent" /\ request[c] \in Deadly
    BY DEF OneLeakPerRequest
  <2> DEFINE F == {f \in Fds : fdTab[f] \in Clients}
             C == {c \in Clients : HasOpen(c)}
  <2>1. Types
    BY <1>1 DEF Base
  <2>2. ASSUME alive, BetweenClients
        PROVE  /\ Cardinality(Fds \ FreeFds) = Cardinality(Leaks)
               /\ \A c \in Clients : HasOpen(c) => request[c] \notin {"bad", "post"}
    <3>1. PastInv /\ LeakInv
      BY <1>1, <2>2 DEF PoliteInv
    <3>2. /\ \A c \in Clients : \A f, g \in Holds(c) : f = g
          /\ \A c \in Clients : HasOpen(c) => request[c] \notin {"bad", "post"}
          /\ Served \cap C = {}
      <4>1. ASSUME NEW c \in Clients PROVE state[c] = "off" \/ answers[c] # <<>>
        BY <2>2, <3>1 DEF BetweenClients, PastInv
      <4>2. \A c \in Clients : HasOpen(c) <=> Holds(c) # {}
        BY DEF HasOpen, Holds
      <4> QED
        BY <3>1, <4>1, <4>2 DEF PastInv, Served
    <3>3. IsFiniteSet(C) /\ Cardinality(F) = Cardinality(C)
      BY <2>1, <3>2, OneEach
    <3>4. IsFiniteSet(Disk) /\ IsFiniteSet(F) /\ Disk \cap F = {}
      <4>1. IsFiniteSet(Disk)
        BY WebAssumption, FS_Subset DEF Disk
      <4>2. IsFiniteSet(F)
        BY WebAssumption, FS_Subset
      <4> QED
        BY <4>1, <4>2, Names1 DEF Disk
    <3>5. Fds \ FreeFds = Disk \cup F /\ Leaks = Served \cup C
      BY <2>1, InUse DEF Leaks, Served
    <3> HIDE DEF F, C
    <3>6. Cardinality({}) = 0
      BY FS_EmptySet
    <3>7. Cardinality(Disk \cup F) = Cardinality(Disk) + Cardinality(F) - 0
      BY <3>4, <3>6, FS_Union
    <3>8. Cardinality(Served \cup C) = Cardinality(Served) + Cardinality(C) - 0
      BY <3>1, <3>2, <3>3, <3>6, FS_Union DEF LeakInv
    <3> QED
      BY <3>1, <3>2, <3>3, <3>5, <3>7, <3>8 DEF LeakInv
  <2>3. ASSUME \A f, g \in FreeFds : f = g PROVE Cardinality(FreeFds) <= 1
    <3>1. \A f, g \in FreeFds : f = g
      BY <2>3
    <3>2. CASE FreeFds = {}
      BY <3>2, FS_EmptySet
    <3>3. CASE FreeFds # {}
      <4>1. PICK f \in FreeFds : FreeFds = {f}
        BY <3>1, <3>3
      <4>2. Cardinality({f}) = 1
        BY FS_Singleton
      <4> QED
        BY <4>1, <4>2
    <3> QED
      BY <3>2, <3>3
  <2> QED
    BY <1>1, <2>2, <2>3 DEF PoliteInv, RightAnswers
<1> QED
  BY <1>1, Invariance, PTL
=============================================================================
