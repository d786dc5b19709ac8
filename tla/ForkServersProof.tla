---------------------------- MODULE ForkServersProof ----------------------------
(***************************************************************************)
(* Proofs about ForkServer and StoreServer, for any number of clients and  *)
(* process slots and all sizes of buffers, reads and the pipe: descriptor  *)
(* ownership, the account of zombies, that the children together implement *)
(* EchoService, and that what was logged of every client is what it sent.  *)
(***************************************************************************)
EXTENDS StoreServer, FiniteSetTheorems, SequenceTheorems, TLAPS

\* The types of the variables of the server, and of the network and clients.
ProcTypes ==
  /\ mpc \in {"accept", "fork", "close"} /\ clnt_sock \in Clients \cup {Nobody}
  /\ mainHas \in SUBSET Clients
  /\ sigchld \in BOOLEAN /\ inHandler \in BOOLEAN /\ merged \in Nat
  /\ pstate \in [Procs -> {"none", "read", "write", "log", "exit", "zombie", "logger"}]
  /\ serves \in [Procs -> Clients \cup {Nobody}]
  /\ has \in [Procs -> SUBSET Clients] /\ buf \in [Procs -> Seq(Nat)]
NetTypes ==
  /\ conn \in [Clients -> {"pending", "up", "shut", "gone", "reset"}]
  /\ sent \in [Clients -> Nat] /\ got \in [Clients -> Nat]
  /\ echoed \in [Clients -> Seq(Nat)]
Types == ProcTypes /\ NetTypes

Serving(p) == pstate[p] \in {"read", "write", "log"}

\* The child at work has its connection, and nobody has one that was not
\* accepted.  The connection main has just accepted is in no child yet.
OwnInv ==
  /\ OnlyItsChild
  /\ \A p \in Procs :
       /\ Serving(p) => serves[p] \in has[p]
       /\ pstate[p] \in {"none", "zombie"} => has[p] = {}
       /\ \A c \in has[p] : conn[c] # "pending"
  /\ mpc = "fork" =>
       /\ mainHas = {clnt_sock} /\ conn[clnt_sock] # "pending"
       /\ \A p \in Procs : clnt_sock \notin has[p]

BaseInv == Types /\ OwnInv

LEMMA InitBase == Init => BaseInv
<1> SUFFICES ASSUME Init PROVE BaseInv
  OBVIOUS
<1> USE DEF Init, ForkInit
<1>1. ProcTypes
  <2>1. buf \in [Procs -> Seq(Nat)] /\ has \in [Procs -> SUBSET Clients]
    OBVIOUS
  <2> QED
    BY <2>1 DEF ProcTypes
<1>2. NetTypes
  BY DEF NetTypes
<1>3. OwnInv
  BY DEF OwnInv, OnlyItsChild, Serving
<1> QED
  BY <1>1, <1>2, <1>3 DEF BaseInv, Types

\* A child that serves a client is the only one, and its client was accepted.
LEMMA OneChild ==
  ASSUME BaseInv, NEW p \in Procs, Serving(p)
  PROVE  /\ serves[p] \in Clients /\ conn[serves[p]] # "pending"
         /\ \A q \in Procs : q # p => serves[p] \notin has[q]
         /\ \A q \in Procs : q # p /\ Serving(q) => serves[q] # serves[p]
         /\ mpc = "fork" => serves[p] # clnt_sock
BY DEF BaseInv, Types, ProcTypes, OwnInv, OnlyItsChild, Serving

LEMMA ChunkFacts ==
  ASSUME BaseInv, NEW c \in Clients, Unread(c) > 0
  PROVE  Chunk(c) \in Nat \ {0} /\ Chunk(c) <= Unread(c)
BY ForkAssumption DEF BaseInv, Types, NetTypes, Unread, Chunk

\* A process that ends keeps the types, and owns nothing any more.
LEMMA EndsKeeps ==
  ASSUME BaseInv, NEW p \in Procs, Ends(p)
  PROVE  /\ ProcTypes'
         /\ conn' = conn => OwnInv'
<1> USE DEF BaseInv, Types, ProcTypes, Ends, mainVars
<1>1. ProcTypes'
  BY DEF ProcTypes
<1>2. ASSUME conn' = conn PROVE OwnInv'
  BY <1>2 DEF OwnInv, OnlyItsChild, Serving
<1> QED
  BY <1>1, <1>2

LEMMA TypesKept == BaseInv /\ [Next]_forkVars => Types'
<1> SUFFICES ASSUME BaseInv, [Next]_forkVars PROVE ProcTypes' /\ NetTypes'
  BY DEF Types
<1> USE DEF BaseInv, Types
<1>1. CASE \E c \in Clients : Accept(c)
  BY <1>1 DEF Accept, sigVars, procVars, ProcTypes, NetTypes
<1>2. CASE \E p \in Procs : Fork(p)
  BY <1>2 DEF Fork, FreeSlots, sigVars, netVars, ProcTypes, NetTypes
<1>3. CASE CloseClient
  BY <1>3 DEF CloseClient, AfterClose, sigVars, procVars, netVars, ProcTypes, NetTypes
<1>4. CASE Deliver
  BY <1>4 DEF Deliver, mainVars, procVars, netVars, ProcTypes, NetTypes
<1>5. CASE Reap
  BY <1>5 DEF Reap, HandlerEnds, WhenInterrupted, Zombies, netVars, ProcTypes, NetTypes
<1>6. ASSUME NEW p \in Procs, ChildRead(p) PROVE ProcTypes' /\ NetTypes'
  <2> DEFINE c == serves[p]
  <2>1. c \in Clients /\ Unread(c) > 0
    BY <1>6, OneChild DEF ChildRead, Serving
  <2>2. Chunk(c) \in Nat \ {0}
    BY <2>1, ChunkFacts
  <2>3. NetTypes'
    BY <1>6, <2>1, <2>2 DEF ChildRead, NetTypes
  <2>4. CASE Ends(p)
    BY <2>3, <2>4, EndsKeeps
  <2>5. CASE ~Ends(p)
    <3>1. [j \in 1..Chunk(c) |-> got[c] + j] \in Seq(Nat)
      <4> DEFINE n == Chunk(c)
                 g == got[c]
      <4>1. n \in Nat /\ g \in Nat
        BY <2>1, <2>2 DEF NetTypes
      <4> HIDE DEF n, g
      <4>2. [j \in 1..n |-> g + j] \in [1..n -> Nat]
        BY <4>1
      <4>3. [j \in 1..n |-> g + j] \in Seq(Nat)
        BY <4>1, <4>2
      <4> QED
        BY <4>3 DEF n, g
    <3>2. buf' \in [Procs -> Seq(Nat)]
      BY <1>6, <2>5, <3>1 DEF ChildRead, ProcTypes
    <3>3. ProcTypes'
      BY <1>6, <2>5, <3>2 DEF ChildRead, ProcTypes, mainVars, sigVars
    <3> QED
      BY <2>3, <3>3
  <2> QED
    BY <2>4, <2>5
<1>7. ASSUME NEW p \in Procs, ChildEof(p) PROVE ProcTypes' /\ NetTypes'
  BY <1>7 DEF ChildEof, mainVars, sigVars, netVars, ProcTypes, NetTypes
<1>8. ASSUME NEW p \in Procs, ChildWrite(p) PROVE ProcTypes' /\ NetTypes'
  <2>1. serves[p] \in Clients
    BY <1>8, OneChild DEF ChildWrite, Serving
  <2>2. echoed[serves[p]] \o AllWritten(p) \in Seq(Nat)
    BY <2>1 DEF AllWritten, ProcTypes, NetTypes
  <2>3. echoed' \in [Clients -> Seq(Nat)]
    BY <1>8, <2>1, <2>2 DEF ChildWrite, NetTypes
  <2>4. conn' \in [Clients -> {"pending", "up", "shut", "gone", "reset"}]
    BY <1>8, <2>1 DEF ChildWrite, NetTypes
  <2>5. ProcTypes'
    BY <1>8 DEF ChildWrite, ProcTypes, mainVars, sigVars
  <2> QED
    BY <1>8, <2>3, <2>4, <2>5 DEF ChildWrite, NetTypes
<1>9. ASSUME NEW p \in Procs, ChildSigpipe(p) \/ ChildExit(p) PROVE ProcTypes' /\ NetTypes'
  <2>1. Ends(p) /\ UNCHANGED netVars
    BY <1>9 DEF ChildSigpipe, ChildExit
  <2> QED
    BY <2>1, EndsKeeps DEF netVars, NetTypes
<1>10. ASSUME NEW c \in Clients, ClientStep(c) PROVE ProcTypes' /\ NetTypes'
  <2>1. UNCHANGED <<mainVars, sigVars, procVars>>
    BY <1>10 DEF ClientStep, ClientSend, ClientShut, ClientEof, ClientEnds
  <2>2. ProcTypes'
    BY <2>1 DEF ProcTypes, mainVars, sigVars, procVars
  <2>3. CASE ClientSend(c)
    BY <2>2, <2>3 DEF ClientSend, NetTypes
  <2>4. CASE ClientShut(c)
    BY <2>2, <2>4 DEF ClientShut, NetTypes
  <2>5. CASE ClientEof(c)
    BY <2>2, <2>5 DEF ClientEof, NetTypes
  <2>6. CASE ClientEnds(c)
    BY <2>2, <2>6 DEF ClientEnds, NetTypes
  <2> QED
    BY <1>10, <2>3, <2>4, <2>5, <2>6 DEF ClientStep
<1>11. CASE UNCHANGED forkVars
  BY <1>11 DEF forkVars, mainVars, sigVars, procVars, netVars, ProcTypes, NetTypes
<1> QED
  BY <1>1, <1>2, <1>3, <1>4, <1>5, <1>6, <1>7, <1>8, <1>9, <1>10, <1>11
  DEF Next, MainStep, Signal, ChildStep

LEMMA OwnKept == BaseInv /\ [Next]_forkVars => OwnInv'
<1> SUFFICES ASSUME BaseInv, [Next]_forkVars PROVE OwnInv'
  OBVIOUS
<1> USE DEF BaseInv, Types, ProcTypes, NetTypes, OwnInv, OnlyItsChild, Serving
<1>1. CASE \E c \in Clients : Accept(c)
  BY <1>1 DEF Accept, sigVars, procVars
<1>2. CASE \E p \in Procs : Fork(p)
  BY <1>2 DEF Fork, FreeSlots, sigVars, netVars
<1>3. CASE CloseClient
  BY <1>3 DEF CloseClient, AfterClose, sigVars, procVars, netVars
<1>4. CASE Deliver
  BY <1>4 DEF Deliver, mainVars, procVars, netVars
<1>5. CASE Reap
  BY <1>5 DEF Reap, HandlerEnds, WhenInterrupted, Zombies, netVars
<1>6. ASSUME NEW p \in Procs, ChildRead(p) PROVE OwnInv'
  <2>1. CASE Ends(p)
    BY <1>6, <2>1, EndsKeeps DEF ChildRead
  <2>2. CASE ~Ends(p)
    BY <1>6, <2>2 DEF ChildRead, mainVars, sigVars
  <2> QED
    BY <2>1, <2>2
<1>7. ASSUME NEW p \in Procs, ChildEof(p) PROVE OwnInv'
  BY <1>7 DEF ChildEof, mainVars, sigVars, netVars
<1>8. ASSUME NEW p \in Procs, ChildWrite(p) PROVE OwnInv'
  BY <1>8, SMTT(30) DEF ChildWrite, mainVars, sigVars
<1>9. ASSUME NEW p \in Procs, ChildSigpipe(p) \/ ChildExit(p) PROVE OwnInv'
  BY <1>9, EndsKeeps DEF ChildSigpipe, ChildExit, netVars
<1>10. ASSUME NEW c \in Clients, ClientStep(c) PROVE OwnInv'
  BY <1>10 DEF ClientStep, ClientSend, ClientShut, ClientEof, ClientEnds,
                  mainVars, sigVars, procVars
<1>11. CASE UNCHANGED forkVars
  BY <1>11 DEF forkVars, mainVars, sigVars, procVars, netVars
<1> QED
  BY <1>1, <1>2, <1>3, <1>4, <1>5, <1>6, <1>7, <1>8, <1>9, <1>10, <1>11
  DEF Next, MainStep, Signal, ChildStep

LEMMA BaseInvariance == Spec => []BaseInv
<1>1. BaseInv /\ [Next]_forkVars => BaseInv'
  BY TypesKept, OwnKept DEF BaseInv
<1> QED
  BY InitBase, <1>1, PTL DEF Spec

\* No connection is open in two children, or in main after it went on to the
\* next accept.
THEOREM ConnectionsOwned == Spec => []OnlyItsChild
<1>1. BaseInv => OnlyItsChild
  BY DEF BaseInv, OwnInv
<1> QED
  BY BaseInvariance, <1>1, PTL

(***************************************************************************)
(* Zombies.                                                                *)
(***************************************************************************)
Owed == merged + (IF sigchld THEN 1 ELSE 0) + (IF inHandler THEN 1 ELSE 0)

LEMMA ZombiesFinite == IsFiniteSet(Zombies) /\ Cardinality(Zombies) \in Nat
BY ForkAssumption, FS_Subset, FS_CardinalityType DEF Zombies

\* A process that ends is one zombie more, and one signal more or merged.
LEMMA EndsOwed ==
  ASSUME BaseInv, ZombiesAreOwed, NEW p \in Procs, pstate[p] # "zombie", Ends(p)
  PROVE  ZombiesAreOwed'
<1>1. Zombies' = Zombies \cup {p} /\ p \notin Zombies
  BY DEF Ends, Zombies, BaseInv, Types, ProcTypes
<1>2. Cardinality(Zombies') = Cardinality(Zombies) + 1
  BY <1>1, ZombiesFinite, FS_AddElement
<1>3. Owed' = Owed + 1
  BY DEF Ends, Owed, BaseInv, Types, ProcTypes
<1> QED
  BY <1>2, <1>3 DEF ZombiesAreOwed, Owed

LEMMA OwedKept == BaseInv /\ ZombiesAreOwed /\ [Next]_forkVars => ZombiesAreOwed'
<1> SUFFICES ASSUME BaseInv, ZombiesAreOwed, [Next]_forkVars PROVE ZombiesAreOwed'
  OBVIOUS
<1> USE DEF BaseInv, Types, ProcTypes
<1>1. ASSUME Zombies' = Zombies, UNCHANGED sigVars PROVE ZombiesAreOwed'
  BY <1>1 DEF ZombiesAreOwed, sigVars
<1>2. CASE (\E c \in Clients : Accept(c)) \/ CloseClient \/ UNCHANGED forkVars
  BY <1>1, <1>2 DEF Accept, CloseClient, forkVars, procVars, Zombies
<1>3. CASE \E p \in Procs : Fork(p)
  <2>1. Zombies' = Zombies
    BY <1>3 DEF Fork, FreeSlots, Zombies
  <2> QED
    BY <1>1, <1>3, <2>1 DEF Fork
<1>4. CASE Deliver
  BY <1>4 DEF Deliver, procVars, ZombiesAreOwed, Zombies
<1>5. CASE Reap
  <2>1. inHandler /\ ~inHandler' /\ UNCHANGED <<sigchld, merged>>
    BY <1>5 DEF Reap, HandlerEnds
  <2>2. Zombies # {}
    <3>1. Cardinality(Zombies) = merged + (IF sigchld THEN 1 ELSE 0) + 1
      BY <2>1 DEF ZombiesAreOwed
    <3>2. Cardinality(Zombies) # 0
      BY <3>1
    <3> QED
      BY <3>2, FS_EmptySet
  <2>3. PICK z \in Zombies : pstate' = [pstate EXCEPT ![z] = "none"]
    BY <1>5, <2>2 DEF Reap
  <2>4. Zombies' = Zombies \ {z}
    BY <2>3 DEF Zombies
  <2>5. Cardinality(Zombies') = Cardinality(Zombies) - 1
    BY <2>3, <2>4, ZombiesFinite, FS_RemoveElement
  <2> QED
    BY <2>1, <2>5, ZombiesFinite DEF ZombiesAreOwed
<1>6. ASSUME NEW p \in Procs, ChildStep(p) PROVE ZombiesAreOwed'
  <2>1. CASE Ends(p)
    BY <1>6, <2>1, EndsOwed DEF ChildStep, ChildRead, ChildEof, ChildWrite, ChildSigpipe, ChildExit
  <2>2. CASE ~Ends(p)
    <3>1. Zombies' = Zombies /\ UNCHANGED sigVars
      BY <1>6, <2>2 DEF ChildStep, ChildRead, ChildEof, ChildWrite, ChildSigpipe, ChildExit, Zombies
    <3> QED
      BY <1>1, <3>1
  <2> QED
    BY <2>1, <2>2
<1>7. ASSUME NEW c \in Clients, ClientStep(c) PROVE ZombiesAreOwed'
  <2>1. UNCHANGED <<sigVars, procVars>>
    BY <1>7 DEF ClientStep, ClientSend, ClientShut, ClientEof, ClientEnds
  <2> QED
    BY <1>1, <2>1 DEF procVars, Zombies
<1> QED
  BY <1>2, <1>3, <1>4, <1>5, <1>6, <1>7 DEF Next, MainStep, Signal

\* Each zombie is owed to one signal: pending, being handled, or merged.
THEOREM ZombiesAccounted == Spec => []ZombiesAreOwed
<1>1. Init => ZombiesAreOwed
  <2> SUFFICES ASSUME Init PROVE ZombiesAreOwed
    OBVIOUS
  <2>1. Zombies = {}
    BY DEF Init, Zombies
  <2> QED
    BY <2>1, FS_EmptySet DEF Init, ForkInit, ZombiesAreOwed
<1> QED
  BY <1>1, BaseInvariance, OwedKept, PTL DEF Spec

(***************************************************************************)
(* The children implement EchoService.                                     *)
(***************************************************************************)
\* The first m bytes and the n that follow are the first m + n.
LEMMA FirstBytesConcat ==
  ASSUME NEW m \in Nat, NEW S, NEW s \in Seq(S),
         \A j \in 1..Len(s) : s[j] = m + j
  PROVE  Echo!FirstBytes(m) \o s = Echo!FirstBytes(m + Len(s))
<1> DEFINE f == Echo!FirstBytes(m)
           T == Nat \cup S
<1>1. f \in Seq(T) /\ Len(f) = m /\ \A j \in 1..m : f[j] = j
  BY DEF Echo!FirstBytes
<1>2. s \in Seq(T) /\ Len(s) \in Nat
  BY SeqMonotonic, LenProperties
<1> HIDE DEF f, T
<1>3. f \o s \in Seq(T) /\ Len(f \o s) = m + Len(s)
  BY <1>1, <1>2, ConcatProperties
<1>4. \A j \in 1..(m + Len(s)) : (f \o s)[j] = IF j <= m THEN f[j] ELSE s[j - m]
  BY <1>1, <1>2, ConcatProperties
<1>5. \A j \in 1..(m + Len(s)) : (f \o s)[j] = j
  BY <1>1, <1>2, <1>4
<1>6. f \o s \in [1..(m + Len(s)) -> T]
  BY <1>3, LenProperties
<1> QED
  BY <1>5, <1>6 DEF Echo!FirstBytes

Alive(c) == conn[c] \in {"up", "shut"}
Fresh(c) == got[c] = 0 /\ echoed[c] = <<>>

\* What a child has read follows what its client got back, unless the client
\* is gone: what is written to it then is lost.
InHand(p) ==
  LET c == serves[p] IN
  /\ pstate[p] \in {"read", "log"} /\ Alive(c) => echoed[c] = Echo!FirstBytes(got[c])
  /\ pstate[p] \in {"write", "log"} =>
       /\ Len(buf[p]) \in 1..got[c]
       /\ \A j \in 1..Len(buf[p]) : buf[p][j] = got[c] - Len(buf[p]) + j
  /\ pstate[p] = "write" /\ Alive(c) => echoed[c] = Echo!FirstBytes(got[c] - Len(buf[p]))

EchoInv ==
  /\ \A c \in Clients :
       /\ got[c] <= sent[c]
       /\ conn[c] = "pending" \/ (mpc = "fork" /\ c = clnt_sock) => Fresh(c)
  /\ \A p \in Procs : InHand(p)

LEMMA FirstNone == Echo!FirstBytes(0) = <<>>
BY DEF Echo!FirstBytes

LEMMA InitEcho == Init => EchoInv
BY DEF Init, ForkInit, EchoInv, InHand, Fresh

\* A read takes the bytes that follow those read before.
LEMMA ReadFacts ==
  ASSUME BaseInv, EchoInv, NEW p \in Procs, ChildRead(p)
  PROVE  LET c == serves[p]
             n == Chunk(c) IN
         /\ c \in Clients /\ n \in Nat \ {0} /\ got[c] + n <= sent[c]
         /\ got' = [got EXCEPT ![c] = @ + n]
         /\ UNCHANGED <<conn, sent, echoed, serves, mainVars>>
         /\ \/ Ends(p)
            \/ /\ pstate' = [pstate EXCEPT ![p] = "write"]
               /\ buf' = [buf EXCEPT ![p] = [j \in 1..n |-> got[c] + j]]
<1> DEFINE c == serves[p]
<1>1. c \in Clients /\ Unread(c) > 0
  BY OneChild DEF ChildRead, Serving
<1>2. Chunk(c) \in Nat \ {0} /\ Chunk(c) <= Unread(c)
  BY <1>1, ChunkFacts
<1>3. got[c] + Chunk(c) <= sent[c]
  BY <1>1, <1>2 DEF Unread, BaseInv, Types, NetTypes
<1> QED
  BY <1>1, <1>2, <1>3 DEF ChildRead, Ends, mainVars

\* A write gives back exactly what follows what was given back before.
LEMMA WriteFacts ==
  ASSUME BaseInv, EchoInv, NEW p \in Procs, ChildWrite(p)
  PROVE  LET c == serves[p] IN
         /\ c \in Clients
         /\ conn'[c] \in {"up", "shut"} => Alive(c)
         /\ \/ ~Alive(c) /\ echoed' = echoed
            \/ /\ Alive(c) /\ Len(echoed[c]) < got[c]
               /\ echoed' = [echoed EXCEPT ![c] = Echo!FirstBytes(got[c])]
<1> DEFINE c == serves[p]
           b == buf[p]
           m == got[c] - Len(b)
<1>1. pstate[p] = "write" /\ c \in Clients
  BY OneChild DEF ChildWrite, Serving
<1>2. /\ Len(b) \in 1..got[c] /\ \A j \in 1..Len(b) : b[j] = m + j
      /\ Alive(c) => echoed[c] = Echo!FirstBytes(m)
  BY <1>1 DEF EchoInv, InHand
<1>3. got[c] \in Nat /\ b \in Seq(Nat)
  BY <1>1 DEF BaseInv, Types, ProcTypes, NetTypes
<1>4. m \in Nat /\ m < got[c] /\ m + Len(b) = got[c]
  BY <1>2, <1>3
<1>5. CASE Alive(c)
  <2>1. echoed' = [echoed EXCEPT ![c] = @ \o b] /\ conn' = conn
    BY <1>5 DEF ChildWrite, AllWritten, Alive
  <2>2. echoed[c] \o b = Echo!FirstBytes(got[c])
    <3> HIDE DEF m, b
    <3>1. Echo!FirstBytes(m) \o b = Echo!FirstBytes(m + Len(b))
      BY <1>2, <1>3, <1>4, FirstBytesConcat
    <3> QED
      BY <1>2, <1>4, <1>5, <3>1
  <2>3. Len(echoed[c]) = m
    BY <1>2, <1>4, <1>5 DEF Echo!FirstBytes
  <2> QED
    BY <1>1, <1>4, <1>5, <2>1, <2>2, <2>3 DEF Alive
<1>6. CASE ~Alive(c)
  BY <1>1, <1>6 DEF ChildWrite, Alive, BaseInv, Types, NetTypes
<1> QED
  BY <1>5, <1>6

\* Steps that leave the bytes alone.
LEMMA QuietSteps ==
  ASSUME BaseInv, EchoInv, UNCHANGED <<got, echoed, serves>>,
         \A c \in Clients : sent'[c] \in Nat /\ sent'[c] >= sent[c],
         \A c \in Clients : Alive(c)' => Alive(c),
         \A c \in Clients : conn'[c] = "pending" => conn[c] = "pending",
         mpc' = "fork" => mpc = "fork" /\ clnt_sock' = clnt_sock,
         \A p \in Procs : Serving(p)' => pstate'[p] = pstate[p] /\ buf'[p] = buf[p]
  PROVE  EchoInv'
<1>1. \A c \in Clients : (got[c] <= sent[c])'
  BY DEF EchoInv, BaseInv, Types, NetTypes
<1>2. \A c \in Clients :
        (conn[c] = "pending" \/ (mpc = "fork" /\ c = clnt_sock) => Fresh(c))'
  BY DEF EchoInv, Fresh
<1>3. ASSUME NEW p \in Procs PROVE InHand(p)'
  <2>1. CASE ~Serving(p)'
    BY <2>1 DEF InHand, Serving
  <2>2. CASE Serving(p)'
    <3>1. Serving(p) /\ serves[p] \in Clients
      BY <2>2, OneChild DEF Serving
    <3>2. InHand(p)
      BY DEF EchoInv
    <3> QED
      BY <2>2, <3>1, <3>2 DEF InHand, Serving
  <2> QED
    BY <2>1, <2>2
<1> QED
  BY <1>1, <1>2, <1>3 DEF EchoInv

LEMMA EndsEcho ==
  ASSUME BaseInv, EchoInv, NEW p \in Procs, Ends(p), UNCHANGED netVars
  PROVE  EchoInv'
<1>1. \A q \in Procs : Serving(q)' => pstate'[q] = pstate[q] /\ buf'[q] = buf[q]
  BY DEF Ends, Serving, BaseInv, Types, ProcTypes
<1>2. \A c \in Clients : sent[c] \in Nat
  BY DEF BaseInv, Types, NetTypes
<1> QED
  BY <1>1, <1>2, QuietSteps DEF Ends, mainVars, netVars, Alive

LEMMA EchoKept == BaseInv /\ EchoInv /\ [Next]_forkVars => EchoInv'
<1> SUFFICES ASSUME BaseInv, EchoInv, [Next]_forkVars PROVE EchoInv'
  OBVIOUS
<1>a. /\ \A c \in Clients : sent[c] \in Nat /\ got[c] \in Nat
      /\ pstate \in [Procs -> {"none", "read", "write", "log", "exit", "zombie", "logger"}]
      /\ buf \in [Procs -> Seq(Nat)] /\ serves \in [Procs -> Clients \cup {Nobody}]
      /\ conn \in [Clients -> {"pending", "up", "shut", "gone", "reset"}]
      /\ got \in [Clients -> Nat] /\ sent \in [Clients -> Nat]
      /\ echoed \in [Clients -> Seq(Nat)]
  BY DEF BaseInv, Types, ProcTypes, NetTypes
<1>b. \A p \in Procs : Serving(p) => serves[p] \in Clients /\ conn[serves[p]] # "pending"
  BY OneChild
<1>1. ASSUME NEW c \in Clients, Accept(c) PROVE EchoInv'
  <2>1. Fresh(c) /\ conn[c] = "pending"
    BY <1>1 DEF Accept, EchoInv
  <2>2. ASSUME NEW p \in Procs PROVE InHand(p)'
    BY <1>1, <1>a, <1>b, <2>1 DEF Accept, procVars, EchoInv, InHand, Alive, Serving
  <2>3. \A d \in Clients : /\ (got[d] <= sent[d])'
                          /\ (conn[d] = "pending" \/ (mpc = "fork" /\ d = clnt_sock) => Fresh(d))'
    BY <1>1, <1>a, <2>1 DEF Accept, EchoInv, Fresh
  <2> QED
    BY <2>2, <2>3 DEF EchoInv
<1>2. ASSUME NEW p \in Procs, Fork(p) PROVE EchoInv'
  <2>1. clnt_sock \in Clients /\ Fresh(clnt_sock)
    BY <1>2 DEF Fork, EchoInv, BaseInv, OwnInv, Types, ProcTypes
  <2>2. InHand(p)'
    <3>1. pstate'[p] = "read" /\ serves'[p] = clnt_sock /\ UNCHANGED <<got, echoed>>
      BY <1>2, <1>a DEF Fork, netVars
    <3> QED
      BY <2>1, <3>1, FirstNone DEF InHand, Fresh
  <2>3. ASSUME NEW q \in Procs, q # p PROVE InHand(q)'
    BY <1>2, <1>a, <2>3 DEF Fork, netVars, EchoInv, InHand, Alive
  <2>4. \A d \in Clients : /\ (got[d] <= sent[d])'
                          /\ (conn[d] = "pending" \/ (mpc = "fork" /\ d = clnt_sock) => Fresh(d))'
    BY <1>2 DEF Fork, netVars, EchoInv, Fresh
  <2> QED
    BY <2>2, <2>3, <2>4 DEF EchoInv
<1>3. CASE CloseClient \/ Deliver \/ UNCHANGED forkVars
  BY <1>3, <1>a, QuietSteps DEF CloseClient, Deliver, forkVars, mainVars, sigVars, procVars,
                                netVars, Alive, Serving
<1>4. CASE Reap
  <2>1. \A p \in Procs : Serving(p)' => pstate'[p] = pstate[p]
    BY <1>4, <1>a DEF Reap, Zombies, Serving
  <2> QED
    BY <1>4, <1>a, <2>1, QuietSteps DEF Reap, HandlerEnds, WhenInterrupted, netVars, Alive
<1>5. ASSUME NEW p \in Procs, Ends(p), UNCHANGED netVars PROVE EchoInv'
  BY <1>5, EndsEcho
<1>6. ASSUME NEW p \in Procs, ChildRead(p) PROVE EchoInv'
  <2> DEFINE c == serves[p]
             n == Chunk(c)
  <2>1. /\ c \in Clients /\ n \in Nat \ {0} /\ got[c] + n <= sent[c]
        /\ got' = [got EXCEPT ![c] = @ + n]
        /\ UNCHANGED <<conn, sent, echoed, serves, mainVars>>
        /\ \/ Ends(p)
           \/ /\ pstate' = [pstate EXCEPT ![p] = "write"]
              /\ buf' = [buf EXCEPT ![p] = [j \in 1..n |-> got[c] + j]]
    BY <1>6, ReadFacts
  <2>2. /\ pstate[p] = "read" /\ conn[c] # "pending" /\ ~(mpc = "fork" /\ c = clnt_sock)
        /\ \A q \in Procs : q # p /\ Serving(q) => serves[q] # c
    BY <1>6, OneChild DEF ChildRead, Serving
  <2> HIDE DEF c, n
  <2>3. got'[c] = got[c] + n /\ \A d \in Clients : d # c => got'[d] = got[d]
    BY <1>a, <2>1
  <2>4. \A d \in Clients : /\ (got[d] <= sent[d])'
                          /\ (conn[d] = "pending" \/ (mpc = "fork" /\ d = clnt_sock) => Fresh(d))'
    BY <2>1, <2>2, <2>3 DEF EchoInv, Fresh, mainVars
  <2>5. ASSUME NEW q \in Procs, q # p PROVE InHand(q)'
    <3>1. Serving(q)' => pstate'[q] = pstate[q] /\ buf'[q] = buf[q]
      BY <1>a, <2>1, <2>5 DEF Ends, Serving
    <3>2. CASE Serving(q)'
      <4>1. Serving(q) /\ serves[q] \in Clients /\ serves[q] # c
        BY <1>b, <2>2, <2>5, <3>1, <3>2 DEF Serving
      <4>2. got'[serves[q]] = got[serves[q]] /\ InHand(q)
        BY <2>3, <4>1 DEF EchoInv
      <4> QED
        BY <2>1, <3>1, <3>2, <4>1, <4>2 DEF InHand, Serving, Alive
    <3>3. CASE ~Serving(q)'
      BY <3>3 DEF InHand, Serving
    <3> QED
      BY <3>2, <3>3
  <2>6. InHand(p)'
    <3>1. CASE Ends(p)
      BY <1>a, <3>1 DEF Ends, InHand
    <3>2. CASE /\ pstate' = [pstate EXCEPT ![p] = "write"]
               /\ buf' = [buf EXCEPT ![p] = [j \in 1..n |-> got[c] + j]]
      <4> DEFINE b == [j \in 1..n |-> got[c] + j]
      <4>1. Len(b) = n /\ \A j \in 1..n : b[j] = got[c] + j
        BY <2>1
      <4> HIDE DEF b
      <4>2. buf'[p] = b /\ pstate'[p] = "write"
        BY <1>a, <3>2 DEF b
      <4>3. conn'[c] \in {"up", "shut"} => echoed'[c] = Echo!FirstBytes(got[c])
        BY <2>1, <2>2 DEF Alive, EchoInv, InHand, c
      <4>4. got[c] \in Nat /\ got'[c] - n = got[c]
        BY <1>a, <2>1, <2>3
      <4>5. n \in 1..got'[c] /\ \A j \in 1..n : b[j] = got'[c] - n + j
        BY <2>1, <2>3, <4>1, <4>4
      <4>6. serves'[p] = c
        BY <2>1 DEF c
      <4> QED
        BY <4>1, <4>2, <4>3, <4>4, <4>5, <4>6 DEF InHand, Alive
    <3> QED
      BY <2>1, <3>1, <3>2
  <2> QED
    BY <2>4, <2>5, <2>6 DEF EchoInv
<1>7. ASSUME NEW p \in Procs, ChildEof(p) PROVE EchoInv'
  <2>1. \A q \in Procs : Serving(q)' => pstate'[q] = pstate[q] /\ buf'[q] = buf[q]
    BY <1>7, <1>a DEF ChildEof, Serving
  <2> QED
    BY <1>7, <1>a, <2>1, QuietSteps DEF ChildEof, mainVars, netVars, Alive
<1>8. ASSUME NEW p \in Procs, ChildWrite(p) PROVE EchoInv'
  <2> DEFINE c == serves[p]
  <2>1. /\ c \in Clients
        /\ conn'[c] \in {"up", "shut"} => Alive(c)
        /\ \/ ~Alive(c) /\ echoed' = echoed
           \/ /\ Alive(c) /\ Len(echoed[c]) < got[c]
              /\ echoed' = [echoed EXCEPT ![c] = Echo!FirstBytes(got[c])]
    BY <1>8, WriteFacts
  <2>2. /\ pstate[p] = "write" /\ conn[c] # "pending" /\ ~(mpc = "fork" /\ c = clnt_sock)
        /\ \A q \in Procs : q # p /\ Serving(q) => serves[q] # c
    BY <1>8, OneChild DEF ChildWrite, Serving
  <2>3. /\ UNCHANGED <<mainVars, serves, sent, got>>
        /\ pstate'[p] = "read" \/ (pstate'[p] = "log" /\ buf'[p] = buf[p])
        /\ \A q \in Procs : q # p => pstate'[q] = pstate[q] /\ buf'[q] = buf[q]
        /\ conn'[c] # "pending" /\ \A d \in Clients : d # c => conn'[d] = conn[d]
    BY <1>8, <1>a, <2>1, <2>2 DEF ChildWrite
  <2> HIDE DEF c
  <2>4. \A d \in Clients : d # c => echoed'[d] = echoed[d]
    BY <1>a, <2>1
  <2>5. \A d \in Clients : /\ (got[d] <= sent[d])'
                          /\ (conn[d] = "pending" \/ (mpc = "fork" /\ d = clnt_sock) => Fresh(d))'
    BY <2>2, <2>3, <2>4 DEF EchoInv, Fresh, mainVars
  <2>6. ASSUME NEW q \in Procs, q # p PROVE InHand(q)'
    <3>1. CASE Serving(q)'
      <4>1. Serving(q) /\ serves[q] \in Clients /\ serves[q] # c
        BY <1>b, <2>2, <2>3, <2>6, <3>1 DEF Serving
      <4>2. InHand(q)
        BY DEF EchoInv
      <4> QED
        BY <2>3, <2>4, <2>6, <4>1, <4>2 DEF InHand, Alive
    <3>2. CASE ~Serving(q)'
      BY <3>2 DEF InHand, Serving
    <3> QED
      BY <3>1, <3>2
  <2>7. InHand(p)'
    <3>1. conn'[c] \in {"up", "shut"} => echoed'[c] = Echo!FirstBytes(got[c])
      BY <1>a, <2>1
    <3>2. serves'[p] = c
      BY <2>3 DEF c
    <3>3. /\ Len(buf[p]) \in 1..got[c]
          /\ \A j \in 1..Len(buf[p]) : buf[p][j] = got[c] - Len(buf[p]) + j
      BY <2>2 DEF EchoInv, InHand, c
    <3> QED
      BY <2>3, <3>1, <3>2, <3>3 DEF InHand, Alive
  <2> QED
    BY <2>5, <2>6, <2>7 DEF EchoInv
<1>9. ASSUME NEW c \in Clients, ClientStep(c) PROVE EchoInv'
  <2>1. UNCHANGED <<mainVars, procVars, got, echoed>>
    BY <1>9 DEF ClientStep, ClientSend, ClientShut, ClientEof, ClientEnds
  <2>2. CASE ClientSend(c)
    BY <1>a, <2>1, <2>2, QuietSteps DEF ClientSend, mainVars, procVars, Alive
  <2>3. CASE ClientShut(c)
    BY <1>a, <2>1, <2>3, QuietSteps DEF ClientShut, mainVars, procVars, Alive
  <2>4. CASE ClientEof(c)
    BY <1>a, <2>1, <2>4, QuietSteps DEF ClientEof, mainVars, procVars, Alive
  <2>5. CASE ClientEnds(c)
    BY <1>a, <2>1, <2>5, QuietSteps DEF ClientEnds, mainVars, procVars, Alive
  <2> QED
    BY <1>9, <2>2, <2>3, <2>4, <2>5 DEF ClientStep
<1> QED
  BY <1>1, <1>2, <1>3, <1>4, <1>5, <1>6, <1>7, <1>8, <1>9
  DEF Next, MainStep, Signal, ChildStep, ChildSigpipe, ChildExit

\* Every step is one of EchoService, or none.
LEMMA EchoSteps == BaseInv /\ EchoInv /\ [Next]_forkVars => [Echo!Next]_(Echo!vars)
<1> SUFFICES ASSUME BaseInv, EchoInv, [Next]_forkVars
             PROVE  Echo!Next \/ UNCHANGED <<sent, echoed>>
  BY DEF Echo!vars
<1>1. ASSUME NEW p \in Procs, ChildWrite(p) PROVE Echo!Next \/ UNCHANGED <<sent, echoed>>
  <2> DEFINE c == serves[p]
  <2>1. c \in Clients /\ sent' = sent
    BY <1>1, WriteFacts DEF ChildWrite
  <2>2. CASE ~Alive(c) /\ echoed' = echoed
    BY <2>1, <2>2
  <2>3. CASE /\ Len(echoed[c]) < got[c]
             /\ echoed' = [echoed EXCEPT ![c] = Echo!FirstBytes(got[c])]
    <3>1. got[c] \in (Len(echoed[c]) + 1)..sent[c]
      BY <2>1, <2>3 DEF EchoInv, BaseInv, Types, NetTypes
    <3>2. Echo!Echo(c)
      BY <2>1, <2>3, <3>1 DEF Echo!Echo
    <3> QED
      BY <2>1, <3>2 DEF Echo!Next
  <2> QED
    BY <1>1, <2>2, <2>3, WriteFacts
<1>2. ASSUME NEW c \in Clients, ClientSend(c) PROVE Echo!Next
  <2>1. sent' = [sent EXCEPT ![c] = @ + 1] /\ echoed' = echoed
    BY <1>2 DEF ClientSend
  <2>2. sent'[c] = sent[c] + 1 /\ sent'[c] \in Nat /\ sent'[c] > sent[c]
    BY <2>1 DEF BaseInv, Types, NetTypes
  <2> QED
    BY <2>1, <2>2 DEF Echo!Send, Echo!Next
<1>3. CASE /\ \A p \in Procs : ~ChildWrite(p)
           /\ \A c \in Clients : ~ClientSend(c)
  BY <1>3 DEF Next, forkVars, netVars, MainStep, Signal, ChildStep, ClientStep, Accept, Fork,
              CloseClient, Deliver, Reap, HandlerEnds, ChildRead, ChildEof, ChildSigpipe,
              ChildExit, ClientShut, ClientEof, ClientEnds
<1> QED
  BY <1>1, <1>2, <1>3

\* The children give every client its first bytes back, in order, each once,
\* whatever the interleaving of children, signals and clients.
THEOREM ChildrenImplementEchoService == Spec => EchoesInOrder
<1>1. Init => Echo!Init
  BY DEF Init, ForkInit, Echo!Init
<1>2. Spec => []EchoInv
  BY InitEcho, BaseInvariance, EchoKept, PTL DEF Spec
<1> QED
  BY <1>1, <1>2, EchoSteps, BaseInvariance, PTL DEF Spec, EchoesInOrder, Echo!Spec

(***************************************************************************)
(* The storing server.                                                     *)
(***************************************************************************)
LogTypes ==
  /\ pipe \in Seq(Clients \X Nat) /\ stdio \in Seq(Clients \X Nat)
  /\ file \in Seq(Clients \X Nat)

\* What a child has read and not stored yet.
Pending(p) == IF pstate[p] = "read" THEN 0 ELSE Len(buf[p])

\* Everything else that a child has read of its client was logged.
LogInv ==
  /\ LogTypes
  /\ StoredInOrder
  /\ \A p \in Procs : Serving(p) =>
       Numbers(Logged, Len(Logged), serves[p]) = 1..(got[serves[p]] - Pending(p))

(***************************************************************************)
(* The processes of the storing server, by the lemmas above.               *)
(***************************************************************************)
LEMMA InitStore == StoreInit => BaseInv /\ EchoInv /\ LogInv
<1> SUFFICES ASSUME StoreInit PROVE BaseInv /\ EchoInv /\ LogInv
  OBVIOUS
<1> USE DEF StoreInit, ForkInit
<1>1. ProcTypes
  <2>1. buf \in [Procs -> Seq(Nat)] /\ has \in [Procs -> SUBSET Clients]
    OBVIOUS
  <2> QED
    BY <2>1 DEF ProcTypes
<1>2. NetTypes
  BY DEF NetTypes
<1>3. OwnInv
  BY DEF OwnInv, OnlyItsChild, Serving
<1>4. EchoInv
  BY DEF EchoInv, InHand, Fresh
<1>5. LogInv
  BY DEF LogInv, LogTypes, StoredInOrder, Logged, Serving
<1> QED
  BY <1>1, <1>2, <1>3, <1>4, <1>5 DEF BaseInv, Types

LEMMA StoreSteps ==
  ASSUME BaseInv, EchoInv, NEW p \in Procs, Store(p)
  PROVE  BaseInv' /\ EchoInv'
<1> USE DEF Store, mainVars, sigVars, netVars
<1>1. /\ pstate[p] = "log" /\ pstate' = [pstate EXCEPT ![p] = "read"]
      /\ buf' = [buf EXCEPT ![p] = <<>>]
      /\ UNCHANGED <<mainVars, sigVars, serves, has, netVars>>
  OBVIOUS
<1> HIDE DEF Store
<1>2. Types'
  BY <1>1 DEF BaseInv, Types, ProcTypes, NetTypes
<1>3. OwnInv'
  BY <1>1 DEF BaseInv, OwnInv, OnlyItsChild, Serving, Types, ProcTypes
<1>4. ASSUME NEW q \in Procs PROVE InHand(q)'
  <2>1. InHand(q)
    BY DEF EchoInv
  <2>2. CASE q = p
    BY <1>1, <2>1, <2>2 DEF InHand, Alive, BaseInv, Types, ProcTypes
  <2>3. CASE q # p
    BY <1>1, <2>1, <2>3 DEF InHand, Alive, BaseInv, Types, ProcTypes
  <2> QED
    BY <2>2, <2>3
<1>5. EchoInv'
  BY <1>1, <1>4 DEF EchoInv, Fresh
<1> QED
  BY <1>2, <1>3, <1>5 DEF BaseInv

LEMMA LogEndSteps == ASSUME BaseInv, EchoInv, LogEnds PROVE BaseInv' /\ EchoInv'
<1>1. Ends(Logger) /\ UNCHANGED netVars /\ Logger \in Procs
  BY StoreAssumption DEF LogEnds
<1>2. BaseInv'
  BY <1>1, EndsKeeps DEF BaseInv, Types, NetTypes, netVars
<1> QED
  BY <1>1, <1>2, EndsEcho

LEMMA InterruptSteps == ASSUME BaseInv, EchoInv, Interrupt PROVE BaseInv' /\ EchoInv'
<1> USE DEF Interrupt, netVars
<1>1. ProcTypes'
  <2>1. buf' \in [Procs -> Seq(Nat)] /\ has' \in [Procs -> SUBSET Clients]
    OBVIOUS
  <2> QED
    BY <2>1 DEF ProcTypes
<1>2. NetTypes'
  BY DEF BaseInv, Types, NetTypes
<1>3. OwnInv'
  BY DEF OwnInv, OnlyItsChild, Serving
<1>4. EchoInv'
  BY DEF EchoInv, InHand, Fresh
<1> QED
  BY <1>1, <1>2, <1>3, <1>4 DEF BaseInv, Types

\* A step of the program is one of ForkServer, or of the pipe and the logger.
LEMMA StepKinds ==
  ASSUME [StoreNext]_vars
  PROVE  \/ [Next]_forkVars /\ (Log \/ UNCHANGED logVars)
         \/ (\E p \in Procs : Store(p)) \/ LogEnds \/ Interrupt
<1>1. CASE UNCHANGED vars
  BY <1>1 DEF vars, logVars, forkVars
<1>2. CASE Log
  BY <1>2 DEF Log, Logs
<1> QED
  BY <1>1, <1>2 DEF StoreNext, StoreStep, LoggerStep, Next

LEMMA BaseKept == BaseInv /\ EchoInv /\ [StoreNext]_vars => BaseInv' /\ EchoInv'
<1> SUFFICES ASSUME BaseInv, EchoInv, [StoreNext]_vars PROVE BaseInv' /\ EchoInv'
  OBVIOUS
<1>1. CASE [Next]_forkVars
  BY <1>1, TypesKept, OwnKept, EchoKept DEF BaseInv
<1> QED
  BY <1>1, StepKinds, StoreSteps, LogEndSteps, InterruptSteps

LEMMA StoreInvariance == StoreSpec => [](BaseInv /\ EchoInv)
BY InitStore, BaseKept, PTL DEF StoreSpec

\* No connection is open in two processes of the storing server either.
THEOREM StoreConnectionsOwned == StoreSpec => []OnlyItsChild
<1>1. BaseInv => OnlyItsChild
  BY DEF BaseInv, OwnInv
<1> QED
  BY <1>1, StoreInvariance, PTL

\* Storing what they echo, the children still implement EchoService, also when
\* the pipe is full, the logger has ended or the whole program is interrupted.
THEOREM StoreImplementsEchoService == StoreSpec => EchoesInOrder
<1>1. StoreInit => Echo!Init
  BY DEF StoreInit, ForkInit, Echo!Init
<1>2. BaseInv /\ EchoInv /\ [StoreNext]_vars => [Echo!Next]_(Echo!vars)
  <2> SUFFICES ASSUME BaseInv, EchoInv, [StoreNext]_vars PROVE [Echo!Next]_(Echo!vars)
    OBVIOUS
  <2>1. CASE [Next]_forkVars
    BY <2>1, EchoSteps
  <2>2. CASE (\E p \in Procs : Store(p)) \/ LogEnds \/ Interrupt
    BY <2>2 DEF Store, LogEnds, Interrupt, netVars, Echo!vars
  <2> QED
    BY <2>1, <2>2, StepKinds
<1> QED
  BY <1>1, <1>2, StoreInvariance, PTL DEF StoreSpec, EchoesInOrder, Echo!Spec

(***************************************************************************)
(* The log, through pipe, FILE and file.                                   *)
(***************************************************************************)
\* Three sequences of bytes one after the other.
LEMMA JoinedFacts ==
  ASSUME NEW u \in Seq(Clients \X Nat), NEW v \in Seq(Clients \X Nat),
         NEW w \in Seq(Clients \X Nat)
  PROVE  LET s == u \o v \o w IN
         /\ s \in Seq(Clients \X Nat) /\ Len(s) \in Nat /\ DOMAIN s = 1..Len(s)
         /\ \A k \in 1..Len(s) : s[k][1] \in Clients /\ s[k][2] \in Nat
<1> DEFINE s == u \o v \o w
<1>1. s \in Seq(Clients \X Nat)
  <2>1. u \o v \in Seq(Clients \X Nat)
    BY ConcatProperties
  <2> QED
    BY <2>1, ConcatProperties
<1> HIDE DEF s
<1>2. Len(s) \in Nat /\ DOMAIN s = 1..Len(s)
  BY <1>1, LenProperties
<1>3. \A k \in 1..Len(s) : s[k] \in Clients \X Nat
  BY <1>1, ElementOfSeq
<1> QED
  BY <1>1, <1>2, <1>3 DEF s

LoggedType(s) ==
  /\ s \in Seq(Clients \X Nat) /\ Len(s) \in Nat /\ DOMAIN s = 1..Len(s)
  /\ \A k \in 1..Len(s) : s[k][1] \in Clients /\ s[k][2] \in Nat

LEMMA LoggedFacts ==
  /\ LogTypes => LoggedType(Logged)
  /\ LogTypes' => LoggedType(Logged')
BY JoinedFacts DEF LogTypes, Logged, LoggedType

\* What a shorter log says of a client, a longer one that begins with it says
\* of its beginning.
SameUpTo(s, t, n) == \A j \in 1..n : t[j] = s[j]
LEMMA SameBeginning ==
  ASSUME NEW s, NEW t, NEW n, SameUpTo(s, t, n), NEW c
  PROVE  Numbers(t, n, c) = Numbers(s, n, c)
BY DEF Numbers, SameUpTo

\* A log of which another one is the beginning is in order if that one is.
LEMMA BeginningInOrder ==
  ASSUME LogTypes, LogTypes', StoredInOrder, BaseInv,
         Len(Logged') <= Len(Logged), \A k \in 1..Len(Logged') : Logged'[k] = Logged[k],
         \A c \in Clients : got'[c] \in Nat /\ got'[c] >= got[c]
  PROVE  StoredInOrder'
<1> SUFFICES ASSUME NEW k \in 1..Len(Logged')
             PROVE  LET c == Logged'[k][1]
                        n == Logged'[k][2] IN
                    n \in 1..got'[c] /\ Numbers(Logged', k - 1, c) = 1..(n - 1)
  BY LoggedFacts DEF StoredInOrder, LoggedType
<1> DEFINE c == Logged[k][1]
           n == Logged[k][2]
<1>1. k \in 1..Len(Logged) /\ Len(Logged) \in Nat /\ Len(Logged') \in Nat /\ Logged'[k] = Logged[k]
  BY LoggedFacts DEF LoggedType
<1>2. c \in Clients /\ n \in 1..got[c] /\ Numbers(Logged, k - 1, c) = 1..(n - 1)
  BY <1>1, LoggedFacts DEF StoredInOrder, LoggedType
<1>3. Numbers(Logged', k - 1, c) = Numbers(Logged, k - 1, c)
  <2>1. 1..(k - 1) \subseteq 1..Len(Logged')
    BY <1>1
  <2>2. SameUpTo(Logged, Logged', k - 1)
    BY <2>1 DEF SameUpTo
  <2> QED
    BY ONLY <2>2, SameBeginning
<1>4. n \in 1..got'[c]
  BY <1>2 DEF BaseInv, Types, NetTypes
<1> QED
  BY <1>1, <1>2, <1>3, <1>4

\* A read and the fwrite after it move bytes from the pipe to the FILE.
LEMMA LogFacts ==
  ASSUME LogTypes, Log PROVE LogTypes' /\ Logged' = Logged /\ UNCHANGED forkVars
<1>1. PICK n \in 1..Len(pipe) : /\ stdio' = stdio \o SubSeq(pipe, 1, n)
                                /\ pipe' = SubSeq(pipe, n + 1, Len(pipe))
                                /\ file' = file /\ UNCHANGED forkVars
  BY DEF Log, Logs
<1> DEFINE S == Clients \X Nat
           f == file \o stdio
           a == SubSeq(pipe, 1, n)
           b == SubSeq(pipe, n + 1, Len(pipe))
<1>2. pipe \in Seq(S) /\ stdio \in Seq(S) /\ file \in Seq(S)
  BY DEF LogTypes
<1>3. /\ a \in Seq(S) /\ Len(a) = n /\ \A j \in 1..n : a[j] = pipe[j]
      /\ b \in Seq(S) /\ Len(b) = Len(pipe) - n
      /\ \A j \in 1..(Len(pipe) - n) : b[j] = pipe[n + j]
  BY <1>2
<1> HIDE DEF a, b, S
<1>4. LogTypes'
  BY <1>1, <1>2, <1>3, ConcatProperties DEF LogTypes, a, b, S
<1>9. a \in Seq(S) /\ b \in Seq(S)
  BY <1>3
<1>5. a \o b = pipe
  <2>1. /\ a \o b \in Seq(S) /\ Len(a \o b) = Len(a) + Len(b)
        /\ \A j \in 1..(Len(a) + Len(b)) :
             (a \o b)[j] = IF j <= Len(a) THEN a[j] ELSE b[j - Len(a)]
    BY <1>9, ConcatProperties
  <2>2. Len(pipe) \in Nat /\ Len(a) + Len(b) = Len(pipe)
    BY <1>2, <1>3, LenProperties
  <2>3. \A j \in 1..Len(pipe) : (a \o b)[j] = pipe[j]
    <3> SUFFICES ASSUME NEW j \in 1..Len(pipe) PROVE (a \o b)[j] = pipe[j]
      OBVIOUS
    <3>1. CASE j <= n
      BY <1>3, <2>1, <2>2, <3>1
    <3>2. CASE j > n
      <4>1. (a \o b)[j] = b[j - n] /\ j - n \in 1..(Len(pipe) - n) /\ n + (j - n) = j
        BY <1>3, <2>1, <2>2, <3>2
      <4> QED
        BY <1>3, <4>1
    <3> QED
      BY <2>2, <3>1, <3>2
  <2> QED
    BY <1>2, <2>1, <2>2, <2>3, SeqEqual
<1>6. Logged' = (file \o (stdio \o a)) \o b
  BY <1>1 DEF Logged, a, b
<1>7. file \o (stdio \o a) = f \o a
  <2>1. file \in Seq(S) /\ stdio \in Seq(S) /\ a \in Seq(S)
    BY <1>2, <1>9
  <2>2. (file \o stdio) \o a = file \o (stdio \o a)
    BY SMTT(30), <2>1, ConcatAssociative
  <2> QED
    BY <2>2
<1>8. (f \o a) \o b = f \o (a \o b)
  <2>1. f \in Seq(S)
    BY <1>2, ConcatProperties
  <2> HIDE DEF f
  <2>2. f \in Seq(S) /\ a \in Seq(S) /\ b \in Seq(S)
    BY <1>9, <2>1
  <2> QED
    BY SMTT(30), <2>2, ConcatAssociative
<1> QED
  BY <1>1, <1>4, <1>5, <1>6, <1>7, <1>8 DEF Logged

\* fclose moves what is in the FILE to the file.
LEMMA LogEndFacts == ASSUME LogTypes, LogEnds PROVE LogTypes' /\ Logged' = Logged
<1>1. file' = file \o stdio /\ stdio' = <<>> /\ pipe' = pipe
  BY DEF LogEnds
<1>2. file \o stdio \in Seq(Clients \X Nat)
  BY ConcatProperties DEF LogTypes
<1>3. (file \o stdio) \o <<>> = file \o stdio
  BY <1>2, ConcatEmptySeq
<1> QED
  BY <1>1, <1>2, <1>3 DEF Logged, LogTypes

\* A child's second write appends what it has echoed.
LEMMA StoreFacts ==
  ASSUME BaseInv, EchoInv, LogTypes, NEW p \in Procs, Store(p)
  PROVE  /\ LogTypes' /\ serves[p] \in Clients /\ pstate[p] = "log"
         /\ Len(buf[p]) \in Nat /\ Len(Logged') = Len(Logged) + Len(buf[p])
         /\ \A k \in 1..Len(Logged) : Logged'[k] = Logged[k]
         /\ \A j \in 1..Len(buf[p]) :
              Logged'[Len(Logged) + j] = <<serves[p], got[serves[p]] - Len(buf[p]) + j>>
<1> DEFINE c == serves[p]
           t == [j \in 1..Len(buf[p]) |-> <<c, buf[p][j]>>]
           S == Clients \X Nat
<1>1. /\ pipe' = pipe \o t /\ stdio' = stdio /\ file' = file /\ pstate[p] = "log"
  BY DEF Store
<1>2. c \in Clients /\ Len(buf[p]) \in Nat /\ buf[p] \in Seq(Nat)
  <2>1. buf[p] \in Seq(Nat)
    BY DEF BaseInv, Types, ProcTypes
  <2>2. c \in Clients
    BY <1>1, OneChild DEF Serving
  <2> QED
    BY <2>1, <2>2, LenProperties
<1>3. \A j \in 1..Len(buf[p]) : buf[p][j] = got[c] - Len(buf[p]) + j /\ buf[p][j] \in Nat
  BY <1>1, <1>2, ElementOfSeq DEF EchoInv, InHand
<1>4. t \in Seq(S) /\ Len(t) = Len(buf[p])
  <2> DEFINE L == Len(buf[p])
  <2>1. L \in Nat /\ t = [j \in 1..L |-> <<c, buf[p][j]>>]
    BY <1>2
  <2>2. \A j \in 1..L : <<c, buf[p][j]>> \in S
    BY <1>2, <1>3
  <2> HIDE DEF L, S
  <2>3. t \in [1..L -> S]
    BY <2>1, <2>2
  <2> QED
    BY <2>1, <2>3 DEF L
<1>5. \A j \in 1..Len(buf[p]) : t[j] = <<c, got[c] - Len(buf[p]) + j>>
  BY <1>3
<1> HIDE DEF t, S
<1>6. LogTypes'
  BY <1>1, <1>4, ConcatProperties DEF LogTypes, S
<1>7. Logged' = Logged \o t /\ Logged \in Seq(S)
  <2>1. file \o stdio \in Seq(S) /\ pipe \in Seq(S)
    BY ConcatProperties DEF LogTypes, S
  <2>2. (file \o stdio) \o (pipe \o t) = ((file \o stdio) \o pipe) \o t
    BY <1>4, <2>1, ConcatAssociative, SMTT(30)
  <2>3. Logged \in Seq(S)
    BY <2>1, ConcatProperties DEF Logged
  <2> QED
    BY <1>1, <2>2, <2>3 DEF Logged
<1>8. /\ Len(Logged') = Len(Logged) + Len(buf[p]) /\ Len(Logged) \in Nat
      /\ \A k \in 1..(Len(Logged) + Len(t)) :
           Logged'[k] = IF k <= Len(Logged) THEN Logged[k] ELSE t[k - Len(Logged)]
  <2>1. t \in Seq(S) /\ Logged \in Seq(S)
    BY <1>4, <1>7
  <2>2. /\ Len(Logged \o t) = Len(Logged) + Len(t)
        /\ \A k \in 1..(Len(Logged) + Len(t)) :
             (Logged \o t)[k] = IF k <= Len(Logged) THEN Logged[k] ELSE t[k - Len(Logged)]
    BY <2>1, ConcatProperties
  <2>3. Len(Logged) \in Nat
    BY <2>1, LenProperties
  <2> QED
    BY <1>4, <1>7, <2>2, <2>3
<1>9. \A k \in 1..Len(Logged) : Logged'[k] = Logged[k]
  BY <1>2, <1>4, <1>8
<1>10. \A j \in 1..Len(buf[p]) : Logged'[Len(Logged) + j] = t[j]
  <2> SUFFICES ASSUME NEW j \in 1..Len(buf[p]) PROVE Logged'[Len(Logged) + j] = t[j]
    OBVIOUS
  <2>1. /\ Len(Logged) + j \in 1..(Len(Logged) + Len(t)) /\ ~(Len(Logged) + j <= Len(Logged))
        /\ (Len(Logged) + j) - Len(Logged) = j
    BY <1>2, <1>4, <1>8
  <2> QED
    BY <1>8, <2>1
<1> QED
  BY <1>1, <1>2, <1>5, <1>6, <1>8, <1>9, <1>10


\* Steps that log nothing new keep the log in order.
LEMMA QuietLog ==
  ASSUME BaseInv, LogInv, LogTypes', Logged' = Logged,
         \A c \in Clients : got'[c] \in Nat /\ got'[c] >= got[c],
         \A p \in Procs : Serving(p)' =>
           /\ Serving(p) /\ serves'[p] = serves[p]
           /\ got'[serves[p]] - Pending(p)' = got[serves[p]] - Pending(p)
  PROVE  LogInv'
<1>1. StoredInOrder'
  <2>1. LogTypes /\ StoredInOrder /\ Len(Logged') <= Len(Logged)
    BY LoggedFacts DEF LogInv, LoggedType
  <2> QED
    BY <2>1, BeginningInOrder
<1>2. ASSUME NEW p \in Procs, Serving(p)'
      PROVE  Numbers(Logged', Len(Logged'), serves'[p]) = 1..(got'[serves'[p]] - Pending(p)')
  BY <1>2 DEF LogInv
<1> QED
  BY <1>1, <1>2 DEF LogInv

LEMMA ForkLog ==
  ASSUME BaseInv, EchoInv, LogInv, LogTypes', Logged' = Logged, [Next]_forkVars
  PROVE  LogInv'
<1>a. /\ \A c \in Clients : got[c] \in Nat
      /\ pstate \in [Procs -> {"none", "read", "write", "log", "exit", "zombie", "logger"}]
      /\ buf \in [Procs -> Seq(Nat)] /\ serves \in [Procs -> Clients \cup {Nobody}]
      /\ got \in [Clients -> Nat]
  BY DEF BaseInv, Types, ProcTypes, NetTypes
<1>1. ASSUME NEW p \in Procs, ChildRead(p) PROVE LogInv'
  <2> DEFINE c == serves[p]
             n == Chunk(c)
  <2>1. /\ c \in Clients /\ n \in Nat \ {0} /\ got' = [got EXCEPT ![c] = @ + n]
        /\ serves' = serves
        /\ \/ Ends(p)
           \/ /\ pstate' = [pstate EXCEPT ![p] = "write"]
              /\ buf' = [buf EXCEPT ![p] = [j \in 1..n |-> got[c] + j]]
    BY <1>1, ReadFacts
  <2>2. /\ pstate[p] = "read" /\ \A q \in Procs : q # p /\ Serving(q) => serves[q] # c
    BY <1>1, OneChild DEF ChildRead, Serving
  <2> HIDE DEF c, n
  <2>3. got'[c] = got[c] + n /\ \A d \in Clients : d # c => got'[d] = got[d]
    BY <1>a, <2>1
  <2>4. ASSUME NEW q \in Procs, Serving(q)'
        PROVE  /\ Serving(q) /\ serves'[q] = serves[q]
               /\ got'[serves[q]] - Pending(q)' = got[serves[q]] - Pending(q)
    <3>1. CASE q = p
      <4>1. /\ pstate'[p] = "write" /\ buf'[p] = [j \in 1..n |-> got[c] + j]
        BY <1>a, <2>1, <2>4, <3>1 DEF Ends, Serving
      <4>2. Len(buf'[p]) = n
        BY <2>1, <4>1
      <4>3. Pending(p)' = n /\ Pending(p) = 0
        BY <2>2, <4>1, <4>2 DEF Pending
      <4> QED
        BY <1>a, <2>1, <2>2, <2>3, <3>1, <4>3 DEF Serving, c
    <3>2. CASE q # p
      <4>1. pstate'[q] = pstate[q] /\ buf'[q] = buf[q] /\ Serving(q)
        BY <1>a, <2>1, <2>4, <3>2 DEF Ends, Serving
      <4>2. serves[q] \in Clients /\ serves[q] # c
        BY <2>2, <3>2, <4>1, OneChild
      <4> QED
        BY <2>1, <2>3, <4>1, <4>2 DEF Pending
    <3> QED
      BY <3>1, <3>2
  <2>5. \A d \in Clients : got'[d] \in Nat /\ got'[d] >= got[d]
    BY <1>a, <2>1, <2>3
  <2> QED
    BY <2>4, <2>5, QuietLog
<1>2. ASSUME NEW p \in Procs, Fork(p) PROVE LogInv'
  <2>1. clnt_sock \in Clients /\ got[clnt_sock] = 0
    BY <1>2 DEF Fork, EchoInv, Fresh, BaseInv, OwnInv, Types, ProcTypes
  <2>2. /\ pstate' = [pstate EXCEPT ![p] = "read"] /\ serves' = [serves EXCEPT ![p] = clnt_sock]
        /\ UNCHANGED <<buf, got>>
    BY <1>2 DEF Fork, netVars
  <2>3. LoggedType(Logged)
    BY LoggedFacts DEF LogInv
  <2>4. Numbers(Logged, Len(Logged), clnt_sock) = {}
    <3>1. \A k \in 1..Len(Logged) : Logged[k][1] # clnt_sock
      BY <2>1, <2>3 DEF LogInv, StoredInOrder, LoggedType
    <3> QED
      BY <3>1 DEF Numbers
  <2>5. ASSUME NEW q \in Procs, Serving(q)'
        PROVE  Numbers(Logged, Len(Logged), serves'[q]) = 1..(got[serves'[q]] - Pending(q)')
    <3>1. CASE q = p
      <4>1. serves'[q] = clnt_sock /\ Pending(q)' = 0
        BY <1>a, <2>2, <3>1 DEF Pending
      <4> QED
        BY <2>1, <2>4, <4>1, SMTT(30)
    <3>2. CASE q # p
      BY <1>a, <2>2, <2>5, <3>2 DEF LogInv, Serving, Pending
    <3> QED
      BY <3>1, <3>2
  <2>6. StoredInOrder'
    BY <2>2 DEF LogInv, StoredInOrder
  <2> QED
    BY <2>2, <2>5, <2>6 DEF LogInv
<1>3. CASE /\ \A p \in Procs : ~ChildRead(p) /\ ~Fork(p)
  <2>1. UNCHANGED <<got, serves>>
    BY <1>3 DEF Next, forkVars, procVars, netVars, MainStep, Signal, ChildStep, ClientStep, Accept,
                CloseClient, Deliver, Reap, HandlerEnds, ChildEof, ChildWrite, ChildSigpipe,
                ChildExit, Ends, ClientSend, ClientShut, ClientEof, ClientEnds
  <2>2. ASSUME NEW p \in Procs, Serving(p)'
        PROVE  Serving(p) /\ Pending(p)' = Pending(p)
    <3>1. CASE UNCHANGED <<pstate, buf>>
      BY <2>2, <3>1 DEF Serving, Pending
    <3>2. CASE Reap
      BY <1>a, <2>2, <3>2 DEF Reap, HandlerEnds, Zombies, Serving, Pending
    <3>3. ASSUME NEW q \in Procs, Ends(q) PROVE Serving(p) /\ Pending(p)' = Pending(p)
      BY <1>a, <2>2, <3>3 DEF Ends, Serving, Pending
    <3>4. ASSUME NEW q \in Procs, ChildEof(q) PROVE Serving(p) /\ Pending(p)' = Pending(p)
      BY <1>a, <2>2, <3>4 DEF ChildEof, Serving, Pending
    <3>5. ASSUME NEW q \in Procs, ChildWrite(q) PROVE Serving(p) /\ Pending(p)' = Pending(p)
      BY <1>a, <2>2, <3>5, StoreAssumption DEF ChildWrite, Serving, Pending
    <3> QED
      BY <1>3, <3>1, <3>2, <3>3, <3>4, <3>5
      DEF Next, forkVars, procVars, MainStep, Signal, ChildStep, ClientStep, Accept,
          CloseClient, Deliver, ChildSigpipe, ChildExit, ClientSend, ClientShut, ClientEof,
          ClientEnds
  <2> QED
    BY <1>a, <2>1, <2>2, QuietLog
<1> QED
  BY <1>1, <1>2, <1>3

LEMMA StoreLog ==
  ASSUME BaseInv, EchoInv, LogInv, NEW p \in Procs, Store(p) PROVE LogInv'
<1> DEFINE c == serves[p]
           L == Len(buf[p])
           m == got[c] - L
           N == Len(Logged)
<1>1. /\ LogTypes' /\ c \in Clients /\ pstate[p] = "log" /\ L \in Nat /\ Len(Logged') = N + L
      /\ \A k \in 1..N : Logged'[k] = Logged[k]
      /\ \A j \in 1..L : Logged'[N + j] = <<c, m + j>>
  BY StoreFacts DEF LogInv
<1>2. got[c] \in Nat /\ m \in Nat /\ N \in Nat /\ LoggedType(Logged) /\ LoggedType(Logged')
  <2>1. got[c] \in Nat /\ L \in 1..got[c]
    BY <1>1 DEF BaseInv, Types, NetTypes, EchoInv, InHand
  <2>2. LoggedType(Logged) /\ LoggedType(Logged')
    BY <1>1, LoggedFacts DEF LogInv
  <2> QED
    BY <2>1, <2>2 DEF LoggedType
<1>3. Numbers(Logged, N, c) = 1..m
  BY <1>1 DEF LogInv, Serving, Pending
<1>4. /\ UNCHANGED <<serves, got>> /\ pstate' = [pstate EXCEPT ![p] = "read"]
      /\ \A q \in Procs : q # p => buf'[q] = buf[q]
  BY DEF Store, netVars, BaseInv, Types, ProcTypes
<1>p. pstate \in [Procs -> {"none", "read", "write", "log", "exit", "zombie", "logger"}]
  BY DEF BaseInv, Types, ProcTypes
<1> HIDE DEF c, L, m, N
<1>5. ASSUME NEW j \in 0..L PROVE Numbers(Logged', N + j, c) = 1..(m + j)
  <2>1. ASSUME NEW x \in Numbers(Logged', N + j, c) PROVE x \in 1..(m + j)
    <3>1. PICK k \in 1..(N + j) : Logged'[k][1] = c /\ Logged'[k][2] = x
      BY DEF Numbers
    <3>2. CASE k <= N
      <4>1. k \in 1..N /\ Logged[k][1] = c /\ Logged[k][2] = x
        BY <1>1, <1>2, <3>1, <3>2
      <4>2. x \in Numbers(Logged, N, c)
        BY <4>1 DEF Numbers
      <4> QED
        BY <1>2, <1>3, <4>2
    <3>3. CASE k > N
      <4>1. k - N \in 1..L /\ N + (k - N) = k /\ k - N <= j
        BY <1>1, <1>2, <3>1, <3>3
      <4>2. x = m + (k - N)
        BY <1>1, <3>1, <4>1
      <4> QED
        BY <1>2, <4>1, <4>2
    <3> QED
      BY <1>2, <3>2, <3>3
  <2>2. ASSUME NEW x \in 1..(m + j) PROVE x \in Numbers(Logged', N + j, c)
    <3>1. CASE x <= m
      <4>1. x \in Numbers(Logged, N, c)
        BY <1>2, <1>3, <3>1
      <4>2. PICK k \in 1..N : Logged[k][1] = c /\ Logged[k][2] = x
        BY <4>1 DEF Numbers
      <4>3. k \in 1..(N + j) /\ Logged'[k] = Logged[k]
        BY <1>1, <1>2, <4>2
      <4> QED
        BY <4>2, <4>3 DEF Numbers
    <3>2. CASE x > m
      <4> DEFINE i == x - m
      <4>1. i \in 1..L /\ N + i \in 1..(N + j) /\ m + i = x
        BY <1>1, <1>2, <3>2
      <4>2. Logged'[N + i] = <<c, x>>
        BY <1>1, <4>1
      <4> HIDE DEF i
      <4> QED
        BY <4>1, <4>2 DEF Numbers
    <3> QED
      BY <1>2, <3>1, <3>2
  <2> QED
    BY <2>1, <2>2
<1>6. ASSUME NEW d, d # c PROVE Numbers(Logged', N + L, d) = Numbers(Logged, N, d)
  <2>1. \A k \in 1..(N + L) : Logged'[k][1] = d => k \in 1..N
    <3> SUFFICES ASSUME NEW k \in 1..(N + L), k > N PROVE Logged'[k][1] = c
      BY <1>1, <1>2, <1>6
    <3>1. k - N \in 1..L /\ N + (k - N) = k
      BY <1>1, <1>2
    <3>2. Logged'[k] = <<c, m + (k - N)>>
      BY <1>1, <3>1
    <3> QED
      BY <3>2
  <2>2. \A k \in 1..N : k \in 1..(N + L) /\ Logged'[k] = Logged[k]
    BY <1>1, <1>2
  <2> QED
    BY <2>1, <2>2 DEF Numbers
<1>7. StoredInOrder'
  <2> SUFFICES ASSUME NEW k \in 1..(N + L)
               PROVE  LET e == Logged'[k][1]
                          n == Logged'[k][2] IN
                      n \in 1..got[e] /\ Numbers(Logged', k - 1, e) = 1..(n - 1)
    BY <1>1, <1>2, <1>4 DEF StoredInOrder, LoggedType
  <2>1. CASE k <= N
    <3>1. k \in DOMAIN Logged /\ Logged'[k] = Logged[k] /\ k - 1 \in Int /\ k - 1 <= N
      BY <1>1, <1>2, <2>1 DEF LoggedType, N
    <3>2. Numbers(Logged', k - 1, Logged[k][1]) = Numbers(Logged, k - 1, Logged[k][1])
      BY <1>1, <1>2, <3>1 DEF Numbers
    <3> QED
      BY <3>1, <3>2 DEF LogInv, StoredInOrder
  <2>2. CASE k > N
    <3> DEFINE j == k - N
    <3>1. j \in 1..L /\ N + j = k /\ j - 1 \in 0..L /\ N + (j - 1) = k - 1
      BY <1>1, <1>2, <2>2
    <3>2. Logged'[k] = <<c, m + j>>
      BY <1>1, <3>1
    <3>3. Numbers(Logged', k - 1, c) = 1..(m + (j - 1))
      BY <1>5, <3>1
    <3>4. m + j \in 1..got[c] /\ m + (j - 1) = (m + j) - 1
      <4>1. m + L = got[c]
        BY <1>1, <1>2 DEF m
      <4> QED
        BY <1>1, <1>2, <3>1, <4>1
    <3> QED
      BY <3>2, <3>3, <3>4
  <2> QED
    BY <1>1, <1>2, <2>1, <2>2
<1>8. ASSUME NEW q \in Procs, Serving(q)'
      PROVE  Numbers(Logged', Len(Logged'), serves'[q]) = 1..(got'[serves'[q]] - Pending(q)')
  <2>1. CASE q = p
    <3>1. Pending(q)' = 0 /\ serves'[q] = c /\ m + L = got[c]
      BY <1>1, <1>2, <1>4, <1>p, <2>1 DEF Pending, c, m
    <3>2. Numbers(Logged', N + L, c) = 1..(m + L)
      BY <1>1, <1>5
    <3> QED
      BY <1>1, <1>2, <1>4, <3>1, <3>2
  <2>2. CASE q # p
    <3>1. pstate'[q] = pstate[q] /\ Serving(q) /\ Pending(q)' = Pending(q)
      BY <1>4, <1>p, <1>8, <2>2 DEF Serving, Pending
    <3>2. serves[q] # c
      BY <1>1, <2>2, <3>1, OneChild DEF Serving, c
    <3> QED
      BY <1>1, <1>4, <1>6, <3>1, <3>2 DEF LogInv, N
  <2> QED
    BY <2>1, <2>2
<1> QED
  BY <1>1, <1>7, <1>8 DEF LogInv

LEMMA LogKept ==
  BaseInv /\ EchoInv /\ LogInv /\ [StoreNext]_vars => LogInv'
<1> SUFFICES ASSUME BaseInv, EchoInv, LogInv, [StoreNext]_vars PROVE LogInv'
  OBVIOUS
<1>g. \A c \in Clients : got[c] \in Nat
  BY DEF BaseInv, Types, NetTypes
<1>1. CASE [Next]_forkVars /\ (Log \/ UNCHANGED logVars)
  <2>1. LogTypes' /\ Logged' = Logged
    BY <1>1, LogFacts DEF LogInv, LogTypes, Logged, logVars
  <2> QED
    BY <1>1, <2>1, ForkLog
<1>2. ASSUME NEW p \in Procs, Store(p) PROVE LogInv'
  BY <1>2, StoreLog
<1>3. CASE LogEnds
  <2>1. Ends(Logger) /\ UNCHANGED <<got, serves>>
    BY <1>3 DEF LogEnds, Ends, netVars
  <2>2. \A p \in Procs : Serving(p)' => Serving(p) /\ Pending(p)' = Pending(p)
    BY <2>1 DEF Ends, Serving, Pending, BaseInv, Types, ProcTypes
  <2>3. LogTypes' /\ Logged' = Logged
    BY <1>3, LogEndFacts DEF LogInv
  <2> QED
    BY <1>g, <2>1, <2>2, <2>3, QuietLog
<1>4. CASE Interrupt
  <2>1. /\ file' = file /\ stdio' = <<>> /\ pipe' = <<>> /\ got' = got
        /\ \A p \in Procs : ~Serving(p)'
    BY <1>4 DEF Interrupt, netVars, Serving
  <2>2. LogTypes /\ LogTypes'
    BY <2>1 DEF LogInv, LogTypes
  <2> DEFINE S == Clients \X Nat
             r == stdio \o pipe
  <2>3. file \in Seq(S) /\ stdio \in Seq(S) /\ pipe \in Seq(S)
    BY <2>2 DEF LogTypes
  <2> HIDE DEF S
  <2>4. Logged' = file
    BY <2>1, <2>3, ConcatEmptySeq DEF Logged
  <2>5. Logged = file \o r
    BY <2>3, ConcatAssociative DEF Logged
  <2>6. r \in Seq(S)
    BY <2>3, ConcatProperties
  <2> HIDE DEF r
  <2>7. /\ Len(file \o r) = Len(file) + Len(r)
        /\ \A k \in 1..(Len(file) + Len(r)) : (file \o r)[k] = IF k <= Len(file) THEN file[k] ELSE r[k - Len(file)]
    BY <2>3, <2>6, ConcatProperties
  <2>8. Len(file) \in Nat /\ Len(r) \in Nat
    BY <2>3, <2>6, LenProperties
  <2>9. Len(Logged') <= Len(Logged) /\ \A k \in 1..Len(Logged') : Logged'[k] = Logged[k]
    BY <2>4, <2>5, <2>7, <2>8
  <2>10. StoredInOrder'
    BY <1>g, <2>1, <2>2, <2>9, BeginningInOrder DEF LogInv
  <2> QED
    BY <2>1, <2>2, <2>10 DEF LogInv
<1> QED
  BY <1>1, <1>2, <1>3, <1>4, StepKinds

\* What was logged of a client, in the file, the FILE's buffer and the pipe, is
\* what it sent, in order and without gaps, whatever the children's writes, the
\* logger's reads and an interrupt of the program cut.
THEOREM LogInOrder == StoreSpec => []StoredInOrder
<1>1. LogInv => StoredInOrder
  BY DEF LogInv
<1> QED
  BY <1>1, InitStore, BaseKept, LogKept, PTL DEF StoreSpec
=============================================================================
