--------------------------- MODULE EpollServerProof ---------------------------
(***************************************************************************)
(* Proofs about EpollServer: for all four programs, that events do not go  *)
(* stale; for those with blocking sockets, that they never block in read   *)
(* and implement EchoService.  They hold for every number of clients and   *)
(* descriptors and all sizes of buffers, batches and messages.             *)
(***************************************************************************)
EXTENDS EpollServer, FiniteSetTheorems, SequenceTheorems, TLAPS

\* A descriptor names a client that was accepted, and no other one names it.
TableInv ==
  \A f \in Fds : fdTab[f] # Nobody =>
    conn[fdTab[f]] # "pending" /\ \A g \in Fds : fdTab[g] = fdTab[f] => g = f

\* The events of a batch are of different descriptors, and all still true but
\* the one being handled, which is until it has been read.
Current ==
  /\ \A j, k \in 1..Len(batch) : batch[j] = batch[k] => j = k
  /\ \A k \in 1..Len(batch) : batch[k] = Serv => Accepting
  /\ \A k \in 1..Len(batch) : batch[k] # Serv =>
       /\ fdTab[batch[k]] # Nobody
       /\ k > 1 \/ (buf = <<>> /\ ~Drain) => Readable(batch[k])

\* Bytes in buf belong to the client of the event being handled.
InHand == buf # <<>> => batch # <<>> /\ Head(batch) # Serv

ReadWasSent == \A c \in Clients : got[c] <= sent[c]

BaseInv == TypeOK /\ TableInv /\ Current /\ InHand /\ ReadWasSent

(***************************************************************************)
(* Lemmas on sequences.                                                    *)
(***************************************************************************)
\* The first m bytes and the n that follow are the first m + n.
LEMMA FirstBytesConcat ==
  ASSUME NEW m \in Nat, NEW S, NEW s \in Seq(S),
         \A j \in 1..Len(s) : s[j] = m + j
  PROVE  Echo!FirstBytes(m) \o s = Echo!FirstBytes(m + Len(s))
<1> DEFINE f == Echo!FirstBytes(m)
           T == Nat \cup S
<1>1. f \in Seq(T) /\ Len(f) = m /\ \A j \in 1..m : f[j] = j
  BY DEF Echo!FirstBytes
<1>2. s \in Seq(T) /\ Len(s) \in Nat
  BY SeqMonotonic, LenProperties
<1> HIDE DEF f, T
<1>3. f \o s \in Seq(T) /\ Len(f \o s) = m + Len(s)
  BY <1>1, <1>2, ConcatProperties
<1>4. \A j \in 1..(m + Len(s)) : (f \o s)[j] = IF j <= m THEN f[j] ELSE s[j - m]
  BY <1>1, <1>2, ConcatProperties
<1>5. \A j \in 1..(m + Len(s)) : (f \o s)[j] = j
  BY <1>1, <1>2, <1>4
<1>6. f \o s \in [1..(m + Len(s)) -> T]
  BY <1>3, LenProperties
<1> QED
  BY <1>5, <1>6 DEF Echo!FirstBytes

LEMMA SubSeqFacts ==
  ASSUME NEW S, NEW s \in Seq(S), NEW m \in Nat \ {0}, NEW n \in Int, n <= Len(s)
  PROVE  /\ SubSeq(s, m, n) \in Seq(S)
         /\ Len(SubSeq(s, m, n)) = IF m <= n THEN n - m + 1 ELSE 0
         /\ \A j \in 1..(n - m + 1) : SubSeq(s, m, n)[j] = s[m + j - 1]
OBVIOUS

LEMMA PrefixFacts ==
  ASSUME NEW S, NEW s \in Seq(S), NEW n \in Nat \ {0}, n <= Len(s)
  PROVE  /\ SubSeq(s, 1, n) \in Seq(S) /\ Len(SubSeq(s, 1, n)) = n
         /\ \A j \in 1..n : SubSeq(s, 1, n)[j] = s[j]
OBVIOUS

\* What is left of s after its first n elements.
LEMMA RestFacts ==
  ASSUME NEW S, NEW s \in Seq(S), NEW n \in Nat, n <= Len(s)
  PROVE  /\ SubSeq(s, n + 1, Len(s)) \in Seq(S)
         /\ Len(SubSeq(s, n + 1, Len(s))) = Len(s) - n
         /\ \A j \in 1..(Len(s) - n) : SubSeq(s, n + 1, Len(s))[j] = s[n + j]
OBVIOUS

LEMMA OrdersType ==
  ASSUME NEW S, S \subseteq Fds \cup {Serv}, NEW q \in Orders(S)
  PROVE  q \in Seq(Fds \cup {Serv})
<1>1. IsFiniteSet(S)
  BY FS_AddElement, FS_Subset, ConstantsAssumption
<1>2. Cardinality(S) \in Nat
  BY <1>1, FS_CardinalityType
<1> QED
  BY <1>2 DEF Orders

(***************************************************************************)
(* Types, the descriptor table and the batch.                              *)
(***************************************************************************)
LEMMA InitBase == Init => BaseInv
<1> SUFFICES ASSUME Init PROVE BaseInv
  OBVIOUS
<1> USE ConstantsAssumption DEF Init
<1>1. TypeOK
  BY DEF TypeOK, ConnState
<1>2. TableInv /\ Current /\ InHand /\ ReadWasSent
  BY DEF TableInv, Current, InHand, ReadWasSent
<1> QED
  BY <1>1, <1>2 DEF BaseInv

\* The event being handled, when it is a client's.
LEMMA HeadEvent ==
  ASSUME TypeOK, Current, batch # <<>>, Head(batch) # Serv
  PROVE  /\ Head(batch) = batch[1] /\ 1 \in 1..Len(batch)
         /\ Head(batch) \in Fds /\ Peer \in Clients
<1>1. Len(batch) \in Nat \ {0} /\ Head(batch) = batch[1] /\ batch[1] \in Fds
  BY DEF TypeOK
<1> QED
  BY <1>1 DEF TypeOK, Current, Peer

\* What a write takes from buf: never more than is there.
LEMMA WrittenPart ==
  ASSUME TypeOK, Current, InHand, WriteData
  PROVE  \E n \in Int :
           /\ n <= Len(buf) /\ (n > 0 \/ Drain)
           /\ echoed' = [echoed EXCEPT ![Peer] = @ \o SubSeq(buf, 1, n)]
           /\ buf' = IF Drain THEN <<>> ELSE SubSeq(buf, n + 1, Len(buf))
<1> DEFINE n == Least(Len(buf), Room(Peer))
<1>1. Len(buf) \in Nat /\ Peer \in Clients
  BY HeadEvent DEF TypeOK, InHand, WriteData, Written
<1>2. Room(Peer) \in Int
  BY <1>1, ConstantsAssumption DEF TypeOK, Room
<1>3. n \in Int /\ n <= Len(buf)
  BY <1>1, <1>2 DEF Least
<1>4. /\ n > 0 \/ Drain
      /\ echoed' = [echoed EXCEPT ![Peer] = @ \o SubSeq(buf, 1, n)]
      /\ buf' = IF ~Drain THEN SubSeq(buf, n + 1, Len(buf)) ELSE <<>>
  BY DEF WriteData, Written
<1> HIDE DEF n
<1> QED
  BY <1>3, <1>4, ConstantsAssumption

LEMMA TailType ==
  ASSUME TypeOK, batch # <<>>
  PROVE  /\ Tail(batch) \in Seq(Fds \cup {Serv}) /\ Len(Tail(batch)) = Len(batch) - 1
         /\ \A k \in 1..Len(Tail(batch)) : Tail(batch)[k] = batch[k + 1]
BY HeadTailProperties DEF TypeOK

\* What a read takes: some of what was sent and not read.
LEMMA TakenPart ==
  ASSUME TypeOK, Current, NEW f \in Fds, ReadData(f)
  PROVE  /\ Peer \in Clients /\ f = Head(batch) /\ batch # <<>> /\ buf = <<>>
         /\ \E n \in Nat \ {0} :
              /\ n <= sent[Peer] - got[Peer]
              /\ buf' = [j \in 1..n |-> got[Peer] + j]
              /\ got' = [got EXCEPT ![Peer] = @ + n]
<1>1. Peer \in Clients /\ f = Head(batch) /\ batch # <<>> /\ buf = <<>>
  BY HeadEvent, ConstantsAssumption DEF ReadData, At, Serv
<1>2. fdTab[f] = Peer
  BY <1>1 DEF Peer
<1>3. Unread(Peer) \in Int
  BY <1>1 DEF TypeOK, Unread
<1>4. Chunk(f) \in Int /\ Chunk(f) <= sent[Peer] - got[Peer]
  BY <1>2, <1>3, ConstantsAssumption DEF Chunk, Least, Unread
<1>5. /\ Chunk(f) > 0 /\ buf' = [j \in 1..Chunk(f) |-> got[Peer] + j]
      /\ got' = [got EXCEPT ![Peer] = @ + Chunk(f)]
  BY <1>2 DEF ReadData, Taken
<1> QED
  <2>1. Chunk(f) \in Nat \ {0}
    BY <1>4, <1>5
  <2>2. \E n \in Nat \ {0} :
          /\ n <= sent[Peer] - got[Peer]
          /\ buf' = [j \in 1..n |-> got[Peer] + j]
          /\ got' = [got EXCEPT ![Peer] = @ + n]
    <3> WITNESS Chunk(f) \in Nat \ {0}
    <3> QED
      BY <1>4, <1>5
  <2> QED
    BY <1>1, <2>2

LEMMA StepType ==
  ASSUME BaseInv, Next PROVE TypeOK' /\ ReadWasSent'
<1> USE ConstantsAssumption DEF BaseInv, TypeOK, ReadWasSent
<1>1. ASSUME NEW c \in Clients, ClientStep(c) PROVE TypeOK' /\ ReadWasSent'
  <2>0. edge' = edge \/ edge' \subseteq Fds
    BY <1>1 DEF ClientStep, ClientSend, ClientRead, ClientClose, News
  <2>1. CASE ClientSend(c)
    <3>1. PICK m \in (sent[c] + 1)..MaxBytes : sent' = [sent EXCEPT ![c] = m]
      BY <2>1 DEF ClientSend
    <3>2. sent' \in [Clients -> 0..MaxBytes] /\ \A d \in Clients : sent[d] <= sent'[d]
      BY <3>1
    <3>3. UNCHANGED <<batch, buf, fdTab, conn, got, echoed, seen, alive>>
      BY <2>1 DEF ClientSend
    <3>4. \A d \in Clients : got'[d] <= sent'[d]
      BY <3>2, <3>3
    <3> QED
      BY <2>0, <3>2, <3>3, <3>4
  <2>2. CASE ClientRead(c)
    <3>1. seen' \in [Clients -> Nat]
      BY <2>2 DEF ClientRead
    <3> QED
      BY <2>2, <3>1 DEF ClientRead
  <2>3. CASE ClientClose(c)
    <3>1. conn' \in [Clients -> ConnState]
      BY <2>3 DEF ClientClose, ConnState
    <3> QED
      BY <2>0, <2>3, <3>1 DEF ClientClose
  <2> QED
    BY <1>1, <2>1, <2>2, <2>3 DEF ClientStep
<1>2. CASE EpollWait
  <2>1. PICK S \in SUBSET Ready : batch' \in Orders(S) /\ edge' = edge \ S
    BY <1>2 DEF EpollWait
  <2>2. batch' \in Seq(Fds \cup {Serv})
    BY <2>1, OrdersType DEF Ready
  <2> QED
    BY <1>2, <2>1, <2>2 DEF EpollWait
<1>3. ASSUME NEW c \in Clients, Accept(c) PROVE TypeOK' /\ ReadWasSent'
  <2>1. conn' \in [Clients -> ConnState]
    BY <1>3 DEF Accept, ConnState
  <2>2. fdTab' \in [Fds -> Clients \cup {Nobody}]
    BY <1>3 DEF Accept, FreeFds
  <2>3. batch' \in Seq(Fds \cup {Serv})
    BY <1>3, TailType DEF Accept, At
  <2> QED
    BY <1>3, <2>1, <2>2, <2>3 DEF Accept
<1>4. CASE AcceptFails
  BY <1>4, TailType DEF AcceptFails, At
<1>5. ASSUME NEW f \in Fds, Read(f) PROVE TypeOK' /\ ReadWasSent'
  <2>0. batch # <<>>
    BY <1>5 DEF Read, ReadData, ReadEof, Eof, ReadReset, ReadAgain, At
  <2>1. CASE ReadData(f)
    <3>1. PICK n \in Nat \ {0} : /\ n <= sent[Peer] - got[Peer]
                                 /\ buf' = [j \in 1..n |-> got[Peer] + j]
                                 /\ got' = [got EXCEPT ![Peer] = @ + n]
      BY <2>1, TakenPart
    <3>2. Peer \in Clients
      BY <2>1, TakenPart
    <3>3. \A j \in 1..n : got[Peer] + j \in 1..MaxBytes
      <4>1. got[Peer] \in Nat /\ sent[Peer] \in 0..MaxBytes
        BY <3>2
      <4> HIDE DEF BaseInv, TypeOK
      <4> QED
        BY SMTT(30), <3>1, <4>1
    <3>4. buf' \in Seq(1..MaxBytes)
      <4> HIDE DEF BaseInv, TypeOK
      <4> QED
        BY <3>1, <3>3
    <3>5. got' \in [Clients -> 0..MaxBytes] /\ \A c \in Clients : got'[c] <= sent[c]
      BY <3>1, <3>2
    <3> QED
      BY <2>1, <3>4, <3>5 DEF ReadData, Taken
  <2>2. CASE ReadEof(f)
    <3>1. fdTab' \in [Fds -> Clients \cup {Nobody}] /\ edge' \subseteq Fds
      BY <2>2 DEF ReadEof, Eof
    <3> QED
      BY <2>0, <2>2, <3>1, TailType DEF ReadEof, Eof
  <2>3. CASE ReadReset(f)
    <3>1. conn' \in [Clients -> ConnState]
      BY <2>3 DEF ReadReset, ConnState
    <3> QED
      BY <2>0, <2>3, <3>1, TailType DEF ReadReset, AfterIo
  <2>4. CASE ReadAgain(f)
    BY <2>0, <2>4, TailType DEF ReadAgain
  <2> QED
    BY <1>5, <2>1, <2>2, <2>3, <2>4 DEF Read
<1>6. CASE Write
  <2>0. Peer \in Clients /\ batch # <<>>
    BY <1>6, HeadEvent DEF Write, WriteData, Written, WriteToClosed, WriteSigpipe, InHand
  <2>1. CASE WriteData
    <3>1. PICK n \in Int :
             /\ n <= Len(buf) /\ (n > 0 \/ Drain)
             /\ echoed' = [echoed EXCEPT ![Peer] = @ \o SubSeq(buf, 1, n)]
             /\ buf' = IF Drain THEN <<>> ELSE SubSeq(buf, n + 1, Len(buf))
      BY <2>1, WrittenPart
    <3>2. SubSeq(buf, 1, n) \in Seq(1..MaxBytes) /\ buf' \in Seq(1..MaxBytes)
      <4>1. SubSeq(buf, 1, n) \in Seq(1..MaxBytes)
        BY <3>1, SubSeqFacts
      <4>2. ASSUME ~Drain PROVE SubSeq(buf, n + 1, Len(buf)) \in Seq(1..MaxBytes)
        <5>1. n \in Nat
          BY <3>1, <4>2
        <5> QED
          BY <3>1, <5>1, RestFacts
      <4>3. CASE Drain
        BY <3>1, <4>1, <4>3
      <4>4. CASE ~Drain
        BY <3>1, <4>1, <4>2, <4>4
      <4> QED
        BY <4>3, <4>4
    <3>3. echoed[Peer] \o SubSeq(buf, 1, n) \in Seq(1..MaxBytes)
      BY <2>0, <3>2, ConcatProperties
    <3>4. echoed' \in [Clients -> Seq(1..MaxBytes)]
      BY <2>0, <3>1, <3>3
    <3> QED
      BY <2>0, <2>1, <3>2, <3>4, TailType DEF WriteData, Written, AfterIo
  <2>2. CASE WriteToClosed
    <3>1. \E s \in {"closed", "reset"} : conn' = [conn EXCEPT ![Peer] = s]
      BY <2>2 DEF WriteToClosed
    <3>2. conn' \in [Clients -> ConnState]
      BY <3>1 DEF ConnState
    <3>3. buf' \in Seq(1..MaxBytes) /\ UNCHANGED <<edge, fdTab, sent, got, echoed, seen, alive>>
      BY <2>2 DEF WriteToClosed
    <3>4. batch' \in Seq(Fds \cup {Serv})
      BY <2>0, <2>2, TailType DEF WriteToClosed, AfterIo
    <3> QED
      BY <3>2, <3>3, <3>4
  <2>3. CASE WriteSigpipe
    BY <2>3 DEF WriteSigpipe
  <2> QED
    BY <1>6, <2>1, <2>2, <2>3 DEF Write
<1> QED
  BY <1>1, <1>2, <1>3, <1>4, <1>5, <1>6 DEF Next, ServerStep

(***************************************************************************)
(* The steps, seen from the batch: it stays, loses its head, or is new.    *)
(***************************************************************************)
LEMMA StepTable ==
  ASSUME BaseInv, Next PROVE TableInv'
<1> USE DEF BaseInv, TypeOK, TableInv
<1>1. ASSUME NEW c \in Clients, Accept(c) PROVE TableInv'
  <2>1. PICK g \in Fds : fdTab[g] = Nobody /\ fdTab' = [fdTab EXCEPT ![g] = c]
    BY <1>1 DEF Accept, FreeFds
  <2>2. conn[c] = "pending" /\ conn' = [conn EXCEPT ![c] = "up"]
    BY <1>1 DEF Accept
  <2>3. \A f \in Fds : fdTab[f] = c => c = Nobody
    BY <2>2
  <2> QED
    BY <2>1, <2>2, <2>3
<1>2. CASE fdTab' = fdTab /\ \A c \in Clients : conn'[c] = "pending" => conn[c] = "pending"
  BY <1>2
<1>3. ASSUME NEW f \in Fds, ReadEof(f) PROVE TableInv'
  BY <1>3 DEF ReadEof, Eof
<1>4. ASSUME NEW c \in Clients, ClientStep(c)
      PROVE  fdTab' = fdTab /\ \A d \in Clients : conn'[d] = "pending" => conn[d] = "pending"
  BY <1>4 DEF ClientStep, ClientSend, ClientRead, ClientClose
<1>5. ASSUME EpollWait \/ AcceptFails \/ (\E f \in Fds : ReadData(f) \/ ReadAgain(f))
      PROVE  UNCHANGED <<fdTab, conn>>
  BY <1>5 DEF EpollWait, AcceptFails, ReadData, Taken, ReadAgain
<1>6. ASSUME Write \/ (\E f \in Fds : ReadReset(f))
      PROVE  fdTab' = fdTab /\ \A d \in Clients : conn'[d] = "pending" => conn[d] = "pending"
  BY <1>6 DEF Write, WriteData, Written, WriteToClosed, WriteSigpipe, ReadReset
<1> QED
  BY <1>1, <1>2, <1>3, <1>4, <1>5, <1>6 DEF Next, ServerStep, Read

LEMMA StepInHand ==
  ASSUME BaseInv, Next PROVE InHand'
<1> USE DEF BaseInv, InHand
<1>1. CASE buf' = <<>>
  BY <1>1
<1>2. CASE buf' = buf /\ (batch' = batch \/ buf = <<>>)
  BY <1>2
<1>3. ASSUME NEW f \in Fds, ReadData(f) PROVE InHand'
  BY <1>3, ConstantsAssumption DEF ReadData, Taken, At, Serv
<1>4. CASE WriteData
  <2>1. buf # <<>> /\ (buf' = <<>> \/ batch' = batch)
    BY <1>4 DEF WriteData, Written
  <2> QED
    BY <2>1
<1>5. CASE WriteToClosed \/ WriteSigpipe
  BY <1>5, <1>1, <1>2 DEF WriteToClosed, WriteSigpipe
<1>6. ASSUME \E c \in Clients : ClientStep(c) PROVE UNCHANGED <<batch, buf>>
  BY <1>6 DEF ClientStep, ClientSend, ClientRead, ClientClose
<1>7. ASSUME EpollWait PROVE InHand'
  <2>1. buf' = buf /\ batch = <<>>
    BY <1>7 DEF EpollWait
  <2> QED
    BY <2>1
<1>8. ASSUME \/ AcceptFails \/ \E c \in Clients : Accept(c)
             \/ \E f \in Fds : ReadEof(f) \/ ReadReset(f) \/ ReadAgain(f)
      PROVE  buf' = buf /\ buf = <<>>
  BY <1>8 DEF AcceptFails, Accept, ReadEof, Eof, ReadReset, ReadAgain, At
<1> QED
  BY <1>2, <1>3, <1>4, <1>5, <1>6, <1>7, <1>8 DEF Next, ServerStep, Read, Write

(***************************************************************************)
(* Current survives a step that leaves the batch or drops its head if what *)
(* it says of each remaining event still holds.                            *)
(***************************************************************************)
NowReadable(f) ==
  fdTab'[f] # Nobody /\ (sent'[fdTab'[f]] - got'[fdTab'[f]] > 0 \/ conn'[fdTab'[f]] # "up")
StillOpen(f) == fdTab'[f] # Nobody /\ (Readable(f) => NowReadable(f))
Keeps(k) ==
  /\ batch[k] = Serv => Accepting'
  /\ \A f \in Fds : batch[k] = f => StillOpen(f)

LEMMA ClientEvent ==
  ASSUME TypeOK, NEW k \in 1..Len(batch), batch[k] # Serv PROVE batch[k] \in Fds
<1>1. batch[k] \in Fds \cup {Serv}
  BY DEF TypeOK
<1> QED
  BY <1>1

LEMMA CurrentTail ==
  ASSUME BaseInv, batch # <<>>, batch' = Tail(batch),
         \A k \in 2..Len(batch) : Keeps(k)
  PROVE  Current'
<1> USE ConstantsAssumption DEF BaseInv, Serv
<1>1. /\ Len(batch) \in Nat /\ Len(batch') = Len(batch) - 1
      /\ \A k \in 1..Len(batch') : batch'[k] = batch[k + 1]
  BY TailType DEF TypeOK
<1>2. \A k \in 1..Len(batch') : k + 1 \in 2..Len(batch) /\ k + 1 \in 1..Len(batch)
  BY <1>1
<1>3. ASSUME NEW k \in 1..Len(batch'), batch'[k] # Serv
      PROVE  fdTab'[batch'[k]] # Nobody /\ NowReadable(batch'[k])
  <2>1. PICK f \in Fds : f = batch[k + 1] /\ f = batch'[k]
    BY <1>1, <1>2, <1>3, ClientEvent
  <2>2. Readable(f) /\ StillOpen(f)
    BY <1>2, <2>1 DEF Current, Keeps
  <2> QED
    BY <2>1, <2>2 DEF StillOpen
<1>4. \A k \in 1..Len(batch') : batch'[k] = Serv => Accepting'
  BY <1>1, <1>2 DEF Keeps
<1>5. \A j, k \in 1..Len(batch') : batch'[j] = batch'[k] => j = k
  BY <1>1, <1>2 DEF Current
<1> QED
  BY <1>3, <1>4, <1>5 DEF Current, Readable, Unread, NowReadable

LEMMA CurrentStays ==
  ASSUME BaseInv, batch' = batch, buf' = buf \/ buf' # <<>> \/ Drain,
         \A k \in 1..Len(batch) : Keeps(k)
  PROVE  Current'
<1> USE ConstantsAssumption DEF BaseInv, Serv
<1>1. ASSUME NEW k \in 1..Len(batch), batch[k] # Serv
      PROVE  /\ fdTab'[batch[k]] # Nobody
             /\ k > 1 \/ (buf' = <<>> /\ ~Drain) => NowReadable(batch[k])
  <2>1. PICK f \in Fds : f = batch[k]
    BY <1>1, ClientEvent
  <2>2. StillOpen(f) /\ (k > 1 \/ (buf = <<>> /\ ~Drain) => Readable(f))
    BY <1>1, <2>1 DEF Current, Keeps
  <2> QED
    BY <2>1, <2>2 DEF StillOpen
<1>2. \A k \in 1..Len(batch) : batch[k] = Serv => Accepting'
  BY DEF Keeps
<1>3. batch'[1] = batch[1] /\ Len(batch') = Len(batch)
  OBVIOUS
<1> QED
  BY <1>1, <1>2, <1>3 DEF Current, Readable, Unread, NowReadable

\* A step that only adds what there is to read keeps every event.
LEMMA KeepsAll ==
  ASSUME BaseInv, UNCHANGED <<fdTab, got>>,
         \A c \in Clients : /\ sent'[c] \in Nat /\ sent'[c] >= sent[c]
                            /\ conn[c] = "pending" <=> conn'[c] = "pending"
                            /\ conn[c] # "up" => conn'[c] # "up"
  PROVE  \A k \in 1..Len(batch) : Keeps(k)
<1> USE ConstantsAssumption DEF BaseInv, Serv
<1> SUFFICES ASSUME NEW k \in 1..Len(batch) PROVE Keeps(k)
  OBVIOUS
<1>1. Accepting => Accepting'
  BY DEF Accepting
<1>2. ASSUME NEW f \in Fds, batch[k] = f PROVE StillOpen(f)
  <2>1. batch[k] # Serv
    BY <1>2
  <2>2. fdTab[f] # Nobody /\ fdTab[f] \in Clients \cup {Nobody}
    BY <1>2, <2>1 DEF Current, TypeOK
  <2> QED
    BY <2>2 DEF StillOpen, NowReadable, Readable, Unread, TypeOK
<1>3. batch[k] = Serv => Accepting
  BY DEF Current
<1> QED
  BY <1>1, <1>2, <1>3 DEF Keeps

LEMMA StepCurrent ==
  ASSUME BaseInv, TypeOK', Next PROVE Current'
<1> USE DEF BaseInv
<1>1. ASSUME NEW c \in Clients, ClientStep(c) PROVE Current'
  <2>1. UNCHANGED <<batch, buf, fdTab, got>>
    BY <1>1 DEF ClientStep, ClientSend, ClientRead, ClientClose
  <2>2. \A d \in Clients : /\ sent'[d] \in Nat /\ sent'[d] >= sent[d]
                           /\ conn[d] = "pending" <=> conn'[d] = "pending"
                           /\ conn[d] # "up" => conn'[d] # "up"
    <3>1. CASE ClientSend(c)
      <4>1. PICK m \in (sent[c] + 1)..MaxBytes : sent' = [sent EXCEPT ![c] = m]
        BY <3>1 DEF ClientSend
      <4> QED
        BY <3>1, <4>1 DEF ClientSend, TypeOK
    <3>2. CASE ClientRead(c)
      BY <3>2 DEF ClientRead, TypeOK
    <3>3. CASE ClientClose(c)
      BY <3>3 DEF ClientClose, TypeOK
    <3> QED
      BY <1>1, <3>1, <3>2, <3>3 DEF ClientStep
  <2> QED
    BY <2>1, <2>2, KeepsAll, CurrentStays
<1>2. CASE EpollWait
  <2>1. PICK S \in SUBSET Ready : batch' \in Orders(S)
    BY <1>2 DEF EpollWait
  <2>2. UNCHANGED <<buf, fdTab, conn, sent, got>>
    BY <1>2 DEF EpollWait
  <2>3. DOMAIN batch' = 1..Len(batch')
    BY DEF TypeOK
  <2>4. \A j, k \in 1..Len(batch') : batch'[j] = batch'[k] => j = k
    BY <2>1, <2>3 DEF Orders
  <2>5. \A k \in 1..Len(batch') : batch'[k] \in Ready
    BY <2>1, <2>3 DEF Orders
  <2>6. \A k \in 1..Len(batch') : batch'[k] = Serv => Accepting
    BY <2>5, ConstantsAssumption DEF Ready, Serv
  <2>7. \A k \in 1..Len(batch') : batch'[k] # Serv =>
          fdTab[batch'[k]] # Nobody /\ Readable(batch'[k])
    BY <2>5 DEF Ready, Readable
  <2> QED
    BY <2>2, <2>4, <2>6, <2>7 DEF Current, Accepting, Readable, Unread
<1>3. ASSUME NEW c \in Clients, Accept(c) PROVE Current'
  <2> USE ConstantsAssumption DEF Serv
  <2>1. batch # <<>> /\ batch[1] = Serv /\ batch' = Tail(batch)
    BY <1>3 DEF Accept, At, TypeOK
  <2>2. PICK g \in Fds : fdTab[g] = Nobody /\ fdTab' = [fdTab EXCEPT ![g] = c]
    BY <1>3 DEF Accept, FreeFds
  <2>3. /\ conn[c] = "pending" /\ conn' = [conn EXCEPT ![c] = "up"]
        /\ UNCHANGED <<sent, got>>
    BY <1>3 DEF Accept
  <2>4. ASSUME NEW k \in 2..Len(batch) PROVE Keeps(k)
    <3>1. k \in 1..Len(batch) /\ 1 \in 1..Len(batch) /\ k # 1
      BY <2>4 DEF TypeOK
    <3>2. batch[k] # Serv
      BY <2>1, <3>1 DEF Current
    <3>3. ASSUME NEW f \in Fds, batch[k] = f PROVE StillOpen(f)
      <4>1. fdTab[f] # Nobody /\ fdTab[f] \in Clients /\ f # g /\ fdTab[f] # c
        BY <2>2, <2>3, <3>1, <3>2, <3>3 DEF Current, TypeOK, TableInv
      <4> QED
        BY <2>2, <2>3, <4>1 DEF StillOpen, NowReadable, Readable, Unread, TypeOK
    <3> QED
      BY <3>2, <3>3 DEF Keeps
  <2> QED
    BY <2>1, <2>4, CurrentTail
<1>4. CASE AcceptFails
  <2>1. batch # <<>> /\ batch' = Tail(batch) /\ UNCHANGED <<fdTab, got, sent, conn>>
    BY <1>4 DEF AcceptFails, At
  <2>2. \A k \in 1..Len(batch) : Keeps(k)
    BY <2>1, KeepsAll DEF TypeOK
  <2>3. \A k \in 2..Len(batch) : Keeps(k)
    BY <2>2 DEF TypeOK
  <2> QED
    BY <2>1, <2>3, CurrentTail
<1>5. ASSUME NEW f \in Fds, Read(f) PROVE Current'
  <2> USE ConstantsAssumption DEF Serv
  <2>1. /\ batch # <<>> /\ batch[1] = f /\ f = Head(batch) /\ Len(batch) \in Nat \ {0}
        /\ buf = <<>>
    BY <1>5 DEF Read, ReadData, ReadEof, Eof, ReadReset, ReadAgain, At, TypeOK
  <2>2. \A k \in 2..Len(batch) : k \in 1..Len(batch) /\ batch[k] # f
    BY <2>1 DEF Current
  <2>3. fdTab[f] # Nobody /\ fdTab[f] \in Clients
    BY <2>1 DEF Current, TypeOK
  <2>4. ASSUME NEW k \in 2..Len(batch), NEW g \in Fds, batch[k] = g
        PROVE  fdTab[g] # Nobody /\ fdTab[g] \in Clients /\ g # f /\ fdTab[g] # fdTab[f]
    <3>1. k \in 1..Len(batch) /\ batch[k] # Serv /\ g # f
      BY <2>2, <2>4
    <3>2. fdTab[g] # Nobody /\ fdTab[g] \in Clients \cup {Nobody}
      BY <2>4, <3>1 DEF Current, TypeOK
    <3> QED
      BY <2>3, <3>1, <3>2 DEF TableInv
  <2>5. CASE ReadData(f)
    <3>1. PICK n \in Nat \ {0} : /\ buf' = [j \in 1..n |-> got[Peer] + j]
                                 /\ got' = [got EXCEPT ![Peer] = @ + n]
      BY <2>5, TakenPart
    <3>2. buf' # <<>> /\ Peer = fdTab[f]
      BY <2>1, <3>1 DEF Peer
    <3>3. UNCHANGED <<batch, fdTab, conn, sent>>
      BY <2>5 DEF ReadData, Taken
    <3>4. ASSUME NEW k \in 2..Len(batch), batch[k] # Serv
          PROVE  fdTab[batch[k]] # Nobody /\ NowReadable(batch[k])
      <4>1. PICK g \in Fds : g = batch[k]
        BY <2>2, <3>4, ClientEvent
      <4>2. Readable(g)
        BY <2>2, <3>4, <4>1 DEF Current
      <4>3. fdTab[g] # Nobody /\ fdTab[g] \in Clients /\ fdTab[g] # Peer
        BY <2>4, <3>2, <4>1
      <4>4. got'[fdTab[g]] = got[fdTab[g]]
        BY <3>1, <4>3 DEF TypeOK
      <4> QED
        BY <3>3, <4>1, <4>2, <4>3, <4>4 DEF NowReadable, Readable, Unread
    <3>5. \A k \in 1..Len(batch) : k = 1 \/ k \in 2..Len(batch)
      BY <2>1
    <3> QED
      BY <2>1, <2>3, <3>2, <3>3, <3>4, <3>5
      DEF Current, Accepting, Readable, Unread, NowReadable
  <2>6. CASE ReadEof(f)
    <3>1. /\ fdTab' = [fdTab EXCEPT ![f] = Nobody] /\ batch' = Tail(batch)
          /\ UNCHANGED <<conn, sent, got>>
      BY <2>6 DEF ReadEof, Eof
    <3>2. ASSUME NEW k \in 2..Len(batch) PROVE Keeps(k)
      <4>1. batch[k] = Serv => Accepting'
        BY <2>2, <3>1 DEF Current, Accepting
      <4>2. ASSUME NEW g \in Fds, batch[k] = g PROVE StillOpen(g)
        <5>1. fdTab'[g] = fdTab[g] /\ fdTab[g] # Nobody
          BY <2>4, <3>1, <4>2 DEF TypeOK
        <5> QED
          BY <3>1, <5>1 DEF StillOpen, NowReadable, Readable, Unread
      <4> QED
        BY <4>1, <4>2 DEF Keeps
    <3> QED
      BY <2>1, <3>1, <3>2, CurrentTail
  <2>7. CASE ReadReset(f) \/ ReadAgain(f)
    <3>1. /\ UNCHANGED <<fdTab, got, sent, buf>>
          /\ batch' = Tail(batch) \/ (Drain /\ batch' = batch)
      BY <2>7 DEF ReadReset, ReadAgain, AfterIo
    <3>2. \A d \in Clients : /\ conn[d] = "pending" <=> conn'[d] = "pending"
                             /\ conn[d] # "up" => conn'[d] # "up"
      BY <2>3, <2>7 DEF ReadReset, ReadAgain, TypeOK
    <3>3. \A k \in 1..Len(batch) : Keeps(k)
      BY <3>1, <3>2, KeepsAll DEF TypeOK
    <3> QED
      BY <2>1, <2>2, <3>1, <3>3, CurrentTail, CurrentStays
  <2> QED
    BY <1>5, <2>5, <2>6, <2>7 DEF Read
<1>6. CASE Write
  <2>1. buf # <<>> /\ batch # <<>> /\ Len(batch) \in Nat
    BY <1>6 DEF Write, WriteData, Written, WriteToClosed, WriteSigpipe, InHand, TypeOK
  <2>2. UNCHANGED <<fdTab, got, sent>>
    BY <1>6 DEF Write, WriteData, Written, WriteToClosed, WriteSigpipe
  <2>3. \A d \in Clients : /\ conn[d] = "pending" <=> conn'[d] = "pending"
                           /\ conn[d] # "up" => conn'[d] # "up"
    BY <1>6 DEF Write, WriteData, Written, WriteToClosed, WriteSigpipe, TypeOK
  <2>4. \/ batch' = Tail(batch)
        \/ batch' = batch /\ (Drain \/ buf' # <<>>)
    BY <1>6, <2>1 DEF Write, WriteData, Written, WriteToClosed, WriteSigpipe, AfterIo
  <2>5. \A k \in 1..Len(batch) : Keeps(k)
    BY <2>2, <2>3, KeepsAll DEF TypeOK
  <2>6. \A k \in 2..Len(batch) : Keeps(k)
    BY <2>1, <2>5
  <2> QED
    BY <2>1, <2>4, <2>5, <2>6, CurrentTail, CurrentStays
<1> QED
  BY <1>1, <1>2, <1>3, <1>4, <1>5, <1>6 DEF Next, ServerStep

LEMMA BaseInductive == BaseInv /\ [Next]_vars => BaseInv'
<1>1. BaseInv /\ Next => BaseInv'
  BY StepType, StepTable, StepInHand, StepCurrent DEF BaseInv
<1>2. BaseInv /\ UNCHANGED vars => BaseInv'
  BY DEF vars, BaseInv, TypeOK, TableInv, Current, InHand, ReadWasSent, Accepting,
         Readable, Unread
<1> QED
  BY <1>1, <1>2

LEMMA BaseInvariance == Spec => []BaseInv
  BY InitBase, BaseInductive, PTL DEF Spec

(***************************************************************************)
(* What was echoed, for blocking sockets: all that was read but what is    *)
(* still in buf, of every client that has not left.                        *)
(***************************************************************************)
Backlog(c) == IF buf # <<>> /\ Peer = c THEN Len(buf) ELSE 0
Alike(c) == conn[c] \in {"pending", "up"}
BufInv ==
  buf # <<>> => /\ Len(buf) <= got[Peer]
                /\ \A j \in 1..Len(buf) : buf[j] = got[Peer] - Len(buf) + j
EchoInv ==
  \A c \in Clients : Alike(c) => echoed[c] = Echo!FirstBytes(got[c] - Backlog(c))

LEMMA InitEcho == Init => BufInv /\ EchoInv
BY DEF Init, BufInv, EchoInv, Backlog, Echo!FirstBytes

\* The writes of a blocking server: the first n bytes of buf go out.
LEMMA WriteStep ==
  ASSUME ~Drain, BaseInv, BufInv, EchoInv, WriteData
  PROVE  /\ Peer \in Clients /\ conn[Peer] = "up"
         /\ UNCHANGED <<fdTab, conn, sent, got>>
         /\ \E n \in Nat \ {0} :
              /\ n <= Len(buf) /\ buf' = SubSeq(buf, n + 1, Len(buf))
              /\ Len(echoed[Peer]) = got[Peer] - Len(buf)
              /\ echoed' = [echoed EXCEPT ![Peer] =
                              Echo!FirstBytes(got[Peer] - Len(buf) + n)]
<1> USE DEF BaseInv
<1>1. /\ conn[Peer] = "up" /\ buf # <<>> /\ UNCHANGED <<fdTab, conn, sent, got>>
  BY DEF WriteData, Written
<1>2. Peer \in Clients
  BY <1>1, HeadEvent DEF InHand
<1>3. PICK n \in Int :
         /\ n <= Len(buf) /\ (n > 0 \/ Drain)
         /\ echoed' = [echoed EXCEPT ![Peer] = @ \o SubSeq(buf, 1, n)]
         /\ buf' = IF Drain THEN <<>> ELSE SubSeq(buf, n + 1, Len(buf))
  BY WrittenPart
<1>4. n \in Nat \ {0} /\ buf' = SubSeq(buf, n + 1, Len(buf))
  BY <1>3
<1> DEFINE m == got[Peer] - Len(buf)
           s == SubSeq(buf, 1, n)
<1>5. Len(buf) \in Nat /\ m \in Nat /\ \A j \in 1..Len(buf) : buf[j] = m + j
  BY <1>1, <1>2 DEF BufInv, TypeOK
<1>6. echoed[Peer] = Echo!FirstBytes(m) /\ echoed \in [Clients -> Seq(1..MaxBytes)]
  BY <1>1, <1>2 DEF EchoInv, Alike, Backlog, TypeOK
<1>7. s \in Seq(1..MaxBytes) /\ Len(s) = n /\ \A j \in 1..n : s[j] = buf[j]
  <2>1. buf \in Seq(1..MaxBytes)
    BY DEF TypeOK
  <2> QED
    BY <1>3, <1>4, <2>1, PrefixFacts
<1> HIDE DEF m, s
<1>8. \A j \in 1..Len(s) : s[j] = m + j
  BY <1>3, <1>4, <1>5, <1>7
<1>9. Echo!FirstBytes(m) \o s = Echo!FirstBytes(m + n)
  BY <1>4, <1>5, <1>7, <1>8, FirstBytesConcat
<1>10. Len(echoed[Peer]) = m
  BY <1>5, <1>6 DEF Echo!FirstBytes
<1>11. echoed' = [echoed EXCEPT ![Peer] = Echo!FirstBytes(m + n)]
  BY <1>3, <1>6, <1>9 DEF s
<1> QED
  BY <1>1, <1>2, <1>3, <1>4, <1>10, <1>11 DEF m

\* The steps that neither fill nor empty buf.
LEMMA OtherSteps ==
  ASSUME BaseInv, Next, ~WriteData, ~WriteToClosed,
         \A f \in Fds : ~ReadData(f)
  PROVE  /\ UNCHANGED <<buf, got, echoed>>
         /\ buf = <<>> \/ UNCHANGED <<batch, fdTab>>
         /\ \A c \in Clients : Alike(c)' => Alike(c)
<1> USE DEF BaseInv
<1>1. ASSUME NEW c \in Clients, ClientStep(c)
      PROVE  /\ UNCHANGED <<batch, fdTab, buf, got, echoed>>
             /\ \A d \in Clients : Alike(d)' => Alike(d)
  BY <1>1 DEF ClientStep, ClientSend, ClientRead, ClientClose, Alike, TypeOK
<1>2. ASSUME EpollWait \/ AcceptFails
      PROVE  /\ UNCHANGED <<fdTab, conn, buf, got, echoed>>
             /\ buf = <<>>
  BY <1>2 DEF EpollWait, AcceptFails, At, InHand
<1>3. ASSUME NEW c \in Clients, Accept(c)
      PROVE  /\ UNCHANGED <<buf, got, echoed>> /\ buf = <<>>
             /\ \A d \in Clients : Alike(d)' => Alike(d)
  BY <1>3 DEF Accept, At, Alike, TypeOK
<1>4. ASSUME NEW f \in Fds, ReadEof(f) \/ ReadReset(f) \/ ReadAgain(f)
      PROVE  /\ UNCHANGED <<buf, got, echoed>> /\ buf = <<>>
             /\ \A d \in Clients : Alike(d)' => Alike(d)
  BY <1>4 DEF ReadEof, Eof, ReadReset, ReadAgain, At, Alike, TypeOK
<1>5. ASSUME WriteSigpipe
      PROVE  UNCHANGED <<batch, fdTab, conn, buf, got, echoed>>
  BY <1>5 DEF WriteSigpipe
<1> QED
  BY <1>1, <1>2, <1>3, <1>4, <1>5 DEF Next, ServerStep, Read, Write, Alike

LEMMA StepEcho ==
  ASSUME ~Drain, BaseInv, BufInv, EchoInv, Next
  PROVE  BufInv' /\ EchoInv'
<1> USE DEF BaseInv
<1>1. CASE WriteData
  <2>1. PICK n \in Nat \ {0} :
              /\ n <= Len(buf) /\ buf' = SubSeq(buf, n + 1, Len(buf))
              /\ echoed' = [echoed EXCEPT ![Peer] =
                              Echo!FirstBytes(got[Peer] - Len(buf) + n)]
    BY <1>1, WriteStep
  <2>2. Peer \in Clients /\ conn[Peer] = "up" /\ UNCHANGED <<fdTab, conn, sent, got>>
    BY <1>1, WriteStep
  <2>3. buf \in Seq(1..MaxBytes) /\ Len(buf) \in Nat
    BY DEF TypeOK
  <2>4. /\ Len(buf') = Len(buf) - n
        /\ \A j \in 1..(Len(buf) - n) : buf'[j] = buf[n + j]
        /\ buf' \in Seq(1..MaxBytes)
    BY <2>1, <2>3, RestFacts
  <2>5. buf # <<>> /\ (buf' # <<>> => batch' = batch)
    BY <1>1 DEF WriteData, Written
  <2>6. BufInv'
    <3> SUFFICES ASSUME buf' # <<>>
                 PROVE  /\ Len(buf') <= got'[Peer']
                        /\ \A j \in 1..Len(buf') : buf'[j] = got'[Peer'] - Len(buf') + j
      BY DEF BufInv
    <3>1. Peer' = Peer /\ got' = got
      BY <2>2, <2>5 DEF Peer
    <3>2. got[Peer] \in Nat
      BY <2>2 DEF TypeOK
    <3>3. /\ Len(buf) <= got[Peer]
          /\ \A j \in 1..Len(buf) : buf[j] = got[Peer] - Len(buf) + j
      BY <2>5 DEF BufInv
    <3>4. \A j \in 1..(Len(buf) - n) : buf[n + j] = got[Peer] - (Len(buf) - n) + j
      BY <2>1, <2>3, <3>2, <3>3
    <3>5. Len(buf') = got'[Peer'] - (got[Peer] - Len(buf)) - n /\ Len(buf') <= got'[Peer']
      BY <2>1, <2>3, <2>4, <3>1, <3>2, <3>3
    <3>6. \A j \in 1..Len(buf') : buf'[j] = got'[Peer'] - Len(buf') + j
      BY <2>4, <3>1, <3>4
    <3> QED
      BY <3>5, <3>6
  <2>7. ASSUME NEW c \in Clients, Alike(c)'
        PROVE  echoed'[c] = Echo!FirstBytes(got'[c] - Backlog(c)')
    <3>1. CASE c = Peer
      <4>1. Backlog(c)' = Len(buf) - n
        BY <2>1, <2>2, <2>3, <2>4, <2>5, <3>1 DEF Backlog, Peer
      <4>2. got[c] - (Len(buf) - n) = got[c] - Len(buf) + n
        BY <2>1, <2>3 DEF TypeOK
      <4> QED
        BY <2>1, <2>2, <3>1, <4>1, <4>2 DEF TypeOK
    <3>2. CASE c # Peer
      <4>1. Backlog(c)' = 0 /\ Backlog(c) = 0
        BY <2>2, <2>5, <3>2 DEF Backlog, Peer
      <4>2. Alike(c)
        BY <2>2, <2>7 DEF Alike
      <4> QED
        BY <2>1, <2>2, <3>2, <4>1, <4>2 DEF EchoInv, TypeOK
    <3> QED
      BY <3>1, <3>2
  <2> QED
    BY <2>6, <2>7 DEF EchoInv
<1>2. CASE WriteToClosed
  <2>1. buf' = <<>> /\ UNCHANGED <<got, echoed>> /\ buf # <<>> /\ Peer \in Clients
    BY <1>2, HeadEvent DEF WriteToClosed, InHand
  <2>2. \A c \in Clients : Alike(c)' => c # Peer /\ Alike(c)
    BY <1>2, <2>1 DEF WriteToClosed, Alike, TypeOK
  <2>3. \A c \in Clients : Backlog(c)' = 0 /\ (c # Peer => Backlog(c) = 0)
    BY <2>1 DEF Backlog
  <2> QED
    BY <2>1, <2>2, <2>3 DEF BufInv, EchoInv
<1>3. ASSUME NEW f \in Fds, ReadData(f) PROVE BufInv' /\ EchoInv'
  <2>1. PICK n \in Nat \ {0} : /\ buf' = [j \in 1..n |-> got[Peer] + j]
                               /\ got' = [got EXCEPT ![Peer] = @ + n]
    BY <1>3, TakenPart
  <2>2. Peer \in Clients /\ buf = <<>>
    BY <1>3, TakenPart
  <2>3. UNCHANGED <<batch, fdTab, conn, echoed>> /\ Peer' = Peer
    BY <1>3 DEF ReadData, Taken, Peer
  <2>4. Len(buf') = n /\ buf' # <<>> /\ \A j \in 1..n : buf'[j] = got[Peer] + j
    BY <2>1
  <2>5. got[Peer] \in Nat /\ got'[Peer] = got[Peer] + n
        /\ \A c \in Clients : c # Peer => got'[c] = got[c]
    BY <2>1, <2>2 DEF TypeOK
  <2>6. BufInv'
    BY <2>1, <2>3, <2>4, <2>5 DEF BufInv
  <2>7. \A c \in Clients : /\ Backlog(c) = 0
                           /\ Backlog(c)' = IF c = Peer THEN n ELSE 0
    BY <2>2, <2>3, <2>4 DEF Backlog
  <2>8. \A c \in Clients : got[c] - Backlog(c) = got'[c] - Backlog(c)'
    BY <2>1, <2>5, <2>7 DEF TypeOK
  <2> QED
    BY <2>3, <2>6, <2>8 DEF EchoInv, Alike
<1>4. CASE ~WriteData /\ ~WriteToClosed /\ \A f \in Fds : ~ReadData(f)
  <2>1. /\ UNCHANGED <<buf, got, echoed>>
        /\ buf = <<>> \/ UNCHANGED <<batch, fdTab>>
        /\ \A c \in Clients : Alike(c)' => Alike(c)
    BY <1>4, OtherSteps
  <2>2. \A c \in Clients : Backlog(c)' = Backlog(c)
    BY <2>1 DEF Backlog, Peer
  <2> QED
    BY <2>1, <2>2 DEF BufInv, EchoInv, Peer
<1> QED
  BY <1>1, <1>2, <1>3, <1>4

LEMMA EchoInvariance ==
  ASSUME ~Drain PROVE Spec => [](BaseInv /\ BufInv /\ EchoInv)
<1>1. BaseInv /\ BufInv /\ EchoInv /\ [Next]_vars => (BufInv /\ EchoInv)'
  <2>1. BaseInv /\ BufInv /\ EchoInv /\ UNCHANGED vars => (BufInv /\ EchoInv)'
    BY DEF vars, BufInv, EchoInv, Backlog, Peer, Alike
  <2> QED
    BY <2>1, StepEcho
<1> QED
  BY <1>1, InitBase, InitEcho, BaseInductive, PTL DEF Spec

(***************************************************************************)
(* What was echoed, in all four programs: bytes in the order they were     *)
(* read, with gaps where a non-blocking write took only part of buf, and   *)
(* all of them older than what is still in buf.                            *)
(***************************************************************************)
Older ==
  \A c \in Clients : \A j \in 1..Len(echoed[c]) : echoed[c][j] <= got[c] - Backlog(c)
OrderInv == BufInv /\ Older /\ Increasing

\* Increasing bytes followed by a run of consecutive ones above them.
LEMMA IncreasingConcat ==
  ASSUME NEW S, S \subseteq Nat, NEW s \in Seq(S), NEW t \in Seq(S), NEW m \in Nat,
         \A j, k \in 1..Len(s) : j < k => s[j] < s[k],
         \A j \in 1..Len(s) : s[j] <= m,
         \A j \in 1..Len(t) : t[j] = m + j
  PROVE  /\ \A j, k \in 1..Len(s \o t) : j < k => (s \o t)[j] < (s \o t)[k]
         /\ \A j \in 1..Len(s \o t) : (s \o t)[j] <= m + Len(t)
<1>1. Len(s) \in Nat /\ Len(t) \in Nat /\ Len(s \o t) = Len(s) + Len(t)
  BY ConcatProperties, LenProperties
<1>2. \A j \in 1..(Len(s) + Len(t)) :
        (s \o t)[j] = IF j <= Len(s) THEN s[j] ELSE t[j - Len(s)]
  BY ConcatProperties
<1>3. ASSUME NEW j \in 1..Len(s) PROVE (s \o t)[j] = s[j] /\ s[j] \in Nat
  <2>1. s[j] \in S
    BY ElementOfSeq
  <2>2. j \in 1..(Len(s) + Len(t)) /\ j <= Len(s)
    BY <1>1
  <2> QED
    BY <1>2, <2>1, <2>2
<1>4. \A j \in 1..(Len(s) + Len(t)) : j > Len(s) => (s \o t)[j] = m + (j - Len(s))
  BY <1>1, <1>2
<1> SUFFICES ASSUME NEW k \in 1..(Len(s) + Len(t)), NEW j \in 1..(Len(s) + Len(t))
             PROVE  /\ j < k => (s \o t)[j] < (s \o t)[k]
                    /\ (s \o t)[j] <= m + Len(t)
  BY <1>1
<1>5. CASE k <= Len(s)
  <2>1. j < k => j \in 1..Len(s)
    BY <1>1, <1>5
  <2>2. k \in 1..Len(s)
    BY <1>1, <1>5
  <2>3. j < k => (s \o t)[j] < (s \o t)[k]
    BY <1>3, <2>1, <2>2
  <2>4. CASE j <= Len(s)
    <3>1. (s \o t)[j] <= m /\ (s \o t)[j] \in Nat
      BY <1>1, <1>3, <2>4
    <3> QED
      BY SMTT(30), <1>1, <2>3, <3>1
  <2>5. CASE j > Len(s)
    BY <1>1, <1>4, <2>3, <2>5
  <2> QED
    BY <1>1, <2>4, <2>5
<1>7. CASE k > Len(s) /\ j > Len(s)
  BY <1>1, <1>4, <1>7
<1>6. CASE k > Len(s) /\ j <= Len(s)
  <2>1. (s \o t)[j] <= m /\ (s \o t)[j] \in Nat
    BY <1>1, <1>3, <1>6
  <2>2. (s \o t)[k] = m + (k - Len(s)) /\ k - Len(s) > 0
    BY <1>1, <1>4, <1>6
  <2> QED
    BY <1>1, <1>6, <2>1, <2>2
<1> QED
  BY <1>1, <1>5, <1>6, <1>7

LEMMA StepOrder == ASSUME BaseInv, OrderInv, Next PROVE OrderInv'
<1> USE DEF BaseInv, OrderInv
<1>0. \A c \in Clients : DOMAIN echoed[c] = 1..Len(echoed[c])
  BY DEF TypeOK
<1>1. CASE WriteData
  <2>1. PICK n \in Int :
           /\ n <= Len(buf) /\ (n > 0 \/ Drain)
           /\ echoed' = [echoed EXCEPT ![Peer] = @ \o SubSeq(buf, 1, n)]
           /\ buf' = IF Drain THEN <<>> ELSE SubSeq(buf, n + 1, Len(buf))
    BY <1>1, WrittenPart
  <2>2. /\ buf # <<>> /\ UNCHANGED <<fdTab, conn, sent, got>>
        /\ buf' # <<>> => batch' = batch
    BY <1>1 DEF WriteData, Written
  <2>3. Peer \in Clients
    BY <2>2, HeadEvent DEF InHand
  <2> DEFINE s == echoed[Peer]
             t == SubSeq(buf, 1, n)
             m == got[Peer] - Len(buf)
             k == IF n > 0 THEN n ELSE 0
  <2>4. Len(buf) \in Nat /\ m \in Nat /\ \A j \in 1..Len(buf) : buf[j] = m + j
    BY <2>2, <2>3 DEF BufInv, TypeOK
  <2>5. t \in Seq(1..MaxBytes) /\ Len(t) = k /\ k <= Len(buf) /\ \A j \in 1..k : t[j] = m + j
    <3>1. buf \in Seq(1..MaxBytes)
      BY DEF TypeOK
    <3>2. CASE n > 0
      <4>1. n \in Nat \ {0} /\ n <= Len(buf) /\ k = n
        BY <2>1, <3>2
      <4>2. t \in Seq(1..MaxBytes) /\ Len(t) = n /\ \A j \in 1..n : t[j] = buf[j]
        BY <3>1, <4>1, PrefixFacts
      <4> QED
        BY <2>4, <4>1, <4>2
    <3>3. CASE n <= 0
      BY <2>1, <2>4, <3>1, <3>3, SubSeqFacts
    <3> QED
      BY <2>1, <3>2, <3>3
  <2>6. /\ s \in Seq(1..MaxBytes) /\ \A j, l \in 1..Len(s) : j < l => s[j] < s[l]
        /\ \A j \in 1..Len(s) : s[j] <= m
    BY <1>0, <2>2, <2>3 DEF Older, Increasing, Backlog, TypeOK
  <2>7. /\ \A j, l \in 1..Len(s \o t) : j < l => (s \o t)[j] < (s \o t)[l]
        /\ \A j \in 1..Len(s \o t) : (s \o t)[j] <= m + k
    <3> HIDE DEF s, t, m, k
    <3>1. 1..MaxBytes \subseteq Nat
      OBVIOUS
    <3> QED
      BY <2>4, <2>5, <2>6, <3>1, IncreasingConcat
  <2>8. echoed'[Peer] = s \o t /\ \A c \in Clients : c # Peer => echoed'[c] = echoed[c]
    BY <2>1, <2>3 DEF TypeOK
  <2>9. Peer' = Peer \/ buf' = <<>>
    BY <2>2 DEF Peer
  <2>10. /\ buf' # <<>> => /\ n > 0 /\ Len(buf') = Len(buf) - n
                           /\ \A j \in 1..Len(buf') : buf'[j] = buf[n + j]
    <3>1. buf \in Seq(1..MaxBytes)
      BY DEF TypeOK
    <3> QED
      BY <2>1, <3>1, RestFacts
  <2>11. BufInv'
    <3> SUFFICES ASSUME buf' # <<>>
                 PROVE  /\ Len(buf') <= got'[Peer']
                        /\ \A j \in 1..Len(buf') : buf'[j] = got'[Peer'] - Len(buf') + j
      BY DEF BufInv
    <3>1. Peer' = Peer /\ got' = got /\ got[Peer] \in Nat /\ got[Peer] = m + Len(buf)
      BY <2>2, <2>3, <2>4, <2>9 DEF TypeOK
    <3>2. \A j \in 1..Len(buf') : buf'[j] = m + n + j
      BY <2>1, <2>4, <2>10
    <3>3. Len(buf') = Len(buf) - n
      BY <2>10
    <3>4. m + n = got[Peer] - (Len(buf) - n) /\ Len(buf) - n <= got[Peer]
      BY <2>1, <2>4, <3>1
    <3> HIDE DEF m
    <3> QED
      BY <3>1, <3>2, <3>3, <3>4
  <2>12. DOMAIN (s \o t) = 1..Len(s \o t)
    BY <2>5, <2>6, ConcatProperties, LenProperties
  <2>13. Increasing'
    <3> SUFFICES ASSUME NEW c \in Clients, NEW j \in DOMAIN echoed'[c], NEW l \in DOMAIN echoed'[c], j < l
                 PROVE  echoed'[c][j] < echoed'[c][l]
      BY DEF Increasing
    <3>1. CASE c = Peer
      <4> HIDE DEF s, t
      <4> QED
        BY <2>7, <2>8, <2>12, <3>1
    <3>2. CASE c # Peer
      BY <2>8, <3>2 DEF Increasing
    <3> QED
      BY <3>1, <3>2
  <2>14. Older'
    <3> SUFFICES ASSUME NEW c \in Clients, NEW j \in 1..Len(echoed'[c])
                 PROVE  echoed'[c][j] <= got'[c] - Backlog(c)'
      BY DEF Older
    <3>1. CASE c = Peer
      <4>1. echoed'[c][j] <= m + k
        <5> HIDE DEF s, t, m, k
        <5> QED
          BY <2>7, <2>8, <3>1
      <4>2. Backlog(c)' \in Nat /\ Backlog(c)' <= Len(buf) - k
        <5>1. CASE buf' = <<>>
          BY <2>4, <2>5, <5>1 DEF Backlog
        <5>2. CASE buf' # <<>>
          <6>1. Backlog(c)' \in {0, Len(buf')} /\ k = n /\ Len(buf') = Len(buf) - n
            BY <2>10, <5>2 DEF Backlog
          <6> QED
            BY <2>1, <2>4, <6>1
        <5> QED
          BY <5>1, <5>2
      <4>3. m + k = got[c] - (Len(buf) - k) /\ got[c] \in Nat /\ k \in Nat
        BY <2>1, <2>3, <2>4, <3>1 DEF TypeOK
      <4>4. echoed'[c][j] \in Nat
        <5> HIDE DEF s, t
        <5>1. (s \o t) \in Seq(1..MaxBytes)
          BY <2>5, <2>6, ConcatProperties
        <5>2. j \in 1..Len(s \o t)
          BY <2>8, <3>1
        <5>3. (s \o t)[j] \in 1..MaxBytes
          BY <5>1, <5>2, ElementOfSeq
        <5> QED
          BY <2>8, <3>1, <5>3
      <4> QED
        BY <2>2, <2>4, <4>1, <4>2, <4>3, <4>4, SMTT(30)
    <3>2. CASE c # Peer
      <4>1. Backlog(c) = 0 /\ Backlog(c)' = 0
        BY <2>9, <3>2 DEF Backlog
      <4> QED
        BY <2>2, <2>8, <3>2, <4>1 DEF Older
    <3> QED
      BY <3>1, <3>2
  <2> QED
    BY <2>11, <2>13, <2>14
<1>2. CASE WriteToClosed
  <2>1. buf' = <<>> /\ UNCHANGED <<got, echoed>>
    BY <1>2 DEF WriteToClosed
  <2>2. \A c \in Clients : Backlog(c)' = 0 /\ Backlog(c) \in Nat /\ got[c] \in Nat
    BY <2>1 DEF Backlog, TypeOK
  <2>3. ASSUME NEW c \in Clients, NEW j \in 1..Len(echoed[c]) PROVE echoed[c][j] \in Nat
    <3>1. echoed[c] \in Seq(1..MaxBytes)
      BY DEF TypeOK
    <3>2. echoed[c][j] \in 1..MaxBytes
      BY <3>1, ElementOfSeq
    <3> QED
      BY <3>2
  <2> QED
    BY <2>1, <2>2, <2>3 DEF BufInv, Older, Increasing
<1>3. ASSUME NEW f \in Fds, ReadData(f) PROVE OrderInv'
  <2>1. PICK n \in Nat \ {0} : /\ buf' = [j \in 1..n |-> got[Peer] + j]
                               /\ got' = [got EXCEPT ![Peer] = @ + n]
    BY <1>3, TakenPart
  <2>2. Peer \in Clients /\ buf = <<>>
    BY <1>3, TakenPart
  <2>3. UNCHANGED <<batch, echoed>> /\ Peer' = Peer
    BY <1>3 DEF ReadData, Taken, Peer
  <2>4. Len(buf') = n /\ buf' # <<>> /\ \A j \in 1..n : buf'[j] = got[Peer] + j
    BY <2>1
  <2>5. got[Peer] \in Nat /\ got'[Peer] = got[Peer] + n
        /\ \A c \in Clients : c # Peer => got'[c] = got[c]
    BY <2>1, <2>2 DEF TypeOK
  <2>6. BufInv'
    BY <2>1, <2>3, <2>4, <2>5 DEF BufInv
  <2>7. \A c \in Clients : /\ Backlog(c) = 0
                           /\ Backlog(c)' = IF c = Peer THEN n ELSE 0
    BY <2>2, <2>3, <2>4 DEF Backlog
  <2>8. \A c \in Clients : got[c] - Backlog(c) = got'[c] - Backlog(c)'
    BY <2>1, <2>5, <2>7 DEF TypeOK
  <2> QED
    BY <2>3, <2>6, <2>8 DEF Older, Increasing
<1>4. CASE ~WriteData /\ ~WriteToClosed /\ \A f \in Fds : ~ReadData(f)
  <2>1. /\ UNCHANGED <<buf, got, echoed>>
        /\ buf = <<>> \/ UNCHANGED <<batch, fdTab>>
    BY <1>4, OtherSteps
  <2>2. \A c \in Clients : Backlog(c)' = Backlog(c)
    BY <2>1 DEF Backlog, Peer
  <2> QED
    BY <2>1, <2>2 DEF BufInv, Older, Increasing, Peer
<1> QED
  BY <1>1, <1>2, <1>3, <1>4

LEMMA OrderInvariance == Spec => [](BaseInv /\ OrderInv)
<1>1. Init => OrderInv
  BY DEF Init, OrderInv, BufInv, Older, Increasing
<1>2. BaseInv /\ OrderInv /\ [Next]_vars => OrderInv'
  <2>1. BaseInv /\ OrderInv /\ UNCHANGED vars => OrderInv'
    BY DEF vars, OrderInv, BufInv, Older, Increasing, Backlog, Peer
  <2> QED
    BY <2>1, StepOrder
<1> QED
  BY <1>1, <1>2, InitBase, BaseInductive, PTL DEF Spec

(***************************************************************************)
(* The results.                                                            *)
(***************************************************************************)
\* Every variable keeps its type, in all four programs.
THEOREM TypeCorrect == Spec => []TypeOK
<1>1. BaseInv => TypeOK
  BY DEF BaseInv
<1> QED
  BY <1>1, BaseInvariance, PTL

\* No event of a batch goes stale before it is handled, in all four programs:
\* accept and close never touch the descriptor of a later event.
THEOREM NoStaleEvent == Spec => []EventsAreCurrent
<1>1. BaseInv => EventsAreCurrent
  <2> SUFFICES ASSUME BaseInv, NEW k \in DOMAIN batch
               PROVE  IF batch[k] = Serv THEN Accepting
                      ELSE fdTab[batch[k]] # Nobody /\ (k > 1 => Readable(batch[k]))
    BY DEF EventsAreCurrent
  <2>1. k \in 1..Len(batch)
    BY DEF BaseInv, TypeOK
  <2> QED
    BY <2>1 DEF BaseInv, Current
<1> QED
  BY <1>1, BaseInvariance, PTL

\* A server with blocking sockets, and with it all its clients, never waits in
\* the read of one of them.
THEOREM NeverBlocks == Spec => []NeverBlockedInRead
<1>1. BaseInv => NeverBlockedInRead
  <2> SUFFICES ASSUME BaseInv, NEW f \in Fds, At(f), ~Drain PROVE Readable(f)
    BY DEF NeverBlockedInRead, BlockedInRead
  <2>1. batch # <<>> /\ Head(batch) = f /\ f # Serv /\ buf = <<>>
    BY ConstantsAssumption DEF At, Serv
  <2>2. f = batch[1] /\ 1 \in 1..Len(batch)
    BY <2>1, HeadEvent DEF BaseInv
  <2> QED
    BY <2>1, <2>2 DEF BaseInv, Current
<1> QED
  BY <1>1, BaseInvariance, PTL

\* No byte is echoed twice or before an earlier one, in all four programs: what
\* a non-blocking write leaves over is lost, never sent later.
THEOREM EchoIncreases == Spec => []Increasing
<1>1. OrderInv => Increasing
  BY DEF OrderInv
<1> QED
  BY <1>1, OrderInvariance, PTL

\* A server with blocking sockets gives every client its first bytes back, in
\* order, each once, however its messages are cut into chunks and batches.
THEOREM ImplementsEchoService == ASSUME ~Drain PROVE Spec => EchoesInOrder
<1>1. Init => Echo!Init
  BY DEF Init, Echo!Init
<1>2. BaseInv /\ BufInv /\ EchoInv /\ [Next]_vars => [Echo!Next]_(Echo!vars)
  <2> SUFFICES ASSUME BaseInv, BufInv, EchoInv, Next
               PROVE  Echo!Next \/ UNCHANGED <<sent, echoed>>
    BY DEF vars, Echo!vars
  <2> USE DEF BaseInv
  <2>1. CASE WriteData
    <3>1. PICK n \in Nat \ {0} :
              /\ n <= Len(buf)
              /\ Len(echoed[Peer]) = got[Peer] - Len(buf)
              /\ echoed' = [echoed EXCEPT ![Peer] =
                              Echo!FirstBytes(got[Peer] - Len(buf) + n)]
      BY <2>1, WriteStep
    <3>2. Peer \in Clients /\ sent' = sent
      BY <2>1, WriteStep
    <3>3. got[Peer] - Len(buf) + n \in (Len(echoed[Peer]) + 1)..sent[Peer]
      BY <3>1, <3>2 DEF TypeOK, ReadWasSent
    <3>4. Echo!Echo(Peer)
      BY <3>1, <3>2, <3>3 DEF Echo!Echo
    <3> QED
      BY <3>2, <3>4 DEF Echo!Next
  <2>2. ASSUME NEW c \in Clients, ClientSend(c) PROVE Echo!Next
    <3>1. PICK m \in (sent[c] + 1)..MaxBytes : sent' = [sent EXCEPT ![c] = m]
      BY <2>2 DEF ClientSend
    <3>2. sent'[c] = m /\ m \in Nat /\ m > sent[c]
      BY <3>1, ConstantsAssumption DEF TypeOK
    <3>3. echoed' = echoed
      BY <2>2 DEF ClientSend
    <3> QED
      BY <3>1, <3>2, <3>3 DEF Echo!Send, Echo!Next
  <2>3. CASE ~WriteData /\ \A c \in Clients : ~ClientSend(c)
    BY <2>3 DEF Next, ServerStep, ClientStep, ClientRead, ClientClose, EpollWait, Accept,
                AcceptFails, Read, ReadData, Taken, ReadEof, Eof, ReadReset, ReadAgain,
                Write, WriteToClosed, WriteSigpipe
  <2> QED
    BY <2>1, <2>2, <2>3
<1> QED
  BY <1>1, <1>2, EchoInvariance, PTL DEF Spec, EchoesInOrder, Echo!Spec
=============================================================================
