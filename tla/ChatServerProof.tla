--------------------------- MODULE ChatServerProof ---------------------------
(***************************************************************************)
(* Proofs about ChatServer, for every number of clients, descriptors,      *)
(* threads and messages.                                                   *)
(***************************************************************************)
EXTENDS ChatServer, FiniteSetTheorems, TLAPS

\* Threads are born in order, and main has one to give whenever it has accepted.
Births ==
  /\ \A t \in Threads : pc[t] = "unborn" <=> t > created
  /\ mpc # "accept" => created < MaxThreads

\* A thread in the loop of send_msg is writing the newest broadcast, and nothing
\* newer than that has reached anybody.
LogInv ==
  /\ \A t \in Threads : pc[t] = "write" =>
       pos[t] = Len(log) /\ (msg[t] # Failed => pos[t] # 0)
  /\ \A c \in Clients : \A k \in 1..Len(rcvd[c]) : rcvd[c][k] <= Len(log)

IInv == TypeOK /\ Births /\ MutexInv /\ CountMatchesThreads /\ LogInv

LEMMA InitIInv == Init => IInv
<1> SUFFICES ASSUME Init PROVE IInv
  OBVIOUS
<1> USE ConstantsAssumption DEF Init
<1>1. TypeOK
  BY DEF TypeOK, MainPc, ThreadPc, ConnState, Threads, Messages, NoFd, NoOne,
         Main, Failed
<1>2. Births
  BY DEF Births, Threads
<1>3. MutexInv
  BY DEF MutexInv, InCritical
<1>4. Counted = {}
  BY DEF Counted
<1>5. CountMatchesThreads
  BY <1>4, FS_EmptySet DEF CountMatchesThreads
<1>6. LogInv
  <2>1. \A c \in Clients : Len(rcvd[c]) = 0
    OBVIOUS
  <2> QED
    BY <2>1 DEF LogInv
<1> QED
  BY <1>1, <1>2, <1>3, <1>5, <1>6 DEF IInv

(***************************************************************************)
(* The steps, seen from the program counters, the mutex and the counter.   *)
(***************************************************************************)
ThreadShape(t, to) ==
  /\ pc' = [pc EXCEPT ![t] = to]
  /\ \/ /\ pc[t] \in {"start", "read"} /\ to \in {"read", "lockSend", "lockRemove"}
        /\ UNCHANGED <<mutx, clnt_cnt>>
     \/ /\ pc[t] \in {"lockSend", "lockRemove"} /\ to \in {"write", "remove"}
        /\ mutx = NoOne /\ mutx' = t /\ UNCHANGED clnt_cnt
     \/ /\ <<pc[t], to>> \in {<<"write", "write">>, <<"remove", "count">>}
        /\ UNCHANGED <<mutx, clnt_cnt>>
     \/ /\ pc[t] = "count" /\ to = "release"
        /\ UNCHANGED mutx /\ clnt_cnt' = clnt_cnt - 1
     \/ /\ <<pc[t], to>> \in {<<"write", "read">>, <<"release", "close">>}
        /\ mutx' = NoOne /\ UNCHANGED clnt_cnt
     \/ pc[t] = "close" /\ to = "done" /\ UNCHANGED <<mutx, clnt_cnt>>

MainShape ==
  \/ /\ mpc = "accept" /\ mpc' = "lock" /\ created < MaxThreads
     /\ UNCHANGED <<mutx, created, pc, clnt_cnt>>
  \/ /\ mpc = "lock" /\ mpc' = "append" /\ mutx = NoOne /\ mutx' = Main
     /\ UNCHANGED <<created, pc, clnt_cnt>>
  \/ /\ mpc = "append" /\ mpc' = "unlock" /\ clnt_cnt' = clnt_cnt + 1
     /\ UNCHANGED <<mutx, created, pc>>
  \/ /\ mpc = "unlock" /\ mpc' = "create" /\ mutx' = NoOne
     /\ UNCHANGED <<created, pc, clnt_cnt>>
  \/ /\ mpc = "create" /\ mpc' = "accept" /\ created' = created + 1
     /\ pc' = [pc EXCEPT ![created + 1] = "start"]
     /\ UNCHANGED <<mutx, clnt_cnt>>

LEMMA ThreadSteps ==
  ASSUME TypeOK, NEW t \in Threads, ThreadStep(t)
  PROVE  /\ UNCHANGED <<mpc, clnt_sock, created, given>>
         /\ \E to \in ThreadPc : ThreadShape(t, to)
<1> USE DEF Goto, ThreadShape, mainVars, tableVars, threadVars, ThreadPc
<1>1. CASE ReadArg(t) \/ ReadMsg(t) \/ ReadEof(t) \/ ReadError(t)
  BY <1>1 DEF ReadArg, ReadMsg, MsgTaken, ReadEof, ReadError
<1>2. CASE LockSend(t) \/ LockRemove(t)
  BY <1>2 DEF LockSend, LockedSend, LockRemove
<1>3. CASE Write(t)
  <2>1. /\ pc[t] = "write"
        /\ UNCHANGED <<pc, mutx, clnt_cnt, mpc, clnt_sock, created, given>>
    BY <1>3 DEF Write, WriteFails, WriteDelivers, WriteToClosed, WriteSigpipe,
                AtEntry
  <2>2. pc = [pc EXCEPT ![t] = "write"]
    BY <2>1 DEF TypeOK
  <2> QED
    BY <2>1, <2>2
<1>4. CASE EndSend(t) \/ Release(t)
  BY <1>4 DEF EndSend, SendEnds, Release, Released
<1>5. CASE Remove(t)
  BY <1>5 DEF Remove
<1>6. CASE CountDown(t)
  BY <1>6 DEF CountDown, CountedDown
<1>7. CASE Close(t)
  BY <1>7 DEF Close
<1> QED
  BY <1>1, <1>2, <1>3, <1>4, <1>5, <1>6, <1>7 DEF ThreadStep

LEMMA MainSteps == ASSUME MainStep PROVE MainShape
<1> USE DEF MainShape, mainVars, tableVars, threadVars
<1>1. CASE \E c \in Clients : AcceptOk(c)
  BY <1>1 DEF AcceptOk
<1>2. CASE AcceptFail
  BY <1>2 DEF AcceptFail
<1>3. CASE MainLock \/ MainAppend
  BY <1>3 DEF MainLock, MainLocked, MainAppend
<1>4. CASE MainUnlock \/ MainCreate
  BY <1>4 DEF MainUnlock, MainCreate
<1> QED
  BY <1>1, <1>2, <1>3, <1>4 DEF MainStep

LEMMA ClientSteps ==
  ASSUME NEW c \in Clients, ClientStep(c)
  PROVE  UNCHANGED <<mainVars, tableVars, mutx, threadVars, fdTab, taken, ghostVars>>
BY DEF ClientStep, Send, Recv, Quit

LEMMA StepBirths ==
  ASSUME TypeOK, Births, Next PROVE Births'
<1> USE ConstantsAssumption DEF Births, Threads
<1>1. CASE \E c \in Clients : ClientStep(c)
  BY <1>1, ClientSteps DEF mainVars, threadVars
<1>2. CASE MainStep
  <2>1. MainShape /\ created \in 0..MaxThreads /\ pc \in [Threads -> ThreadPc]
    BY <1>2, MainSteps DEF TypeOK
  <2>2. CASE mpc = "create"
    BY <2>1, <2>2 DEF MainShape
  <2>3. CASE mpc # "create"
    BY <2>1, <2>3 DEF MainShape
  <2> QED
    BY <2>2, <2>3
<1>3. ASSUME NEW t \in Threads, ThreadStep(t) PROVE Births'
  <2>1. PICK to : ThreadShape(t, to) /\ UNCHANGED <<mpc, created>>
    BY <1>3, ThreadSteps
  <2>2. pc[t] # "unborn" /\ to # "unborn" /\ pc \in [Threads -> ThreadPc]
    BY <2>1 DEF ThreadShape, TypeOK
  <2>3. pc' = [pc EXCEPT ![t] = to]
    BY <2>1 DEF ThreadShape
  <2> QED
    BY <2>1, <2>2, <2>3
<1> QED
  BY <1>1, <1>2, <1>3 DEF Next

LEMMA StepMutex ==
  ASSUME TypeOK, Births, MutexInv, Next PROVE MutexInv'
<1> USE ConstantsAssumption DEF MutexInv, InCritical, NoOne, Main, Threads
<1>1. CASE \E c \in Clients : ClientStep(c)
  BY <1>1, ClientSteps DEF mainVars, threadVars
<1>2. CASE MainStep
  <2>1. MainShape /\ created \in 0..MaxThreads /\ pc \in [Threads -> ThreadPc]
    BY <1>2, MainSteps DEF TypeOK
  <2>2. CASE mpc = "create"
    BY <2>1, <2>2 DEF MainShape
  <2>3. CASE mpc = "unlock"
    BY <2>1, <2>3 DEF MainShape
  <2>4. CASE mpc \notin {"create", "unlock"}
    BY <2>1, <2>4 DEF MainShape
  <2> QED
    BY <2>2, <2>3, <2>4
<1>3. ASSUME NEW t \in Threads, ThreadStep(t) PROVE MutexInv'
  <2>1. PICK to : ThreadShape(t, to) /\ UNCHANGED mpc
    BY <1>3, ThreadSteps
  <2>2. pc \in [Threads -> ThreadPc] /\ pc' = [pc EXCEPT ![t] = to]
    BY <2>1 DEF ThreadShape, TypeOK
  <2>3. CASE InCritical(t)
    BY <2>1, <2>2, <2>3 DEF ThreadShape
  <2>4. CASE ~InCritical(t)
    BY <2>1, <2>2, <2>4 DEF ThreadShape
  <2> QED
    BY <2>3, <2>4
<1> QED
  BY <1>1, <1>2, <1>3 DEF Next

LEMMA CountedFinite ==
  IsFiniteSet(Counted) /\ Cardinality(Counted) \in Nat
<1>1. IsFiniteSet(Threads)
  BY FS_Interval, ConstantsAssumption DEF Threads
<1>2. Counted \subseteq Threads
  BY DEF Counted
<1> QED
  BY <1>1, <1>2, FS_Subset, FS_CardinalityType

\* The counter never leaves the table, and main appends inside it.
LEMMA InBounds ==
  ASSUME TypeOK, Births, CountMatchesThreads
  PROVE  /\ clnt_cnt \in 0..MAX_CLNT
         /\ mpc = "append" => clnt_cnt < MAX_CLNT
<1>1. Counted \subseteq 1..created /\ created \in Nat
  BY ConstantsAssumption DEF Counted, Births, Threads, TypeOK
<1>2. IsFiniteSet(1..created) /\ Cardinality(1..created) = created
  BY <1>1, FS_Interval
<1>3. Cardinality(Counted) <= Cardinality(1..created)
  BY <1>1, <1>2, FS_Subset
<1> QED
  BY <1>2, <1>3, CountedFinite, ConstantsAssumption
  DEF CountMatchesThreads, Births, TypeOK

LEMMA StepCount ==
  ASSUME TypeOK, Births, CountMatchesThreads, Next PROVE CountMatchesThreads'
<1> USE DEF CountMatchesThreads
<1>t. pc \in [Threads -> ThreadPc] /\ created \in 0..MaxThreads
  BY DEF TypeOK
<1>1. CASE \E c \in Clients : ClientStep(c)
  BY <1>1, ClientSteps DEF mainVars, tableVars, threadVars, Counted
<1>2. CASE MainStep
  <2>1. MainShape
    BY <1>2, MainSteps
  <2>2. CASE mpc = "create"
    <3>1. created + 1 \in Threads /\ created + 1 \notin Counted
      BY <2>2, <1>t, ConstantsAssumption DEF Births, Threads, Counted
    <3>2. Counted' = Counted \cup {created + 1}
      BY <2>1, <2>2, <3>1, <1>t DEF MainShape, Counted
    <3>3. Cardinality(Counted') = Cardinality(Counted) + 1
      BY <3>1, <3>2, CountedFinite, FS_AddElement
    <3> QED
      BY <2>1, <2>2, <3>3, CountedFinite DEF MainShape
  <2>3. CASE mpc # "create"
    <3>1. Counted' = Counted
      BY <2>1, <2>3 DEF MainShape, Counted
    <3> QED
      BY <2>1, <2>3, <3>1, CountedFinite DEF MainShape
  <2> QED
    BY <2>2, <2>3
<1>3. ASSUME NEW t \in Threads, ThreadStep(t) PROVE CountMatchesThreads'
  <2>1. PICK to : ThreadShape(t, to) /\ UNCHANGED mpc
    BY <1>3, ThreadSteps
  <2>2. pc' = [pc EXCEPT ![t] = to]
    BY <2>1 DEF ThreadShape
  <2>3. CASE pc[t] = "count"
    <3>1. to = "release" /\ clnt_cnt' = clnt_cnt - 1
      BY <2>1, <2>3 DEF ThreadShape
    <3>2. t \in Counted /\ Counted' = Counted \ {t}
      BY <2>2, <2>3, <3>1, <1>t DEF Counted
    <3>3. Cardinality(Counted') = Cardinality(Counted) - 1
      BY <3>2, CountedFinite, FS_RemoveElement
    <3> QED
      BY <2>1, <3>1, <3>3, CountedFinite
  <2>4. CASE pc[t] # "count"
    <3>1. UNCHANGED clnt_cnt
      BY <2>1, <2>4 DEF ThreadShape
    <3>2. pc[t] \in {"unborn", "release", "close", "done"}
            <=> to \in {"unborn", "release", "close", "done"}
      BY <2>1, <2>4 DEF ThreadShape
    <3>3. Counted' = Counted
      BY <2>2, <3>2, <1>t DEF Counted
    <3> QED
      BY <2>1, <3>1, <3>3
  <2> QED
    BY <2>3, <2>4
<1> QED
  BY <1>1, <1>2, <1>3 DEF Next

(***************************************************************************)
(* Types.                                                                  *)
(***************************************************************************)
LEMMA RemovedType ==
  ASSUME NEW S, NEW tab \in [0..MAX_CLNT -> S], NEW n \in 0..MAX_CLNT, NEW s
  PROVE  Removed(s, tab, n) \in [0..MAX_CLNT -> S]
<1> SUFFICES ASSUME NEW j \in 0..MAX_CLNT
             PROVE  Removed(s, tab, n)[j] \in S
  BY DEF Removed
<1> QED
  BY ConstantsAssumption DEF Removed

LEMMA StepType ==
  ASSUME TypeOK, Births, CountMatchesThreads, Next PROVE TypeOK'
<1> USE ConstantsAssumption DEF TypeOK, mainVars, tableVars, threadVars, netVars,
    ghostVars
<1>1. ASSUME NEW c \in Clients, ClientStep(c) PROVE TypeOK'
  <2>1. CASE Send(c)
    <3>1. sent' \in [Clients -> 0..MaxMsgs]
      BY <2>1 DEF Send
    <3> QED
      BY <2>1, <3>1 DEF Send
  <2>2. CASE Recv(c)
    <3>1. seen' \in [Clients -> Nat]
      BY <2>2 DEF Recv
    <3> QED
      BY <2>2, <3>1 DEF Recv
  <2>3. CASE Quit(c)
    <3>1. conn' \in [Clients -> ConnState]
      BY <2>3 DEF Quit, ConnState
    <3> QED
      BY <2>3, <3>1 DEF Quit
  <2> QED
    BY <1>1, <2>1, <2>2, <2>3 DEF ClientStep
<1>2. CASE MainStep
  <2>1. CASE \E c \in Clients : AcceptOk(c)
    <3>1. conn' \in [Clients -> ConnState]
      BY <2>1 DEF AcceptOk, ConnState
    <3>2. fdTab' \in [Fds -> Clients \cup {Nobody}]
      BY <2>1 DEF AcceptOk
    <3>3. mpc' \in MainPc /\ clnt_sock' \in Fds \cup {NoFd}
      BY <2>1 DEF AcceptOk, MainPc
    <3> QED
      BY <2>1, <3>1, <3>2, <3>3, SMTT(30) DEF AcceptOk
  <2>2. CASE AcceptFail
    <3>1. mpc' \in MainPc /\ clnt_sock' \in Fds \cup {NoFd}
      BY <2>2 DEF AcceptFail, MainPc
    <3> QED
      BY <2>2, <3>1 DEF AcceptFail
  <2>3. CASE MainLock
    BY <2>3 DEF MainLock, MainLocked, MainPc
  <2>4. CASE MainAppend
    <3>1. clnt_socks' \in [0..MAX_CLNT -> Fds \cup {NoFd, 0}]
      BY <2>4 DEF MainAppend
    <3>2. clnt_cnt' \in Int /\ mpc' \in MainPc
      BY <2>4 DEF MainAppend, MainPc
    <3> QED
      BY <2>4, <3>1, <3>2 DEF MainAppend
  <2>5. CASE MainUnlock
    BY <2>5 DEF MainUnlock, MainPc
  <2>6. CASE MainCreate
    <3>1. pc' \in [Threads -> ThreadPc] /\ mpc' \in MainPc
      BY <2>6 DEF MainCreate, MainPc, ThreadPc
    <3>2. created' \in 0..MaxThreads
      BY <2>6 DEF MainCreate, Births
    <3>3. given' \in [Threads -> Fds \cup {NoFd}]
      BY <2>6 DEF MainCreate
    <3> QED
      BY <2>6, <3>1, <3>2, <3>3 DEF MainCreate
  <2> QED
    BY <1>2, <2>1, <2>2, <2>3, <2>4, <2>5, <2>6 DEF MainStep
<1>3. ASSUME NEW t \in Threads, ThreadStep(t) PROVE TypeOK'
  <2> USE DEF Goto, ThreadPc
  <2>1. CASE ReadArg(t)
    BY <2>1 DEF ReadArg
  <2>2. CASE ReadMsg(t)
    <3>1. PICK c \in Clients : taken[c] < sent[c] /\ MsgTaken(t, c)
      BY <2>2 DEF ReadMsg, Open
    <3>2. taken[c] + 1 \in 1..MaxMsgs
      BY <3>1
    <3>3. msg' \in [Threads -> Messages \cup {Failed}]
      BY <3>1, <3>2 DEF MsgTaken, Messages
    <3>4. taken' \in [Clients -> 0..MaxMsgs]
      BY <3>1, <3>2 DEF MsgTaken
    <3>5. pc' \in [Threads -> ThreadPc]
      BY <3>1 DEF MsgTaken
    <3> QED
      BY <3>1, <3>3, <3>4, <3>5 DEF MsgTaken
  <2>3. CASE ReadEof(t)
    BY <2>3 DEF ReadEof
  <2>4. CASE ReadError(t)
    BY <2>4 DEF ReadError, Open, ConnState
  <2>5. CASE LockSend(t)
    <3>1. log' \in Seq(Messages)
      BY <2>5 DEF LockSend, LockedSend
    <3>2. pos' \in [Threads -> Nat] /\ i' \in [Threads -> Nat]
      BY <2>5, <3>1 DEF LockSend, LockedSend
    <3> QED
      BY <2>5, <3>1, <3>2 DEF LockSend, LockedSend
  <2>6. AtEntry(t) => i' \in [Threads -> Nat]
    <3> HIDE DEF TypeOK
    <3>1. i \in [Threads -> Nat]
      BY DEF TypeOK
    <3> QED
      BY <3>1 DEF AtEntry
  <2>7. CASE WriteFails(t) \/ WriteSigpipe(t)
    BY <2>6, <2>7 DEF WriteFails, WriteSigpipe
  <2>8. CASE WriteDelivers(t) \/ WriteToClosed(t)
    <3>1. PICK c \in Clients : c = fdTab[Target(t)]
      BY <2>8 DEF WriteDelivers, WriteToClosed, Open
    <3>2. CASE WriteDelivers(t)
      <4>1. rcvd' = [rcvd EXCEPT ![c] = Append(@, pos[t])]
        BY <3>1, <3>2 DEF WriteDelivers
      <4>2. Append(rcvd[c], pos[t]) \in Seq(Nat)
        OBVIOUS
      <4>3. rcvd' \in [Clients -> Seq(Nat)]
        BY <4>1, <4>2
      <4> QED
        BY <2>6, <3>2, <4>3 DEF WriteDelivers
    <3>3. CASE WriteToClosed(t)
      <4>1. \E s \in {"gone", "reset"} : conn' = [conn EXCEPT ![c] = s]
        BY <3>1, <3>3 DEF WriteToClosed
      <4>2. conn' \in [Clients -> ConnState]
        BY <4>1 DEF ConnState
      <4> QED
        BY <2>6, <3>3, <4>2 DEF WriteToClosed
    <3> QED
      BY <2>8, <3>2, <3>3
  <2>9. CASE EndSend(t)
    BY <2>9 DEF EndSend, SendEnds
  <2>10. CASE LockRemove(t)
    BY <2>10 DEF LockRemove
  <2>11. CASE Remove(t)
    BY <2>11, InBounds, RemovedType DEF Remove
  <2>12. CASE CountDown(t)
    BY <2>12 DEF CountDown, CountedDown
  <2>13. CASE Release(t)
    BY <2>13 DEF Release, Released
  <2>14. CASE Close(t)
    BY <2>14 DEF Close
  <2> QED
    BY <1>3, <2>1, <2>2, <2>3, <2>4, <2>5, <2>6, <2>7, <2>8, <2>9, <2>10, <2>11,
       <2>12, <2>13, <2>14 DEF ThreadStep, Write
<1> QED
  BY <1>1, <1>2, <1>3 DEF Next

(***************************************************************************)
(* The order of the broadcasts.                                            *)
(***************************************************************************)
\* A step adds to the log only when it takes the mutex, and delivers only what
\* its thread is writing.
LEMMA LogSteps ==
  ASSUME TypeOK, NEW t \in Threads, ThreadStep(t)
  PROVE  \/ LockSend(t)
         \/ WriteDelivers(t)
         \/ /\ UNCHANGED <<log, rcvd, pos>>
            /\ \A u \in Threads : pc'[u] = "write" =>
                 pc[u] = "write" /\ msg'[u] = msg[u]
<1> USE DEF TypeOK, Goto, ThreadPc, ghostVars
<1>1. CASE ReadArg(t) \/ ReadMsg(t) \/ ReadEof(t) \/ ReadError(t)
  BY <1>1 DEF ReadArg, ReadMsg, MsgTaken, ReadEof, ReadError
<1>2. CASE WriteFails(t) \/ WriteToClosed(t) \/ WriteSigpipe(t)
  BY <1>2 DEF WriteFails, WriteToClosed, WriteSigpipe
<1>3. CASE EndSend(t) \/ Release(t) \/ LockRemove(t)
  BY <1>3 DEF EndSend, SendEnds, Release, Released, LockRemove
<1>4. CASE Remove(t) \/ CountDown(t) \/ Close(t)
  BY <1>4 DEF Remove, CountDown, CountedDown, Close
<1> QED
  BY <1>1, <1>2, <1>3, <1>4 DEF ThreadStep, Write

LEMMA StepLog ==
  ASSUME TypeOK, Births, MutexInv, LogInv, Next PROVE LogInv'
<1> USE DEF TypeOK
<1>1. CASE \E c \in Clients : ClientStep(c)
  BY <1>1, ClientSteps DEF threadVars, ghostVars, LogInv
<1>2. CASE MainStep
  <2>1. UNCHANGED <<pos, msg, log, rcvd>>
    BY <1>2 DEF MainStep, AcceptOk, AcceptFail, MainLock, MainLocked, MainAppend,
                MainUnlock, MainCreate, threadVars, ghostVars
  <2>2. \A t \in Threads : pc'[t] = "write" => pc[t] = "write"
    BY <1>2, MainSteps DEF MainShape
  <2> QED
    BY <2>1, <2>2 DEF LogInv
<1>3. ASSUME NEW t \in Threads, ThreadStep(t) PROVE LogInv'
  <2>1. CASE LockSend(t)
    <3>1. \A u \in Threads : u # t => pc'[u] # "write"
      BY <2>1, ConstantsAssumption
      DEF LockSend, LockedSend, Goto, MutexInv, InCritical, NoOne, Threads
    <3>2. pos'[t] = Len(log') /\ rcvd' = rcvd /\ msg' = msg
      BY <2>1 DEF LockSend, LockedSend
    <3>3. Len(log') >= Len(log) /\ (msg[t] # Failed => Len(log') # 0)
      BY <2>1 DEF LockSend, LockedSend
    <3>4. Len(log) \in Nat /\ Len(log') \in Nat
      BY <2>1 DEF LockSend, LockedSend
    <3>5. \A u \in Threads : pc'[u] = "write" =>
            pos'[u] = Len(log') /\ (msg'[u] # Failed => pos'[u] # 0)
      BY <3>1, <3>2, <3>3
    <3>6. ASSUME NEW c \in Clients, NEW k \in 1..Len(rcvd'[c]) PROVE rcvd'[c][k] <= Len(log')
      <4>1. rcvd[c] \in Seq(Nat) /\ rcvd'[c] = rcvd[c] /\ k \in 1..Len(rcvd[c])
        <5>1. rcvd \in [Clients -> Seq(Nat)]
          BY DEF TypeOK
        <5> HIDE DEF TypeOK
        <5> QED
          BY <3>2, <3>6, <5>1
      <4>2. rcvd[c][k] \in Nat /\ rcvd[c][k] <= Len(log)
        BY <4>1 DEF LogInv
      <4> HIDE DEF TypeOK
      <4> QED
        BY <4>1, <4>2, <3>3, <3>4
    <3> HIDE DEF TypeOK
    <3> QED
      BY <3>5, <3>6 DEF LogInv
  <2>2. CASE WriteDelivers(t)
    <3>1. PICK c \in Clients : rcvd' = [rcvd EXCEPT ![c] = Append(@, pos[t])]
      BY <2>2 DEF WriteDelivers, Open
    <3>2. pos[t] = Len(log) /\ UNCHANGED <<log, pos, msg, pc>>
      BY <2>2 DEF WriteDelivers, AtEntry, LogInv
    <3>3. ASSUME NEW d \in Clients, NEW k \in 1..Len(rcvd'[d])
          PROVE  rcvd'[d][k] <= Len(log)
      <4>1. CASE d # c
        BY <3>1, <3>3, <4>1 DEF LogInv
      <4>2. CASE d = c /\ k = Len(rcvd[c]) + 1
        BY <3>1, <3>2, <4>2
      <4>3. CASE d = c /\ k # Len(rcvd[c]) + 1
        BY <3>1, <3>3, <4>3 DEF LogInv
      <4> QED
        BY <4>1, <4>2, <4>3
    <3> QED
      BY <3>2, <3>3 DEF LogInv
  <2>3. CASE ~LockSend(t) /\ ~WriteDelivers(t)
    BY <1>3, <2>3, LogSteps DEF LogInv
  <2> QED
    BY <2>1, <2>2, <2>3
<1> QED
  BY <1>1, <1>2, <1>3 DEF Next

LEMMA Inductive == IInv /\ [Next]_vars => IInv'
<1>1. IInv /\ Next => IInv'
  BY StepType, StepBirths, StepMutex, StepCount, StepLog DEF IInv
<1>2. IInv /\ UNCHANGED vars => IInv'
  BY DEF IInv, TypeOK, Births, MutexInv, InCritical, CountMatchesThreads, Counted,
         LogInv, vars, mainVars, tableVars, threadVars, netVars, ghostVars
<1> QED
  BY <1>1, <1>2

LEMMA Invariance == Spec => []IInv
  BY InitIInv, Inductive, PTL DEF Spec

(***************************************************************************)
(* The results.                                                            *)
(***************************************************************************)
\* Every variable keeps its type.  The table does only because the counter
\* stays within it, which the other parts of IInv give.
THEOREM TypeCorrect == Spec => []TypeOK
<1>1. IInv => TypeOK
  BY DEF IInv
<1> QED
  BY <1>1, Invariance, PTL

\* The critical sections of main, send_msg and handle_clnt exclude each other.
THEOREM MutualExclusion == Spec => []MutexInv
<1>1. IInv => MutexInv
  BY DEF IInv
<1> QED
  BY <1>1, Invariance, PTL

\* clnt_cnt counts the connections being served, whatever removal does to the
\* entries and whatever the threads find in their argument.
THEOREM CounterIsRight == Spec => []CountMatchesThreads
<1>1. IInv => CountMatchesThreads
  BY DEF IInv
<1> QED
  BY <1>1, Invariance, PTL

\* With no more accepts than MAX_CLNT, clnt_socks is never indexed outside its
\* bounds by the append.
THEOREM AppendInBounds ==
  Spec => [](mpc = "append" => clnt_cnt \in 0..(MAX_CLNT - 1))
<1>1. IInv => (mpc = "append" => clnt_cnt \in 0..(MAX_CLNT - 1))
  BY InBounds, ConstantsAssumption DEF IInv
<1> QED
  BY <1>1, Invariance, PTL

\* Every client receives the broadcasts in the order in which send_msg took the
\* mutex: the server implements TotalOrder.
THEOREM ImplementsOneOrder == Spec => OneOrder
<1>1. Init => Order!Init
  BY DEF Init, Order!Init
<1>2. IInv /\ [Next]_vars => [Order!Next]_(Order!vars)
  <2> SUFFICES ASSUME IInv, [Next]_vars PROVE [Order!Next]_(Order!vars)
    OBVIOUS
  <2> USE DEF IInv, TypeOK, Order!vars
  <2>1. CASE UNCHANGED vars
    BY <2>1 DEF vars, ghostVars
  <2>2. CASE \E c \in Clients : ClientStep(c)
    BY <2>2, ClientSteps DEF ghostVars
  <2>3. CASE MainStep
    BY <2>3 DEF MainStep, AcceptOk, AcceptFail, MainLock, MainLocked, MainAppend,
                MainUnlock, MainCreate, ghostVars
  <2>4. ASSUME NEW t \in Threads, ThreadStep(t)
        PROVE  Order!Next \/ UNCHANGED Order!vars
    <3>1. CASE LockSend(t)
      <4>1. CASE msg[t] = Failed
        BY <3>1, <4>1 DEF LockSend, LockedSend
      <4>2. CASE msg[t] # Failed
        <5>1. msg[t] \in Messages /\ Order!Broadcast(msg[t])
          BY <3>1, <4>2 DEF LockSend, LockedSend, Order!Broadcast
        <5> QED
          BY <5>1 DEF Order!Next
      <4> QED
        BY <4>1, <4>2
    <3>2. CASE WriteDelivers(t)
      <4>1. PICK c \in Clients : rcvd' = [rcvd EXCEPT ![c] = Append(@, pos[t])]
        BY <3>2 DEF WriteDelivers, Open
      <4>2. pos[t] = Len(log) /\ pos[t] # 0 /\ log' = log
        BY <3>2 DEF WriteDelivers, AtEntry, LogInv
      <4>3. pos[t] \in 1..Len(log)
        BY <4>2
      <4>4. \A k \in 1..Len(rcvd[c]) : rcvd[c][k] <= pos[t]
        BY <4>2 DEF LogInv
      <4>5. Order!Deliver(c)
        BY <4>1, <4>2, <4>3, <4>4 DEF Order!Deliver
      <4> QED
        BY <4>5 DEF Order!Next
    <3>3. CASE ~LockSend(t) /\ ~WriteDelivers(t)
      BY <2>4, <3>3, LogSteps
    <3> QED
      BY <3>1, <3>2, <3>3
  <2> QED
    BY <2>1, <2>2, <2>3, <2>4 DEF Next
<1> QED
  BY <1>1, <1>2, Invariance, PTL DEF Spec, OneOrder, Order!Spec

(***************************************************************************)
(* Who has which descriptor.                                               *)
(***************************************************************************)
Live(t) == pc[t] \notin {"unborn", "done"}
MainHolds == mpc # "accept"

\* Descriptors and connections are one to one, and what was never accepted has
\* none.
FdTabInv ==
  \A f \in Fds : fdTab[f] # Nobody =>
    /\ conn[fdTab[f]] # "pending"
    /\ \A g \in Fds : fdTab[g] = fdTab[f] => g = f

\* While every thread serves the connection it was created for, no two have
\* the same one, and nobody else closes it.
OwnFds ==
  OwnArg =>
    /\ \A t \in Threads : Live(t) /\ given[t] \in Fds =>
         /\ fdTab[given[t]] # Nobody
         /\ \A u \in Threads : Live(u) /\ given[u] = given[t] => u = t
         /\ MainHolds => clnt_sock # given[t]
    /\ MainHolds /\ clnt_sock \in Fds => fdTab[clnt_sock] # Nobody

\* A message that is to be broadcast is the last its client was heard to send,
\* and it is newer than what was broadcast of that client.
LastTaken ==
  OwnArg =>
    /\ \A j \in 1..Len(log) : log[j][2] <= taken[log[j][1]]
    /\ \A t \in Threads : pc[t] = "lockSend" /\ msg[t] # Failed =>
         /\ sock[t] \in Fds /\ fdTab[sock[t]] = msg[t][1]
         /\ msg[t][2] = taken[msg[t][1]]
         /\ \A j \in 1..Len(log) : log[j][1] = msg[t][1] => log[j][2] < msg[t][2]

OrderInv == FdTabInv /\ OwnFds /\ LastTaken /\ SenderOrder

\* What the steps do to descriptors and connections.
LEMMA ThreadFds ==
  ASSUME TypeOK, NEW t \in Threads, ThreadStep(t)
  PROVE  /\ UNCHANGED <<mpc, clnt_sock, created, given>>
         /\ \A u \in Threads : u # t => pc'[u] = pc[u] /\ sock'[u] = sock[u]
         /\ pc[t] # "unborn" /\ pc[t] # "done" /\ pc'[t] # "unborn" /\ pc'[t] # "start"
         /\ sock'[t] = IF pc[t] = "start" THEN clnt_sock ELSE sock[t]
         /\ \/ fdTab' = fdTab /\ pc'[t] # "done"
            \/ /\ pc[t] = "close" /\ pc'[t] = "done"
               /\ \A f \in Fds : fdTab'[f] = IF f = sock[t] THEN Nobody ELSE fdTab[f]
         /\ \A c \in Clients : /\ conn'[c] = "pending" <=> conn[c] = "pending"
                               /\ conn'[c] = "up" => conn[c] = "up"
<1>a. /\ pc \in [Threads -> ThreadPc] /\ sock \in [Threads -> Fds \cup {NoFd}]
      /\ fdTab \in [Fds -> Clients \cup {Nobody}] /\ conn \in [Clients -> ConnState]
  BY DEF TypeOK
<1> USE DEF Goto, mainVars, netVars
<1>1. CASE ReadArg(t) \/ ReadMsg(t) \/ ReadEof(t)
  BY <1>1, <1>a DEF ReadArg, ReadMsg, MsgTaken, ReadEof
<1>2. CASE ReadError(t)
  BY <1>2, <1>a DEF ReadError, Open
<1>3. CASE LockSend(t) \/ EndSend(t) \/ LockRemove(t)
  BY <1>3, <1>a DEF LockSend, LockedSend, EndSend, SendEnds, LockRemove
<1>4. CASE Write(t)
  BY <1>4, <1>a DEF Write, WriteFails, WriteDelivers, WriteToClosed, WriteSigpipe, AtEntry, Open
<1>5. CASE Remove(t) \/ CountDown(t) \/ Release(t)
  BY <1>5, <1>a DEF Remove, CountDown, CountedDown, Release, Released
<1>6. CASE Close(t)
  BY <1>6, <1>a DEF Close, Open
<1> QED
  BY <1>1, <1>2, <1>3, <1>4, <1>5, <1>6 DEF ThreadStep

\* A descriptor that is connected now was connected to the same client, or has
\* just been given to one that nobody had accepted.
LEMMA MainFds ==
  ASSUME TypeOK, Births, MainStep
  PROVE  /\ UNCHANGED <<sock, taken, log, rcvd, msg, i, pos>>
         /\ \/ /\ mpc = "accept" /\ MainHolds' /\ UNCHANGED <<created, pc, given>>
               /\ \/ clnt_sock' = NoFd /\ UNCHANGED <<fdTab, conn>>
                  \/ \E c \in Clients : \E f \in Fds :
                       /\ conn[c] = "pending" /\ fdTab[f] = Nobody /\ clnt_sock' = f
                       /\ fdTab' = [fdTab EXCEPT ![f] = c]
                       /\ conn' = [conn EXCEPT ![c] = "up"]
            \/ /\ mpc \in {"lock", "append", "unlock"} /\ MainHolds'
               /\ UNCHANGED <<clnt_sock, fdTab, conn, created, pc, given>>
            \/ /\ mpc = "create" /\ ~MainHolds' /\ UNCHANGED <<clnt_sock, fdTab, conn>>
               /\ created' = created + 1 /\ created + 1 \in Threads
               /\ pc[created + 1] = "unborn"
               /\ pc' = [pc EXCEPT ![created + 1] = "start"]
               /\ given' = [given EXCEPT ![created + 1] = clnt_sock]
<1> USE DEF MainHolds, mainVars, threadVars, netVars, ghostVars
<1>1. CASE \E c \in Clients : AcceptOk(c)
  BY <1>1 DEF AcceptOk, LowestFree, FreeFds
<1>2. CASE AcceptFail
  BY <1>2 DEF AcceptFail
<1>3. CASE MainLock \/ MainAppend \/ MainUnlock
  BY <1>3 DEF MainLock, MainLocked, MainAppend, MainUnlock
<1>4. CASE MainCreate
  <2>1. created + 1 \in Threads /\ created + 1 > created /\ mpc = "create"
    BY <1>4, ConstantsAssumption DEF MainCreate, Births, Threads, TypeOK
  <2> QED
    BY <1>4, <2>1 DEF MainCreate, Births
<1> QED
  BY <1>1, <1>2, <1>3, <1>4 DEF MainStep

LEMMA StepFdTab == ASSUME TypeOK, Births, FdTabInv, Next PROVE FdTabInv'
<1> USE ConstantsAssumption DEF FdTabInv
<1>a. fdTab \in [Fds -> Clients \cup {Nobody}] /\ conn \in [Clients -> ConnState]
  BY DEF TypeOK
<1>1. ASSUME NEW c \in Clients, ClientStep(c) PROVE FdTabInv'
  <2>1. fdTab' = fdTab
    BY <1>1, ClientSteps
  <2>2. \A d \in Clients : conn'[d] = "pending" <=> conn[d] = "pending"
    BY <1>1, <1>a DEF ClientStep, Send, Recv, Quit
  <2> QED
    BY <2>1, <2>2, <1>a
<1>2. CASE MainStep
  BY <1>2, <1>a, MainFds
<1>3. ASSUME NEW t \in Threads, ThreadStep(t) PROVE FdTabInv'
  <2>1. \A d \in Clients : conn'[d] = "pending" <=> conn[d] = "pending"
    BY <1>3, ThreadFds
  <2>2. \A f \in Fds : fdTab'[f] \in {fdTab[f], Nobody}
    BY <1>3, ThreadFds
  <2>3. \A f \in Fds : fdTab'[f] # Nobody =>
          fdTab'[f] = fdTab[f] /\ fdTab[f] \in Clients /\ fdTab[f] # Nobody
    BY <2>2, <1>a
  <2> QED
    BY <2>1, <2>3
<1> QED
  BY <1>1, <1>2, <1>3 DEF Next

\* A thread that has read the wrong argument never gets another.
LEMMA OwnArgBefore == ASSUME TypeOK, Births, Next, OwnArg' PROVE OwnArg
<1>a. pc \in [Threads -> ThreadPc] /\ given \in [Threads -> Fds \cup {NoFd}]
  BY DEF TypeOK
<1> USE DEF OwnArg, Started
<1>1. CASE \E c \in Clients : ClientStep(c)
  BY <1>1, ClientSteps DEF threadVars
<1>2. CASE MainStep
  BY <1>2, <1>a, MainFds
<1>3. ASSUME NEW t \in Threads, ThreadStep(t) PROVE OwnArg
  BY <1>3, <1>a, ThreadFds
<1> QED
  BY <1>1, <1>2, <1>3 DEF Next

LEMMA StepOwnFds ==
  ASSUME TypeOK, Births, OwnFds, Next PROVE OwnFds'
<1> SUFFICES ASSUME OwnArg' PROVE OwnFds'
  BY DEF OwnFds
<1>o. OwnArg
  BY OwnArgBefore
<1> USE ConstantsAssumption DEF OwnFds, Live
<1>a. /\ pc \in [Threads -> ThreadPc] /\ given \in [Threads -> Fds \cup {NoFd}]
      /\ fdTab \in [Fds -> Clients \cup {Nobody}]
      /\ mpc \in MainPc /\ NoFd \notin Fds
  BY DEF TypeOK, NoFd
<1>1. ASSUME NEW c \in Clients, ClientStep(c) PROVE OwnFds'
  BY <1>1, <1>o, ClientSteps DEF mainVars, threadVars, MainHolds
<1>2. CASE MainStep
  <2>1. CASE mpc = "accept" /\ clnt_sock' = NoFd
    BY <1>2, <2>1, <1>a, <1>o, MainFds DEF MainHolds
  <2>2. CASE mpc = "accept" /\ clnt_sock' # NoFd
    <3>1. PICK c \in Clients, f \in Fds :
            /\ UNCHANGED <<pc, given>> /\ fdTab[f] = Nobody /\ clnt_sock' = f /\ fdTab' = [fdTab EXCEPT ![f] = c]
      BY <1>2, <2>2, MainFds DEF MainHolds
    <3> QED
      BY <3>1, <1>a, <1>o
  <2>3. CASE mpc \in {"lock", "append", "unlock"}
    BY <1>2, <2>3, <1>a, <1>o, MainFds DEF MainHolds
  <2>4. CASE mpc = "create"
    <3>1. /\ ~MainHolds' /\ MainHolds /\ UNCHANGED <<clnt_sock, fdTab>>
          /\ created + 1 \in Threads /\ pc[created + 1] = "unborn"
          /\ pc' = [pc EXCEPT ![created + 1] = "start"]
          /\ given' = [given EXCEPT ![created + 1] = clnt_sock]
      BY <1>2, <2>4, MainFds DEF MainHolds
    <3>2. \A u \in Threads : u # created + 1 => pc'[u] = pc[u] /\ given'[u] = given[u]
      BY <3>1, <1>a
    <3>3. given'[created + 1] = clnt_sock
      BY <3>1, <1>a
    <3> HIDE DEF OwnFds
    <3>4. ASSUME NEW u \in Threads, Live(u)', given'[u] \in Fds
          PROVE  /\ fdTab[given'[u]] # Nobody
                 /\ \A v \in Threads : Live(v)' /\ given'[v] = given'[u] => v = u
      BY <3>1, <3>2, <3>3, <3>4, <1>o DEF OwnFds
    <3> QED
      BY <3>1, <3>4 DEF OwnFds
  <2> QED
    BY <2>1, <2>2, <2>3, <2>4, <1>a DEF MainPc
<1>3. ASSUME NEW t \in Threads, ThreadStep(t) PROVE OwnFds'
  <2>1. MainHolds' = MainHolds /\ UNCHANGED <<clnt_sock, given>>
    BY <1>3, ThreadFds DEF MainHolds
  <2>2. \A u \in Threads : Live(u)' => Live(u)
    BY <1>3, ThreadFds
  <2>3. CASE fdTab' = fdTab
    BY <2>1, <2>2, <2>3, <1>o
  <2>4. CASE fdTab' # fdTab
    <3>1. /\ pc[t] = "close" /\ pc'[t] = "done"
          /\ \A f \in Fds : fdTab'[f] = IF f = sock[t] THEN Nobody ELSE fdTab[f]
      BY <1>3, <2>4, ThreadFds
    <3>2. sock[t] = given[t] /\ Live(t)
      BY <3>1, <1>o DEF OwnArg, Started
    <3>3. ASSUME NEW f \in Fds, f # given[t] PROVE fdTab'[f] = fdTab[f]
      BY <3>1, <3>2, <3>3
    <3>4. \A u \in Threads : Live(u)' /\ given[u] \in Fds => given[u] # given[t]
      BY <2>2, <3>1, <3>2, <1>o
    <3>5. MainHolds /\ clnt_sock \in Fds => clnt_sock # given[t]
      BY <3>2, <1>o
    <3> QED
      BY <2>1, <2>2, <3>3, <3>4, <3>5, <1>o
  <2> QED
    BY <2>3, <2>4
<1> QED
  BY <1>1, <1>2, <1>3 DEF Next

\* No two threads hear the same client.
LEMMA OneThreadPerClient ==
  ASSUME FdTabInv, OwnFds, OwnArg,
         NEW t \in Threads, pc[t] \in {"read", "lockSend"}, Open(sock[t]),
         NEW u \in Threads, Started(u), Live(u), sock[u] \in Fds,
         fdTab[sock[u]] = fdTab[sock[t]]
  PROVE  t = u
<1>1. sock[t] = given[t] /\ sock[u] = given[u] /\ Live(t)
  BY DEF OwnArg, Started, Live
<1>2. sock[u] = sock[t]
  BY DEF FdTabInv, Open
<1> QED
  BY <1>1, <1>2 DEF OwnFds, Open

LEMMA MessageParts ==
  ASSUME NEW m \in Messages
  PROVE  m[1] \in Clients /\ m[2] \in 1..MaxMsgs
BY DEF Messages

LEMMA StepLastTaken ==
  ASSUME TypeOK, Births, FdTabInv, OwnFds, LastTaken, Next PROVE LastTaken'
<1> SUFFICES ASSUME OwnArg' PROVE LastTaken'
  BY DEF LastTaken
<1>o. OwnArg
  BY OwnArgBefore
<1>a. /\ pc \in [Threads -> ThreadPc] /\ msg \in [Threads -> Messages \cup {Failed}]
      /\ log \in Seq(Messages) /\ taken \in [Clients -> 0..MaxMsgs]
      /\ fdTab \in [Fds -> Clients \cup {Nobody}] /\ sock \in [Threads -> Fds \cup {NoFd}]
  BY DEF TypeOK
<1>b. \A j \in 1..Len(log) : log[j][1] \in Clients /\ log[j][2] \in 1..MaxMsgs
  BY <1>a, MessageParts
\* The thread that is about to broadcast hears the client of its message.
<1>c. ASSUME NEW u \in Threads, pc[u] = "lockSend", msg[u] # Failed
      PROVE  /\ sock[u] \in Fds /\ fdTab[sock[u]] = msg[u][1] /\ msg[u][1] \in Clients
             /\ fdTab[sock[u]] # Nobody /\ Open(sock[u]) /\ Live(u) /\ Started(u)
             /\ msg[u][2] = taken[msg[u][1]]
             /\ \A j \in 1..Len(log) : log[j][1] = msg[u][1] => log[j][2] < msg[u][2]
  BY <1>a, <1>c, <1>o, MessageParts, ConstantsAssumption
  DEF LastTaken, Open, Live, Started
<1>d. \A j \in 1..Len(log) : log[j][2] <= taken[log[j][1]]
  BY <1>o DEF LastTaken
<1>1. ASSUME NEW c \in Clients, ClientStep(c) PROVE LastTaken'
  BY <1>1, <1>c, <1>d, ClientSteps DEF LastTaken, threadVars, ghostVars
<1>2. CASE MainStep
  <2>1. UNCHANGED <<sock, taken, log, msg>>
    BY <1>2, MainFds
  <2>2. ASSUME NEW u \in Threads, pc'[u] = "lockSend" PROVE pc[u] = "lockSend"
    BY <1>2, <1>a, <2>2, MainFds
  <2>3. \A f \in Fds : fdTab[f] # Nobody => fdTab'[f] = fdTab[f]
    BY <1>2, <1>a, MainFds
  <2> QED
    BY <1>c, <1>d, <2>1, <2>2, <2>3 DEF LastTaken
<1>3. ASSUME NEW t \in Threads, ReadMsg(t) PROVE LastTaken'
  <2> DEFINE c == fdTab[sock[t]]
  <2>1. /\ pc[t] = "read" /\ pc' = [pc EXCEPT ![t] = "lockSend"] /\ Open(sock[t])
        /\ c \in Clients
        /\ taken' = [taken EXCEPT ![c] = @ + 1]
        /\ msg' = [msg EXCEPT ![t] = <<c, taken[c] + 1>>]
        /\ UNCHANGED <<log, sock, fdTab>>
    BY <1>3, <1>a DEF ReadMsg, MsgTaken, Goto, Open, ghostVars
  <2> HIDE DEF c
  <2>2. taken'[c] = taken[c] + 1 /\ \A d \in Clients : d # c => taken'[d] = taken[d]
    BY <2>1, <1>a
  <2>3. \A j \in 1..Len(log) : log[j][2] <= taken'[log[j][1]]
    BY <1>a, <1>b, <1>d, <2>1, <2>2
  <2>4. ASSUME NEW u \in Threads, u # t, pc'[u] = "lockSend", msg'[u] # Failed
        PROVE  msg[u][1] # c /\ pc[u] = "lockSend" /\ msg'[u] = msg[u]
    <3>1. pc[u] = "lockSend" /\ msg'[u] = msg[u]
      BY <1>a, <2>1, <2>4
    <3> QED
      BY <1>c, <1>o, <2>1, <2>4, <3>1, OneThreadPerClient DEF c
  <2>5. msg'[t] = <<c, taken[c] + 1>>
    BY <2>1, <1>a
  <2>6. \A j \in 1..Len(log) : log[j][1] = c => log[j][2] < taken[c] + 1
    BY <1>a, <1>b, <1>d, <2>1
  <2>7. ASSUME NEW u \in Threads, pc'[u] = "lockSend", msg'[u] # Failed
        PROVE  /\ sock[u] \in Fds /\ fdTab[sock[u]] = msg'[u][1]
               /\ msg'[u][2] = taken'[msg'[u][1]]
               /\ \A j \in 1..Len(log) : log[j][1] = msg'[u][1] => log[j][2] < msg'[u][2]
    <3>1. CASE u = t
      BY <3>1, <2>1, <2>2, <2>5, <2>6 DEF c, Open
    <3>2. CASE u # t
      BY <3>2, <2>7, <2>2, <2>4, <1>c
    <3> QED
      BY <3>1, <3>2
  <2> QED
    BY <2>1, <2>3, <2>7 DEF LastTaken
<1>4. ASSUME NEW t \in Threads, LockSend(t) PROVE LastTaken'
  <2>1. /\ pc[t] = "lockSend" /\ pc' = [pc EXCEPT ![t] = "write"]
        /\ UNCHANGED <<sock, msg, taken, fdTab>>
        /\ log' = IF msg[t] = Failed THEN log ELSE Append(log, msg[t])
    BY <1>4 DEF LockSend, LockedSend, Goto, netVars
  <2>2. ASSUME NEW u \in Threads, pc'[u] = "lockSend" PROVE u # t /\ pc[u] = "lockSend"
    BY <1>a, <2>1, <2>2
  <2>3. CASE msg[t] = Failed
    BY <2>1, <2>2, <2>3, <1>c, <1>d DEF LastTaken
  <2>4. CASE msg[t] # Failed
    <3>1. /\ Len(log') = Len(log) + 1 /\ log'[Len(log) + 1] = msg[t]
          /\ \A j \in 1..Len(log) : log'[j] = log[j]
      BY <1>a, <2>1, <2>4
    <3>2. \A j \in 1..Len(log') : j \in 1..Len(log) \/ j = Len(log) + 1
      BY <1>a, <3>1
    <3>3. msg[t][2] = taken[msg[t][1]] /\ msg[t][2] \in Nat
      BY <1>a, <1>c, <2>1, <2>4, MessageParts
    <3>4. ASSUME NEW u \in Threads, pc'[u] = "lockSend", msg[u] # Failed
          PROVE  msg[u][1] # msg[t][1]
      BY <1>c, <1>o, <2>1, <2>2, <2>4, <3>4, OneThreadPerClient
    <3>5. \A j \in 1..Len(log') : log'[j][2] <= taken[log'[j][1]]
      BY <1>d, <3>1, <3>2, <3>3
    <3>6. \A u \in Threads : pc'[u] = "lockSend" /\ msg[u] # Failed =>
            \A j \in 1..Len(log') : log'[j][1] = msg[u][1] => log'[j][2] < msg[u][2]
      BY <1>c, <2>2, <3>1, <3>2, <3>4
    <3> QED
      BY <2>1, <2>2, <3>5, <3>6, <1>c DEF LastTaken
  <2> QED
    BY <2>3, <2>4
<1>5. ASSUME NEW t \in Threads, ThreadStep(t), ~ReadMsg(t), ~LockSend(t) PROVE LastTaken'
  <2>1. /\ UNCHANGED <<taken, log>>
        /\ \A u \in Threads : pc'[u] = "lockSend" /\ msg'[u] # Failed =>
              pc[u] = "lockSend" /\ msg'[u] = msg[u] /\ sock'[u] = sock[u]
    <3> USE <1>a DEF Goto, netVars, ghostVars
    <3>1. CASE ReadArg(t) \/ ReadEof(t)
      BY <3>1 DEF ReadArg, ReadEof
    <3>4. CASE ReadError(t)
      <4>1. /\ UNCHANGED <<taken, log, sock>>
            /\ pc' = [pc EXCEPT ![t] = "lockSend"] /\ msg' = [msg EXCEPT ![t] = Failed]
        BY <3>4 DEF ReadError
      <4> QED
        BY <4>1
    <3>2. CASE Write(t) \/ EndSend(t)
      BY <3>2 DEF Write, WriteFails, WriteDelivers, WriteToClosed, WriteSigpipe, AtEntry,
                  EndSend, SendEnds
    <3>3. CASE LockRemove(t) \/ Remove(t) \/ CountDown(t) \/ Release(t) \/ Close(t)
      BY <3>3 DEF LockRemove, Remove, CountDown, CountedDown, Release, Released, Close
    <3> QED
      BY <1>5, <3>1, <3>2, <3>3, <3>4 DEF ThreadStep
  <2>2. ASSUME NEW u \in Threads, pc'[u] = "lockSend", msg'[u] # Failed
        PROVE  fdTab'[sock[u]] = fdTab[sock[u]]
    <3>1. CASE fdTab' = fdTab
      BY <3>1
    <3>2. CASE fdTab' # fdTab
      <4>1. /\ pc[t] = "close" /\ pc'[t] = "done"
            /\ \A f \in Fds : fdTab'[f] = IF f = sock[t] THEN Nobody ELSE fdTab[f]
        BY <1>5, <3>2, ThreadFds
      <4>2. sock[u] \in Fds /\ sock[u] = given[u] /\ Live(u) /\ u # t
        BY <1>c, <1>o, <2>1, <2>2, <4>1 DEF OwnArg
      <4>3. sock[t] = given[t] /\ Live(t)
        BY <1>o, <4>1 DEF OwnArg, Live, Started
      <4>4. sock[t] # sock[u]
        BY <1>o, <4>2, <4>3 DEF OwnFds
      <4> QED
        BY <4>1, <4>2, <4>4
    <3> QED
      BY <3>1, <3>2
  <2> QED
    BY <2>1, <2>2, <1>c, <1>d DEF LastTaken
<1> QED
  BY <1>1, <1>2, <1>3, <1>4, <1>5 DEF Next

LEMMA StepSenderOrder ==
  ASSUME TypeOK, Births, LastTaken, SenderOrder, Next PROVE SenderOrder'
<1> SUFFICES ASSUME OwnArg' PROVE SenderOrder'
  BY DEF SenderOrder
<1>o. OwnArg
  BY OwnArgBefore
<1>1. CASE log' = log
  BY <1>1, <1>o DEF SenderOrder
<1>2. CASE log' # log
  <2>1. PICK t \in Threads : LockSend(t) /\ msg[t] # Failed /\ pc[t] = "lockSend"
    <3>1. \A c \in Clients : ~ClientStep(c)
      BY <1>2, ClientSteps DEF ghostVars
    <3>2. ~MainStep
      BY <1>2, MainFds
    <3>3. PICK t \in Threads : ThreadStep(t)
      BY <3>1, <3>2 DEF Next
    <3>4. LockSend(t)
      BY <1>2, <3>3, LogSteps DEF WriteDelivers
    <3> QED
      BY <1>2, <3>4 DEF LockSend, LockedSend, Goto
  <2>2. log \in Seq(Messages) /\ msg[t] \in Messages /\ log' = Append(log, msg[t])
    BY <2>1 DEF TypeOK, LockSend, LockedSend
  <2>3. /\ Len(log') = Len(log) + 1 /\ log'[Len(log) + 1] = msg[t]
        /\ \A j \in 1..Len(log) : log'[j] = log[j]
    BY <2>2
  <2>4. ASSUME NEW j \in 1..Len(log'), NEW k \in 1..Len(log'),
               j < k, log'[j][1] = log'[k][1]
        PROVE  log'[j][2] < log'[k][2]
    <3>1. j \in 1..Len(log) /\ (k \in 1..Len(log) \/ k = Len(log) + 1)
      BY <2>2, <2>3, <2>4
    <3>2. CASE k \in 1..Len(log)
      BY <1>o, <2>3, <2>4, <3>1, <3>2 DEF SenderOrder
    <3>3. CASE k = Len(log) + 1
      BY <1>o, <2>1, <2>3, <2>4, <3>1, <3>3 DEF LastTaken
    <3> QED
      BY <3>1, <3>2, <3>3
  <2> QED
    BY <2>4 DEF SenderOrder
<1> QED
  BY <1>1, <1>2

LEMMA InitOrder == Init => OrderInv
BY ConstantsAssumption
DEF Init, OrderInv, FdTabInv, OwnFds, LastTaken, SenderOrder, OwnArg, Live, MainHolds

LEMMA OrderInvariance == Spec => []OrderInv
<1>1. IInv /\ OrderInv /\ [Next]_vars => OrderInv'
  <2>1. IInv /\ OrderInv /\ Next => OrderInv'
    BY StepFdTab, StepOwnFds, StepLastTaken, StepSenderOrder DEF IInv, OrderInv
  <2>2. OrderInv /\ UNCHANGED vars => OrderInv'
    BY DEF vars, mainVars, threadVars, netVars, ghostVars, OrderInv, FdTabInv, OwnFds, LastTaken,
           SenderOrder, OwnArg, Started, Live, MainHolds
  <2> QED
    BY <2>1, <2>2
<1> QED
  BY InitOrder, Invariance, <1>1, PTL DEF Spec

\* As long as every thread has read its argument in time, the messages of one
\* client are broadcast in the order it sent them, none twice.
THEOREM SendersInOrder == Spec => []SenderOrder
<1>1. OrderInv => SenderOrder
  BY DEF OrderInv
<1> QED
  BY <1>1, OrderInvariance, PTL

(***************************************************************************)
(* The table before the first client leaves.                               *)
(***************************************************************************)
Appended == created + (IF mpc \in {"unlock", "create"} THEN 1 ELSE 0)
Entry(k) == IF k < created THEN given[k + 1] ELSE clnt_sock

\* The table lists the descriptors in the order of the threads, all of them
\* open and each once.
TableInv ==
  NoneLeft =>
    /\ clnt_cnt = Appended
    /\ \A k \in 0..(clnt_cnt - 1) : clnt_socks[k] = Entry(k)
    /\ \A j \in 0..(clnt_cnt - 1) : Entry(j) \in Fds =>
         /\ fdTab[Entry(j)] # Nobody
         /\ \A k \in 0..(clnt_cnt - 1) : Entry(k) = Entry(j) => k = j
         /\ mpc \in {"lock", "append"} => clnt_sock # Entry(j)
    /\ MainHolds /\ clnt_sock \in Fds => fdTab[clnt_sock] # Nobody

\* The broadcast under way has reached the clients up to the loop index.
Never(c, n) == \A x \in DOMAIN rcvd[c] : rcvd[c][x] # n
Once(c, n) ==
  \E x \in DOMAIN rcvd[c] :
    rcvd[c][x] = n /\ \A y \in DOMAIN rcvd[c] : rcvd[c][y] = n => y = x
Progress(t, k) ==
  LET f == clnt_socks[k]
      c == fdTab[f] IN
  f \in Fds /\ conn[c] = "up" =>
    IF k < i[t] THEN Once(c, pos[t]) ELSE Never(c, pos[t])
ReachedInv ==
  NoneLeft => \A t \in Threads : pc[t] = "write" /\ msg[t] # Failed =>
    \A k \in 0..(clnt_cnt - 1) : Progress(t, k)

LEMMA NoneLeftBefore == ASSUME TypeOK, Births, Next, NoneLeft' PROVE NoneLeft
<1> USE DEF NoneLeft
<1>a. pc \in [Threads -> ThreadPc]
  BY DEF TypeOK
<1>1. CASE \E c \in Clients : ClientStep(c)
  BY <1>1, ClientSteps DEF threadVars
<1>2. CASE MainStep
  BY <1>2, <1>a, MainFds
<1>3. ASSUME NEW t \in Threads, ThreadStep(t) PROVE NoneLeft
  BY <1>3, <1>a, ThreadSteps DEF ThreadShape
<1> QED
  BY <1>1, <1>2, <1>3 DEF Next

\* Until then the threads leave the table and the descriptors alone.
LEMMA ThreadsKeepTable ==
  ASSUME TypeOK, NEW t \in Threads, ThreadStep(t), NoneLeft'
  PROVE  UNCHANGED <<clnt_socks, clnt_cnt, fdTab, mpc, clnt_sock, created, given>>
<1>a. pc \in [Threads -> ThreadPc]
  BY DEF TypeOK
<1> USE DEF NoneLeft, Goto, mainVars, tableVars, netVars
<1>1. CASE ReadArg(t) \/ ReadMsg(t) \/ ReadEof(t) \/ ReadError(t)
  BY <1>1 DEF ReadArg, ReadMsg, MsgTaken, ReadEof, ReadError
<1>2. CASE LockSend(t) \/ EndSend(t) \/ LockRemove(t)
  BY <1>2 DEF LockSend, LockedSend, EndSend, SendEnds, LockRemove
<1>3. CASE Write(t)
  BY <1>3 DEF Write, WriteFails, WriteDelivers, WriteToClosed, WriteSigpipe
<1>4. CASE Remove(t) \/ CountDown(t) \/ Release(t) \/ Close(t)
  BY <1>4, <1>a DEF Remove, CountDown, CountedDown, Release, Released, Close
<1> QED
  BY <1>1, <1>2, <1>3, <1>4 DEF ThreadStep

LEMMA StepTable ==
  ASSUME TypeOK, Births, CountMatchesThreads, TableInv, Next PROVE TableInv'
<1> SUFFICES ASSUME NoneLeft' PROVE TableInv'
  BY DEF TableInv
<1>n. NoneLeft
  BY NoneLeftBefore
<1>a. /\ given \in [Threads -> Fds \cup {NoFd}] /\ fdTab \in [Fds -> Clients \cup {Nobody}]
      /\ mpc \in MainPc /\ created \in Nat /\ NoFd \notin Fds /\ Nobody \notin Clients
      /\ clnt_socks \in [0..MAX_CLNT -> Fds \cup {NoFd, 0}]
  BY ConstantsAssumption DEF TypeOK, NoFd
<1>b. clnt_cnt \in 0..MAX_CLNT /\ (mpc = "append" => clnt_cnt < MAX_CLNT)
  BY InBounds
<1>c. \A k \in 0..(created - 1) : k + 1 \in Threads
  BY ConstantsAssumption DEF TypeOK, Threads
<1> USE DEF TableInv, Appended, Entry, MainHolds
<1>1. ASSUME NEW c \in Clients, ClientStep(c) PROVE TableInv'
  BY <1>1, <1>n, ClientSteps DEF mainVars, tableVars, threadVars
<1>2. CASE MainStep
  <2>1. CASE mpc = "accept"
    <3>1. /\ mpc' = "lock" /\ UNCHANGED <<clnt_socks, clnt_cnt, created, given>>
          /\ \/ clnt_sock' = NoFd /\ fdTab' = fdTab
             \/ \E c \in Clients, f \in Fds :
                  fdTab[f] = Nobody /\ clnt_sock' = f /\ fdTab' = [fdTab EXCEPT ![f] = c]
      BY <1>2, <2>1 DEF MainStep, AcceptOk, LowestFree, FreeFds, AcceptFail, MainLock, MainLocked,
                        MainAppend, MainUnlock, MainCreate, tableVars, threadVars, netVars
    <3> QED
      BY <3>1, <2>1, <1>n, <1>a, <1>b
  <2>2. CASE mpc \in {"lock", "unlock"}
    <3>1. /\ <<mpc, mpc'>> \in {<<"lock", "append">>, <<"unlock", "create">>}
          /\ UNCHANGED <<clnt_socks, clnt_cnt, clnt_sock, created, given, fdTab>>
      BY <1>2, <2>2 DEF MainStep, AcceptOk, AcceptFail, MainLock, MainLocked, MainAppend,
                        MainUnlock, MainCreate, tableVars, threadVars, netVars
    <3> QED
      BY <3>1, <2>2, <1>n
  <2>3. CASE mpc = "append"
    <3>1. /\ mpc' = "unlock" /\ clnt_cnt' = clnt_cnt + 1
          /\ clnt_socks' = [clnt_socks EXCEPT ![clnt_cnt] = clnt_sock]
          /\ UNCHANGED <<clnt_sock, created, given, fdTab>>
      BY <1>2, <2>3 DEF MainStep, AcceptOk, AcceptFail, MainLock, MainLocked, MainAppend,
                        MainUnlock, MainCreate, tableVars, threadVars, netVars
    <3>2. clnt_cnt = created /\ \A k \in 0..clnt_cnt : k = created \/ k \in 0..(clnt_cnt - 1)
      BY <2>3, <1>n, <1>a
    <3>3. \A k \in 0..clnt_cnt : clnt_socks'[k] = Entry(k)
      BY <3>1, <3>2, <1>n, <1>a, <1>b
    <3>4. ASSUME NEW j \in 0..clnt_cnt, Entry(j) \in Fds
          PROVE  /\ fdTab[Entry(j)] # Nobody
                 /\ \A k \in 0..clnt_cnt : Entry(k) = Entry(j) => k = j
      BY <3>2, <3>4, <2>3, <1>n, <1>a
    <3>5. \A k \in 0..clnt_cnt : Entry(k)' = Entry(k)
      BY <3>1
    <3> HIDE DEF Entry
    <3>6. 0..(clnt_cnt' - 1) = 0..clnt_cnt /\ clnt_cnt' = Appended'
      BY <3>1, <3>2, <1>b
    <3>7. (\A k \in 0..(clnt_cnt - 1) : clnt_socks[k] = Entry(k))'
      BY <3>3, <3>5, <3>6
    <3>8. (\A j \in 0..(clnt_cnt - 1) : Entry(j) \in Fds =>
             /\ fdTab[Entry(j)] # Nobody
             /\ \A k \in 0..(clnt_cnt - 1) : Entry(k) = Entry(j) => k = j
             /\ mpc \in {"lock", "append"} => clnt_sock # Entry(j))'
      <4> SUFFICES ASSUME NEW j \in 0..clnt_cnt, Entry(j)' \in Fds
                   PROVE  /\ fdTab'[Entry(j)'] # Nobody
                          /\ \A k \in 0..clnt_cnt : Entry(k)' = Entry(j)' => k = j
        BY <3>1, <3>6
      <4>1. Entry(j)' = Entry(j)
        BY <3>5
      <4> QED
        BY <3>1, <3>4, <3>5, <4>1
    <3>9. (MainHolds /\ clnt_sock \in Fds => fdTab[clnt_sock] # Nobody)'
      BY <3>1, <2>3, <1>n
    <3> QED
      BY <3>6, <3>7, <3>8, <3>9
  <2>4. CASE mpc = "create"
    <3>1. /\ mpc' = "accept" /\ created' = created + 1 /\ created + 1 \in Threads
          /\ given' = [given EXCEPT ![created + 1] = clnt_sock]
          /\ UNCHANGED <<clnt_socks, clnt_cnt, clnt_sock, fdTab>>
      BY <1>2, <2>4, MainFds DEF MainStep, AcceptOk, AcceptFail, MainLock, MainLocked, MainAppend,
                        MainUnlock, MainCreate, tableVars, threadVars, netVars
    <3>2. \A k \in 0..(clnt_cnt - 1) : Entry(k)' = Entry(k)
      BY <3>1, <2>4, <1>n, <1>a, <1>b, <1>c
    <3> HIDE DEF Entry
    <3> QED
      BY <3>1, <3>2, <2>4, <1>n
  <2> QED
    BY <2>1, <2>2, <2>3, <2>4, <1>a DEF MainPc
<1>3. ASSUME NEW t \in Threads, ThreadStep(t) PROVE TableInv'
  BY <1>3, <1>n, ThreadsKeepTable
<1> QED
  BY <1>1, <1>2, <1>3 DEF Next

LEMMA EntryOpen ==
  ASSUME TypeOK, TableInv, NoneLeft, NEW k \in 0..(clnt_cnt - 1), clnt_socks[k] \in Fds
  PROVE  /\ fdTab[clnt_socks[k]] # Nobody /\ fdTab[clnt_socks[k]] \in Clients
         /\ \A j \in 0..(clnt_cnt - 1) : clnt_socks[j] = clnt_socks[k] => j = k
<1>1. \A j \in 0..(clnt_cnt - 1) : clnt_socks[j] = Entry(j)
  BY DEF TableInv
<1>2. fdTab[Entry(k)] # Nobody /\ \A j \in 0..(clnt_cnt - 1) : Entry(j) = Entry(k) => j = k
  BY <1>1 DEF TableInv
<1> QED
  BY <1>1, <1>2 DEF TypeOK

LEMMA StepReached ==
  ASSUME IInv, FdTabInv, TableInv, ReachedInv, Next PROVE ReachedInv'
<1> SUFFICES ASSUME NoneLeft', NEW t \in Threads, pc'[t] = "write", msg'[t] # Failed,
                    NEW k \in 0..(clnt_cnt' - 1), clnt_socks'[k] \in Fds,
                    conn'[fdTab'[clnt_socks'[k]]] = "up"
             PROVE  Progress(t, k)'
  <2> SUFFICES ASSUME NoneLeft', NEW t \in Threads, pc'[t] = "write", msg'[t] # Failed,
                      NEW k \in 0..(clnt_cnt' - 1)
               PROVE  Progress(t, k)'
    BY DEF ReachedInv
  <2> QED
    BY DEF Progress
<1>n. NoneLeft
  BY NoneLeftBefore DEF IInv
<1> USE DEF IInv
<1>a. /\ pc \in [Threads -> ThreadPc] /\ fdTab \in [Fds -> Clients \cup {Nobody}]
      /\ rcvd \in [Clients -> Seq(Nat)] /\ pos \in [Threads -> Nat] /\ i \in [Threads -> Nat]
      /\ conn \in [Clients -> ConnState] /\ log \in Seq(Messages)
      /\ clnt_cnt \in Int
  BY DEF TypeOK
<1> DEFINE f == clnt_socks[k]
           c == fdTab[f]
\* What was reached before is still reached when nothing that matters changes.
<1>b. ASSUME pc[t] = "write", msg[t] # Failed, clnt_cnt' = clnt_cnt, clnt_socks' = clnt_socks,
             fdTab'[f] = c, conn[c] = "up",
             rcvd'[c] = rcvd[c], pos'[t] = pos[t], (k < i'[t]) <=> (k < i[t])
      PROVE  Progress(t, k)'
  <2>1. Progress(t, k) /\ f \in Fds
    BY <1>b, <1>n DEF ReachedInv
  <2>2. IF k < i[t] THEN Once(c, pos[t]) ELSE Never(c, pos[t])
    BY <1>b, <2>1 DEF Progress
  <2> QED
    BY <1>b, <2>2 DEF Progress, Once, Never
<1>1. CASE \E d \in Clients : ClientStep(d)
  <2>1. /\ UNCHANGED <<clnt_cnt, clnt_socks, fdTab, pc, msg, rcvd, pos, i>>
    BY <1>1, ClientSteps DEF tableVars, threadVars, ghostVars
  <2>2. f \in Fds /\ k \in 0..(clnt_cnt - 1)
    BY <2>1
  <2>3. c \in Clients
    BY <2>2, <1>n, EntryOpen
  <2>4. conn[c] = "up"
    BY <1>1, <1>a, <2>1, <2>3 DEF ClientStep, Send, Recv, Quit
  <2> QED
    BY <1>b, <2>1, <2>4
<1>2. CASE MainStep
  <2>1. pc[t] = "write"
    BY <1>2, MainSteps, <1>a DEF MainShape
  <2>2. mpc # "append"
    BY <2>1, ConstantsAssumption DEF MutexInv, InCritical, Main, Threads
  <2>3. UNCHANGED <<clnt_cnt, clnt_socks, msg, rcvd, pos, i>>
    BY <1>2, <2>2 DEF MainStep, AcceptOk, AcceptFail, MainLock, MainLocked, MainAppend,
                      MainUnlock, MainCreate, tableVars, threadVars, netVars, ghostVars
  <2>4. f \in Fds /\ c # Nobody /\ c \in Clients /\ conn[c] # "pending"
    BY <2>3, <1>n, <1>a, EntryOpen DEF FdTabInv
  <2>5. fdTab'[f] = c /\ conn'[c] = conn[c]
    BY <1>2, <2>4, <1>a, MainFds
  <2> QED
    BY <1>b, <2>1, <2>3, <2>5
<1>3. ASSUME NEW u \in Threads, ThreadStep(u)
      PROVE  Progress(t, k)'
  <2>1. UNCHANGED <<clnt_socks, clnt_cnt, fdTab>>
    BY <1>3, ThreadsKeepTable
  <2>2. f \in Fds /\ c \in Clients /\ \A j \in 0..(clnt_cnt - 1) : clnt_socks[j] = f => j = k
    BY <2>1, <1>n, <1>a, EntryOpen
  <2>3. conn[c] = "up"
    BY <1>3, <2>1, <2>2, ThreadFds
  <2>4. CASE LockSend(u)
    <3>1. t = u
      BY <1>a, <2>4, ConstantsAssumption
      DEF LockSend, LockedSend, Goto, MutexInv, InCritical, NoOne, Threads
    <3>2. i'[t] = 0 /\ pos'[t] = Len(log') /\ msg[t] # Failed /\ rcvd' = rcvd
          /\ log' = Append(log, msg[t]) /\ msg[t] \in Messages
      BY <1>a, <2>4, <3>1 DEF LockSend, LockedSend, TypeOK
    <3>3. pos'[t] = Len(log) + 1 /\ Len(log) \in Nat
      BY <1>a, <3>2
    <3>4. \A x \in DOMAIN rcvd[c] : rcvd[c][x] # pos'[t]
      <4>1. rcvd[c] \in Seq(Nat) /\ DOMAIN rcvd[c] = 1..Len(rcvd[c])
        BY <1>a, <2>2
      <4>2. \A x \in 1..Len(rcvd[c]) : rcvd[c][x] \in Nat /\ rcvd[c][x] <= Len(log)
        BY <2>2, <4>1 DEF LogInv
      <4> QED
        BY <3>3, <4>1, <4>2
    <3> QED
      BY <2>1, <3>2, <3>4 DEF Progress, Never
  <2>5. CASE Write(u)
    <3>1. t = u /\ UNCHANGED <<pc, msg, pos>> /\ i[t] < clnt_cnt /\ i' = [i EXCEPT ![t] = @ + 1]
      BY <2>5 DEF Write, WriteFails, WriteDelivers, WriteToClosed, WriteSigpipe, AtEntry, MutexInv,
                  InCritical
    <3>2. pc[t] = "write" /\ msg[t] # Failed /\ i'[t] = i[t] + 1 /\ i[t] \in 0..(clnt_cnt - 1)
      BY <3>1, <1>a
    <3>3. CASE WriteDelivers(t)
      <4> DEFINE g == clnt_socks[i[t]]
                 d == fdTab[g]
      <4>1. g \in Fds /\ d \in Clients /\ rcvd' = [rcvd EXCEPT ![d] = Append(@, pos[t])] /\ conn' = conn
        BY <3>3, <1>a DEF WriteDelivers, Open, Target, netVars
      <4> HIDE DEF g, d
      <4>2. CASE k = i[t]
        <5>1. d = c
          BY <4>2 DEF d, g
        <5>2. \A x \in DOMAIN rcvd[c] : rcvd[c][x] # pos[t]
          <6>1. Progress(t, k)
            BY <1>n, <2>1, <3>2 DEF ReachedInv
          <6> QED
            BY <1>a, <2>2, <2>3, <4>2, <6>1 DEF Progress, Never
        <5>3. rcvd'[c] = Append(rcvd[c], pos[t]) /\ rcvd[c] \in Seq(Nat) /\ pos[t] \in Nat
          BY <1>a, <2>2, <4>1, <5>1
        <5>4. /\ DOMAIN rcvd'[c] = 1..(Len(rcvd[c]) + 1) /\ DOMAIN rcvd[c] = 1..Len(rcvd[c])
              /\ Len(rcvd[c]) \in Nat /\ Len(rcvd'[c]) = Len(rcvd[c]) + 1
              /\ rcvd'[c][Len(rcvd[c]) + 1] = pos[t]
              /\ \A x \in 1..Len(rcvd[c]) : rcvd'[c][x] = rcvd[c][x]
          BY <5>3
        <5>5. k < i'[t]
          BY <3>2, <4>2
        <5>6. Once(c, pos[t])'
          <6>1. Len(rcvd[c]) + 1 \in DOMAIN rcvd'[c]
            BY <5>4
          <6>2. \A y \in DOMAIN rcvd'[c] : rcvd'[c][y] = pos[t] => y = Len(rcvd[c]) + 1
            BY <5>2, <5>4, SMTT(30)
          <6> QED
            BY <2>1, <3>1, <5>4, <6>1, <6>2 DEF Once
        <5> QED
          BY <2>1, <3>1, <5>5, <5>6 DEF Progress, Once
      <4>3. CASE k # i[t]
        <5>1. g # f
          BY <2>2, <3>2, <4>3 DEF g
        <5>2. d # c
          BY <2>2, <4>1, <5>1, ConstantsAssumption DEF FdTabInv, d
        <5>3. rcvd'[c] = rcvd[c]
          BY <1>a, <2>2, <4>1, <5>2
        <5>4. k < i'[t] <=> k < i[t]
          BY <3>2, <4>3
        <5> QED
          BY <1>b, <2>1, <2>3, <3>1, <3>2, <5>3, <5>4
      <4> QED
        BY <4>2, <4>3
    <3>4. CASE ~WriteDelivers(t)
      <4>1. rcvd' = rcvd
        BY <2>5, <3>1, <3>4 DEF Write, WriteFails, WriteToClosed, WriteSigpipe, netVars, ghostVars
      <4>2. k # i[t]
        <5>1. CASE k = i[t]
          <6>1. Open(Target(t)) /\ conn[c] = "up" /\ Target(t) = f
            BY <5>1, <2>2, <2>3, ConstantsAssumption DEF Open, Target
          <6> QED
            BY <6>1, <2>5, <3>1, <3>2, <3>4 DEF Write, WriteFails, WriteToClosed, WriteSigpipe
        <5> QED
          BY <5>1
      <4>3. k < i'[t] <=> k < i[t]
        BY <3>2, <4>2
      <4> QED
        BY <1>b, <2>1, <2>3, <3>1, <3>2, <4>1, <4>3
    <3> QED
      BY <3>3, <3>4
  <2>6. CASE ~LockSend(u) /\ ~Write(u)
    <3>1. UNCHANGED <<rcvd, pos, i>> /\ pc[t] = "write" /\ msg[t] # Failed
      <4>1. UNCHANGED <<rcvd, pos>> /\ pc[t] = "write" /\ msg'[t] = msg[t]
        BY <1>3, <2>6, LogSteps DEF Write
      <4>2. i' = i
        BY <1>3, <2>6 DEF ThreadStep, ReadArg, ReadMsg, MsgTaken, ReadEof, ReadError, EndSend,
          SendEnds, LockRemove, Remove, CountDown, CountedDown, Release, Released, Close
      <4> QED
        BY <4>1, <4>2
    <3> QED
      BY <1>b, <2>1, <2>3, <3>1
  <2> QED
    BY <2>4, <2>5, <2>6
<1> QED
  BY <1>1, <1>2, <1>3 DEF Next

LEMMA InitTable == Init => TableInv /\ ReachedInv
BY DEF Init, TableInv, ReachedInv, Appended, MainHolds

LEMMA TableInvariance == Spec => [](TableInv /\ ReachedInv)
<1>1. IInv /\ OrderInv /\ TableInv /\ ReachedInv /\ [Next]_vars => TableInv' /\ ReachedInv'
  <2>1. IInv /\ OrderInv /\ TableInv /\ ReachedInv /\ Next => TableInv' /\ ReachedInv'
    BY StepTable, StepReached DEF IInv, OrderInv
  <2>2. TableInv /\ ReachedInv /\ UNCHANGED vars => TableInv' /\ ReachedInv'
    <3> SUFFICES ASSUME TableInv, ReachedInv, UNCHANGED vars PROVE TableInv' /\ ReachedInv'
      OBVIOUS
    <3>1. UNCHANGED <<mpc, clnt_sock, created, clnt_socks, clnt_cnt, pc, msg, i, pos, fdTab, conn, rcvd, given>>
      BY DEF vars, mainVars, tableVars, threadVars, netVars, ghostVars
    <3>2. (NoneLeft' <=> NoneLeft) /\ Appended' = Appended /\ (MainHolds' <=> MainHolds)
      BY <3>1 DEF NoneLeft, Appended, MainHolds
    <3>3. \A k : Entry(k)' = Entry(k)
      BY <3>1 DEF Entry
    <3>4. \A t, k : Progress(t, k)' <=> Progress(t, k)
      BY <3>1 DEF Progress, Once, Never
    <3>5. TableInv'
      BY <3>1, <3>2, <3>3 DEF TableInv
    <3>6. ReachedInv'
      BY <3>1, <3>2, <3>4 DEF ReachedInv
    <3> QED
      BY <3>5, <3>6
  <2> QED
    BY <2>1, <2>2
<1> QED
  BY InitTable, Invariance, OrderInvariance, <1>1, PTL DEF Spec

\* Until the first client leaves, a finished broadcast has reached every
\* registered client that is still there, and once.
THEOREM EachIsReachedOnce == Spec => []EachOnceWhileNoneLeft
<1>1. IInv /\ TableInv /\ ReachedInv => EachOnceWhileNoneLeft
  <2> SUFFICES ASSUME IInv, TableInv, ReachedInv, NEW t \in Threads, Finished(t), NoneLeft,
                      NEW f \in Registered \cap Fds, conn[fdTab[f]] = "up"
               PROVE  Cardinality({k \in DOMAIN rcvd[fdTab[f]] : rcvd[fdTab[f]][k] = pos[t]}) = 1
    BY DEF EachOnceWhileNoneLeft
  <2>1. mpc \notin {"append", "unlock"} /\ pc[t] = "write" /\ msg[t] # Failed /\ i[t] >= clnt_cnt
    BY ConstantsAssumption DEF IInv, Finished, MutexInv, InCritical, Main, Threads
  <2>2. PICK k \in 0..(clnt_cnt - 1) : Entry(k) = f
    <3>1. CASE f = clnt_sock /\ mpc = "create"
      <4>1. clnt_cnt = created + 1 /\ created \in Nat
        BY <3>1 DEF TableInv, Appended, IInv, TypeOK
      <4>2. created \in 0..(clnt_cnt - 1) /\ Entry(created) = f
        BY <3>1, <4>1 DEF Entry
      <4> QED
        BY <4>2
    <3>2. ASSUME NEW u \in Threads, pc[u] # "unborn", f = given[u]
          PROVE  \E k \in 0..(clnt_cnt - 1) : Entry(k) = f
      <4>1. u \in 1..created /\ created \in Nat
        BY <3>2 DEF IInv, Births, Threads, TypeOK
      <4>2. u - 1 \in 0..(clnt_cnt - 1) /\ u - 1 < created /\ (u - 1) + 1 = u
        BY <4>1 DEF TableInv, Appended
      <4> QED
        BY <3>2, <4>2 DEF Entry
    <3> QED
      BY <3>1, <3>2 DEF Registered
  <2>3. clnt_socks[k] = f /\ k < i[t]
    BY <2>1, <2>2 DEF TableInv, IInv, TypeOK
  <2>4. Once(fdTab[f], pos[t])
    BY <2>1, <2>3 DEF ReachedInv, Progress
  <2>5. PICK x \in DOMAIN rcvd[fdTab[f]] :
          {y \in DOMAIN rcvd[fdTab[f]] : rcvd[fdTab[f]][y] = pos[t]} = {x}
    BY <2>4 DEF Once
  <2> QED
    BY <2>5, FS_Singleton
<1> QED
  BY <1>1, Invariance, TableInvariance, PTL
==============================================================================
