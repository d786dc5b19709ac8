----------------------------- MODULE StoreServer -----------------------------
(***************************************************************************)
(* chapter-11/echo_storeserv.c: ForkServer, whose children also write what *)
(* they echo to a pipe, and a process forked at the start that copies what *)
(* the pipe brings to a file.  It ends after five reads.                   *)
(***************************************************************************)
EXTENDS ForkServer

CONSTANTS
  Logger,       \* the slot of the logging process
  LogReads,     \* 5 in the source
  LogSize,      \* size of msgbuf
  PipeSize      \* kernel: bytes a pipe holds

ASSUME StoreAssumption ==
  /\ Logging /\ Logger \in Procs
  /\ BUFSIZ <= PipeSize      \* and no chunk is too long to be written at once
  /\ LogReads \in Nat /\ LogSize \in Nat \ {0} /\ PipeSize \in Nat \ {0}

VARIABLES
  pipe,         \* bytes in the pipe, each a client and a number
  reads,        \* reads the logger has done
  stdio,        \* bytes in the buffer of its FILE
  file,         \* bytes in echomsg.out
  down          \* the whole program has been interrupted

logVars == <<pipe, reads, stdio, file, down>>
vars == <<forkVars, logVars>>

StoreInit ==
  /\ ForkInit
  /\ pstate = [p \in Procs |-> IF p = Logger THEN "logger" ELSE "none"]
  /\ pipe = <<>> /\ reads = 0 /\ stdio = <<>> /\ file = <<>> /\ down = FALSE

\* write(fds[1], buf, str_len): all or, while the pipe has no room, nothing.
Store(p) ==
  /\ pstate[p] = "log" /\ Len(pipe) + Len(buf[p]) <= PipeSize
  /\ pipe' = pipe \o [j \in 1..Len(buf[p]) |-> <<serves[p], buf[p][j]>>]
  /\ pstate' = [pstate EXCEPT ![p] = "read"]
  /\ buf' = [buf EXCEPT ![p] = <<>>]
  /\ UNCHANGED <<mainVars, sigVars, serves, has, netVars, reads, stdio, file, down>>

InMsgbuf == IF Len(pipe) < LogSize THEN Len(pipe) ELSE LogSize

Logs(n, kept) ==
  /\ pstate[Logger] = "logger" /\ reads < LogReads /\ n \in 1..Len(pipe)
  /\ stdio' = stdio \o SubSeq(pipe, 1, kept)
  /\ pipe' = SubSeq(pipe, n + 1, Len(pipe))
  /\ reads' = reads + 1
  /\ UNCHANGED <<forkVars, file, down>>

\* Fault: the last byte read is not written.
LogLosesLast == Logs(InMsgbuf, InMsgbuf - 1)
\* Fault: the logger waits until msgbuf is full.
LogWaitsForFull == InMsgbuf = LogSize /\ Logs(LogSize, LogSize)

\* read(fds[0], msgbuf, BUF_SIZE) and fwrite.
Log == Logs(InMsgbuf, InMsgbuf)

\* fclose writes the buffer to the file, and the logger ends.
LogEnds ==
  /\ pstate[Logger] = "logger" /\ reads = LogReads
  /\ file' = file \o stdio /\ stdio' = <<>>
  /\ Ends(Logger)
  /\ UNCHANGED <<netVars, pipe, reads, down>>

\* The whole process group is interrupted: nothing of its processes is left,
\* and the pipe and the buffer of the FILE are lost with them.
Interrupt ==
  /\ down' = TRUE /\ stdio' = <<>> /\ pipe' = <<>>
  /\ mpc' = "accept" /\ clnt_sock' = Nobody /\ mainHas' = {}
  /\ sigchld' = FALSE /\ inHandler' = FALSE /\ merged' = 0
  /\ pstate' = [p \in Procs |-> "none"] /\ serves' = [p \in Procs |-> Nobody]
  /\ has' = [p \in Procs |-> {}] /\ buf' = [p \in Procs |-> <<>>]
  /\ UNCHANGED <<netVars, reads, file>>

StoreStep(p) == Store(p) \/ (ChildStep(p) /\ UNCHANGED logVars)
LoggerStep == Log \/ LogEnds

StoreNext ==
  /\ ~down
  /\ \/ (MainStep \/ Signal \/ \E c \in Clients : ClientStep(c)) /\ UNCHANGED logVars
     \/ (\E p \in Procs : StoreStep(p)) \/ LoggerStep \/ Interrupt

StoreSpec == StoreInit /\ [][StoreNext]_vars

\* Every process that can run does so.
StoreFairSpec ==
  /\ StoreSpec
  /\ WF_vars(~down /\ MainStep /\ UNCHANGED logVars)
  /\ WF_vars(~down /\ Signal /\ UNCHANGED logVars)
  /\ \A p \in Procs : WF_vars(~down /\ StoreStep(p))
  /\ WF_vars(~down /\ LoggerStep)

(***************************************************************************)
(* Properties.                                                             *)
(***************************************************************************)
\* What was logged of a client, to the file, its buffer and the pipe, is what
\* it sent, in order and without gaps, however the children's writes mix: the
\* numbers of its bytes that come before a byte are those below it.
Numbers(s, n, c) == {s[j][2] : j \in {i \in 1..n : s[i][1] = c}}
Logged == file \o stdio \o pipe
StoredInOrder ==
  \A k \in DOMAIN Logged :
    LET c == Logged[k][1]
        n == Logged[k][2] IN
      n \in 1..got[c] /\ Numbers(Logged, k - 1, c) = 1..(n - 1)

\* While the logger reads the pipe, a client that stays gets its whole echo:
\* neither the second write nor the logger keeps its child from answering.
Echoing(c) == Len(echoed[c]) = sent[c] \/ conn[c] # "up" \/ ServerClosed(c) \/ down
AnsweredWhileLogging == []<>(reads = LogReads \/ \A c \in Clients : Echoing(c))

\* A client that stays gets its whole echo, whatever the logger does.
Answered == []<>(\A c \in Clients : Echoing(c))
=============================================================================
