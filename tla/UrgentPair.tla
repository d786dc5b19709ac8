------------------------------ MODULE UrgentPair ------------------------------
(***************************************************************************)
(* chapter-13: "oob" (oob_send.c, oob_recv.c), urgent data with a SIGURG   *)
(* handler, and "peek" (peek_send.c, peek_recv.c).  The receiver is the    *)
(* server.  TCP has one urgent mark: the last byte of the latest send with *)
(* MSG_OOB, which lies in the stream and which recv without MSG_OOB leaves *)
(* out.  The bytes are numbered in the order they are sent.  timely: the   *)
(* receiver has done with everything before the sender's sleep(1) is over. *)
(***************************************************************************)
EXTENDS Connection

CONSTANT Unit   \* bytes in "123", 3 in the sources

ASSUME UrgentAssumption == Unit \in Nat \ {0}

VARIABLES
  mark,         \* the urgent byte of the stream, or NoMark
  fresh,        \* it has not been read with MSG_OOB
  urgent,       \* SIGURG: "ignored", "no", "pending", "handled" right now, or
                \* "again" if one more has arrived meanwhile
  heard         \* urgent bytes the handler has printed

urgentVars == <<mark, fresh, urgent, heard>>

NoMark == 0
UrgentPrograms == {"oob", "peek"}
NoUrgentData == mark = NoMark /\ fresh = FALSE /\ urgent = "ignored" /\ heard = <<>>

\* What the sender sends, and which of it with MSG_OOB: 123 4 567 890.
Sizes == IF program = "oob" THEN <<Unit, 1, Unit, Unit>> ELSE <<Unit>>
Starts == <<0, Unit, Unit + 1, 2 * Unit + 1>>
Segment(k) == [j \in 1..Sizes[k] |-> Starts[k] + j]
IsUrgent(k) == k \in {2, 4}
UrgentBytes == IF program = "oob" THEN {Unit + 1, 3 * Unit + 1} ELSE {}

UrgentInit ==
  /\ program \in UrgentPrograms /\ timely \in BOOLEAN
  /\ pc = [server |-> IF program = "oob" THEN "accepted" ELSE "peek", client |-> "send"]
  /\ NoConnection /\ NoUrgentData
  /\ buf = [s \in Sides |-> <<>>] /\ printed = buf /\ text = <<>>

(***************************************************************************)
(* The sender, and what its segments do to the receiver's socket.          *)
(***************************************************************************)
\* The receiver has done with everything sent so far.
Rested == pc["server"] = "recv" /\ stream["server"] = <<>> /\ urgent \in {"ignored", "no"}
\* sleep(1) comes before all sends but the first, and not before close.
Unhurried(k) == program = "oob" /\ k > 1 /\ timely => Rested

\* A new mark: the byte of the old one becomes ordinary data, but is left out
\* if it was next.  SIGURG goes to the owner of the socket, if it has one.
Rest == IF stream["server"] # <<>> /\ Head(stream["server"]) = mark
        THEN Tail(stream["server"]) ELSE stream["server"]
Marks(bytes) ==
  /\ stream' = [stream EXCEPT !["server"] = Rest \o bytes]
  /\ mark' = bytes[Len(bytes)] /\ fresh' = TRUE
  /\ urgent' = CASE urgent = "ignored" -> "ignored"
                 [] urgent \in {"handled", "again"} -> "again"
                 [] OTHER -> "pending"

SendSegment(k) ==
  /\ k \in DOMAIN Sizes /\ pc["client"] = "send" /\ Len(text) = Starts[k] /\ Unhurried(k)
  /\ IF IsUrgent(k) THEN Marks(Segment(k))
     ELSE stream' = [stream EXCEPT !["server"] = @ \o Segment(k)] /\ UNCHANGED <<mark, fresh, urgent>>
  /\ text' = text \o Segment(k)
  /\ pc' = [pc EXCEPT !["client"] = IF k = Len(Sizes) THEN "close" ELSE @]
  /\ UNCHANGED <<fin, closed, reset, buf, printed, heard>>

SenderCloses ==
  /\ Moves("client", "close", "end") /\ Closes("client")
  /\ UNCHANGED <<buf, text, printed, urgentVars>>

(***************************************************************************)
(* oob_recv.c.                                                             *)
(***************************************************************************)
\* Fault: the handler is not registered, or the socket has no owner.
RegisterNot == Moves("server", "accepted", "recv") /\ UNCHANGED urgent

\* fcntl(recv_sock, F_SETOWN, getpid()) and sigaction(SIGURG).
Register == Moves("server", "accepted", "recv") /\ urgent' = "no"
Registers == Register /\ UNCHANGED <<netVars, buf, text, printed, mark, fresh, heard>>

\* The handler runs between any two steps of main; a SIGURG that arrives while
\* it runs comes after it.
HandlerEnters ==
  /\ urgent = "pending" /\ urgent' = "handled"
  /\ UNCHANGED <<pc, netVars, buf, text, printed, mark, fresh, heard>>

\* recv(MSG_OOB) gives the byte under the mark once; a second time it returns
\* -1, and buf[-1] is written and an old buffer printed.
HandlerReads ==
  /\ urgent \in {"handled", "again"}
  /\ heard' = Append(heard, IF fresh THEN mark ELSE NoMark) /\ fresh' = FALSE
  /\ urgent' = IF urgent = "again" THEN "pending" ELSE "no"
  /\ UNCHANGED <<pc, netVars, buf, text, printed, mark>>

\* recv without MSG_OOB: up to the mark, or from it on without its byte.  It
\* does not pass the mark with a signal pending but returns -1, and main tries
\* again after the handler.
InMain == pc["server"] = "recv" /\ urgent \in {"ignored", "no", "pending"}
AtMark == stream["server"] # <<>> /\ Head(stream["server"]) = mark
Ordinary == IF AtMark THEN Tail(stream["server"]) ELSE stream["server"]
PassesMark ==
  /\ AtMark => urgent # "pending"
  /\ mark' = (IF AtMark THEN NoMark ELSE mark) /\ fresh' = (fresh /\ ~AtMark)

Receives ==
  /\ InMain /\ PassesMark
  /\ \E n \in 1..Len(Ordinary) :
       /\ \A k \in 1..n : Ordinary[k] # mark
       /\ Prints("server", SubSeq(Ordinary, 1, n))
       /\ stream' = [stream EXCEPT !["server"] = SubSeq(Ordinary, n + 1, Len(Ordinary))]
  /\ UNCHANGED <<pc, fin, closed, reset, buf, text, urgent, heard>>

\* The mark was all there was; recv waits on behind it.
ReceivesOnlyMark ==
  /\ InMain /\ AtMark /\ Ordinary = <<>> /\ PassesMark
  /\ stream' = [stream EXCEPT !["server"] = <<>>]
  /\ UNCHANGED <<pc, fin, closed, reset, buf, text, printed, urgent, heard>>

ReceivesEof ==
  /\ InMain /\ urgent # "pending" /\ AtEof("server")
  /\ pc' = [pc EXCEPT !["server"] = "close"]
  /\ UNCHANGED <<netVars, buf, text, printed, urgentVars>>

(***************************************************************************)
(* peek_recv.c.                                                            *)
(***************************************************************************)
Peek ==
  /\ pc["server"] = "peek"
  /\ \E n \in Pieces("server", Unit) :
       Goes("server", "read", Piece("server", n))
  /\ UNCHANGED <<stream, fin, closed, reset, text, printed, urgentVars>>

ReadAgain ==
  /\ pc["server"] = "read"
  /\ \E n \in Pieces("server", Unit) :
       Prints("server", Piece("server", n)) /\ stream' = Without("server", n)
  /\ pc' = [pc EXCEPT !["server"] = "close"]
  /\ UNCHANGED <<fin, closed, reset, buf, text, urgentVars>>

ReceiverCloses ==
  /\ Moves("server", "close", "end") /\ Closes("server")
  /\ UNCHANGED <<buf, text, printed, urgentVars>>

Sender == (\E k \in 1..4 : SendSegment(k)) \/ SenderCloses
Receiver ==
  \/ Registers \/ HandlerEnters \/ HandlerReads \/ Receives \/ ReceivesOnlyMark \/ ReceivesEof
  \/ Peek \/ ReadAgain \/ ReceiverCloses

UrgentNext == program \in UrgentPrograms /\ (Sender \/ Receiver) /\ Rigid

(***************************************************************************)
(* Properties.                                                             *)
(***************************************************************************)
\* Ordinary bytes are printed in order and none is left out; with timely sleeps
\* each urgent byte is heard once by the handler, and by nobody else.  Without
\* them an urgent byte may be missed, or printed as an ordinary one, and the
\* handler may find nothing, but a byte never comes twice to it.  What was
\* peeked at is there to be read again.
UrgentHeard == program \in UrgentPrograms =>
  LET told == printed["server"]
      Told == {told[k] : k \in DOMAIN told}
      Heard == {heard[k] : k \in DOMAIN heard} IN
  /\ Increasing(told)
  /\ \A j, k \in DOMAIN heard :
       j < k /\ NoMark \notin {heard[j], heard[k]} => heard[j] < heard[k]
  /\ Heard \subseteq UrgentBytes \cup {NoMark}
  /\ program = "oob" /\ pc["server"] = "end" =>
       /\ 1..(3 * Unit + 1) \ UrgentBytes \subseteq Told
       /\ timely => Heard = UrgentBytes /\ Told \cap UrgentBytes = {}
  /\ program = "peek" /\ pc["server"] = "end" =>
       told # <<>> /\ \A k \in 1..Min({Len(buf["server"]), Len(told)}) : told[k] = buf["server"][k]
===============================================================================
