------------------------------ MODULE Connection ------------------------------
(***************************************************************************)
(* The TCP connection between one server and one client program, as the    *)
(* pairs of programs of EchoPair and TransferPair use it: reads return any *)
(* piece of what has been sent, the end of the stream follows the last     *)
(* byte, close with unread input sends an RST instead, and so does a write *)
(* to a side that has closed.                                              *)
(***************************************************************************)
EXTENDS Program

Sides == {"server", "client"}
Peer(s) == IF s = "server" THEN "client" ELSE "server"

VARIABLES
  stream,       \* per side: bytes on their way to it or in its receive queue
  fin,          \* sides whose stream has ended: shut down, or closed normally
  closed,       \* sides that have closed their socket
  reset         \* server: an RST for it is "no", "coming", "here" or "told"

netVars == <<stream, fin, closed, reset>>
NoConnection == stream = [s \in Sides |-> <<>>] /\ fin = {} /\ closed = {} /\ reset = "no"

\* A read takes at most that many bytes, and any piece of what is there.
Piece(s, n) == SubSeq(stream[s], 1, n)
Pieces(s, most) == 1..Min({most, Len(stream[s])})
Without(s, n) == [stream EXCEPT ![s] = SubSeq(@, n + 1, Len(@))]

\* read returns 0: all bytes are read, and the peer's stream has ended or the
\* error of a reset was reported before.
AtEof(s) == stream[s] = <<>> /\ (Peer(s) \in fin \/ (s = "server" /\ reset = "told"))
\* read returns -1: the connection was reset without an end of the stream.
AtError(s) == stream[s] = <<>> /\ s = "server" /\ reset = "here" /\ Peer(s) \notin fin

\* write(s, bytes) that raises no signal.  What a closed peer is sent is lost,
\* and an RST comes back.
Writes(s, bytes) ==
  IF bytes = <<>> THEN UNCHANGED netVars
  ELSE IF Peer(s) \notin closed
  THEN stream' = [stream EXCEPT ![Peer(s)] = @ \o bytes] /\ UNCHANGED <<fin, closed, reset>>
  ELSE /\ reset' = CASE s = "server" /\ reset = "no" -> "coming"
                     [] s = "server" /\ reset = "here" -> "told"
                     [] OTHER -> reset
       /\ UNCHANGED <<stream, fin, closed>>

\* The server's write raises SIGPIPE: the reset is known, or was preceded by
\* the end of the stream.
Sigpipe(bytes) ==
  bytes # <<>> /\ (reset = "told" \/ (reset = "here" /\ "client" \in fin))

\* close, or the end of the process.
Closes(s) ==
  /\ closed' = closed \cup {s}
  /\ IF stream[s] = <<>>
     THEN fin' = fin \cup {s} /\ UNCHANGED reset
     ELSE UNCHANGED fin /\ reset' = IF s = "client" /\ reset = "no" THEN "coming" ELSE reset
  /\ stream' = [stream EXCEPT ![s] = <<>>]

\* kernel: the RST reaches the server.
RstArrives ==
  /\ reset = "coming" /\ reset' = "here"
  /\ UNCHANGED <<progVars, stream, fin, closed>>
===============================================================================
