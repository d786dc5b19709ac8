----------------------------- MODULE TransferPair -----------------------------
(***************************************************************************)
(* The servers that send one client a text and end their stream: "hello"   *)
(* and "tcp" (hello_server.c of chapter-01 and chapter-04, tcp_server.c    *)
(* with the clients hello_client.c, which reads once, and tcp_client.c,    *)
(* which reads byte by byte to the end), "file" (chapter-07), "sep" and    *)
(* "sep2" (sep_serv.c, sep_serv2.c and sep_clnt.c of chapter-16).  The     *)
(* clients of the last three thank for the text once they have it all.     *)
(***************************************************************************)
EXTENDS Connection

CONSTANTS
  MaxText,      \* bound: bytes of the text
  FileBuf       \* BUF_SIZE of chapter-07

ASSUME TransferAssumption == MaxText \in Nat /\ FileBuf \in Nat \ {0}

Thanks == <<"thank", "you">>
HalfClosing == {"file", "sep2"}
Thanking == HalfClosing \cup {"sep"}
TransferPrograms == Thanking \cup {"hello", "tcp"}

\* The file has any length; the texts of the others are not empty.  buf of the
\* server is what it has not sent yet.
TransferInit ==
  /\ program \in TransferPrograms /\ timely = TRUE
  /\ \E n \in (IF program = "file" THEN 0 ELSE 1)..MaxText : text = [k \in 1..n |-> k]
  /\ pc = [server |-> "send", client |-> "read"]
  /\ NoConnection
  /\ buf = [server |-> text, client |-> <<>>]
  /\ printed = [s \in Sides |-> <<>>]

\* What one write sends: the whole text, or what fread read of the file.
Chunk == IF program = "file" THEN Min({FileBuf, Len(buf["server"])}) ELSE Len(buf["server"])

\* Fault: a full buffer is taken for the end of the file.
ShortFile(n) == program = "file" => n <= FileBuf

\* The loop of file_server.c ends with the first buffer that is not full.
LastChunk(n) == program = "file" => n < FileBuf

SendText ==
  /\ pc["server"] = "send" /\ Writes("server", SubSeq(buf["server"], 1, Chunk))
  /\ buf' = [buf EXCEPT !["server"] = SubSeq(@, Chunk + 1, Len(@))]
  /\ pc' = [pc EXCEPT !["server"] = IF LastChunk(Chunk) THEN "sent" ELSE "send"]
  /\ UNCHANGED <<program, timely, text, printed>>

\* shutdown(clnt_sd, SHUT_WR).
Shuts == fin' = fin \cup {"server"} /\ UNCHANGED <<stream, closed, reset>>

\* Fault: sep_serv2.c without the shutdown, only fclose of the duplicate.
NoShutdown == IF program = "file" THEN Shuts ELSE UNCHANGED netVars

\* How the stream ends: shutdown, or the close of the only descriptor, which
\* fclose(writefp) is in sep_serv.c.
EndsStream == IF program \in HalfClosing THEN Shuts ELSE Closes("server")

EndStream ==
  /\ pc["server"] = "sent" /\ EndsStream
  /\ pc' = [pc EXCEPT !["server"] = IF program \in Thanking THEN "read" ELSE "end"]
  /\ UNCHANGED <<program, timely, buf, text, printed>>

\* read takes a piece, fgets the whole line, and nothing from a descriptor
\* that fclose has closed.
Heard(n) ==
  CASE program = "file" -> n \in Pieces("server", FileBuf)
    [] program = "sep2" -> n = Len(Thanks) /\ stream["server"] = Thanks
    [] OTHER -> n = 0

ReadThanks ==
  /\ pc["server"] = "read"
  /\ \E n \in 0..Len(Thanks) :
       /\ Heard(n) /\ printed' = [printed EXCEPT !["server"] = Piece("server", n)]
       /\ stream' = Without("server", n)
  /\ pc' = [pc EXCEPT !["server"] = "close"]
  /\ UNCHANGED <<program, timely, fin, closed, reset, buf, text>>

ServerCloses ==
  /\ pc["server"] = "close" /\ Closes("server") /\ pc' = [pc EXCEPT !["server"] = "end"]
  /\ UNCHANGED <<program, timely, buf, text, printed>>

\* hello_client: one read.
ReadOnce ==
  /\ program = "hello"
  /\ \E n \in Pieces("client", MaxText) :
       /\ printed' = [printed EXCEPT !["client"] = Piece("client", n)]
       /\ stream' = Without("client", n)
  /\ pc' = [pc EXCEPT !["client"] = "close"]
  /\ UNCHANGED <<fin, closed, reset, buf>>

\* tcp_client: read_len = read(sock, &message[idx++], 1).
ReadByte ==
  /\ program = "tcp" /\ stream["client"] # <<>>
  /\ buf' = [buf EXCEPT !["client"] = @ \o Piece("client", 1)]
  /\ stream' = Without("client", 1)
  /\ UNCHANGED <<pc, fin, closed, reset, printed>>

\* str_len, which it compares with -1 after a byte, has no initial value: any
\* comparison may be true, and end it.
ReadExit ==
  /\ program = "tcp" /\ stream["client"] # <<>>
  /\ stream' = Without("client", 1) /\ pc' = [pc EXCEPT !["client"] = "close"]
  /\ UNCHANGED <<fin, closed, reset, buf, printed>>

ReadAllOver ==
  /\ program = "tcp" /\ AtEof("client")
  /\ printed' = [printed EXCEPT !["client"] = buf["client"]]
  /\ pc' = [pc EXCEPT !["client"] = "close"]
  /\ UNCHANGED <<netVars, buf>>

\* file_client and sep_clnt copy what they read, up to the end of the stream.
Copy ==
  /\ program \in Thanking
  /\ \E n \in Pieces("client", MaxText) :
       /\ printed' = [printed EXCEPT !["client"] = @ \o Piece("client", n)]
       /\ stream' = Without("client", n)
  /\ UNCHANGED <<pc, fin, closed, reset, buf>>

CopyEnds ==
  /\ program \in Thanking /\ AtEof("client")
  /\ pc' = [pc EXCEPT !["client"] = "thank"]
  /\ UNCHANGED <<netVars, buf, printed>>

ClientReadsText ==
  /\ pc["client"] = "read"
  /\ ReadOnce \/ ReadByte \/ ReadExit \/ ReadAllOver \/ Copy \/ CopyEnds
  /\ UNCHANGED <<program, timely, text>>

Thank ==
  /\ pc["client"] = "thank" /\ Writes("client", Thanks)
  /\ pc' = [pc EXCEPT !["client"] = "close"]
  /\ UNCHANGED <<program, timely, buf, text, printed>>

ClientCloses ==
  /\ pc["client"] = "close" /\ Closes("client") /\ pc' = [pc EXCEPT !["client"] = "end"]
  /\ UNCHANGED <<program, timely, buf, text, printed>>

TransferServer == SendText \/ EndStream \/ ReadThanks \/ ServerCloses
TransferClient == ClientReadsText \/ Thank \/ ClientCloses

TransferNext ==
  /\ program \in TransferPrograms
  /\ TransferServer \/ TransferClient

(***************************************************************************)
(* Properties.                                                             *)
(***************************************************************************)
\* Reading to the end of the stream gives the client the whole text, and the
\* server that has closed its half only still hears the client's last words:
\* all of them with fgets, the beginning with read, nothing after an fclose of
\* the only descriptor.
BothHeard == program \in TransferPrograms =>
  /\ pc["client"] = "end" =>
       CASE program \in Thanking -> printed["client"] = text
         [] program = "tcp" -> printed["client"] \in {text, <<>>}
         [] OTHER -> printed["client"] # <<>>
  /\ pc["server"] = "end" =>
       CASE program = "sep2" -> printed["server"] = Thanks
         [] program = "file" -> printed["server"] # <<>>
         [] OTHER -> printed["server"] = <<>>
===============================================================================
