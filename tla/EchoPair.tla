------------------------------- MODULE EchoPair -------------------------------
(***************************************************************************)
(* The echo servers that serve one client after the other, with their      *)
(* clients: "read" is chapter-04 (echo_server.c, echo_client.c), "reuse"   *)
(* chapter-09/reuseadr_eserver.c, which serves one client, with the client *)
(* of chapter-04, and "stdio" chapter-15 (echo_stdserv.c,                  *)
(* echo_stdclient.c), which reads lines with fgets from a FILE.  A client  *)
(* connects when the server accepts it, types lines, and leaves or is      *)
(* interrupted.                                                            *)
(***************************************************************************)
EXTENDS Connection

CONSTANTS
  Chars,        \* characters other than newline
  BUF_SIZE,     \* 1024 in the sources, 30 in reuseadr_eserver.c
  Rounds,       \* 5 in the sources
  MaxLines      \* bound: lines a client types

ASSUME EchoAssumption == BUF_SIZE \in Nat \ {0, 1} /\ Rounds \in Nat /\ MaxLines \in Nat

VARIABLES
  file,         \* per side: bytes in the buffer of its reading FILE
  round,        \* server: clients accepted
  lines         \* lines the client has typed

echoVars == <<file, round, lines>>

Newline == "newline"
EchoPrograms == {"read", "reuse", "stdio"}

\* What fgets(message, BUF_SIZE, stdin) can give: a line, or the first
\* BUF_SIZE - 1 characters of a longer one.
Typed ==
  { m \in UNION { [1..n -> Chars \cup {Newline}] : n \in 1..(BUF_SIZE - 1) } :
      /\ \A k \in 1..(Len(m) - 1) : m[k] # Newline
      /\ m[Len(m)] = Newline \/ Len(m) = BUF_SIZE - 1 }

\* fgets on a FILE has enough for a line: where the line ends.
LineEnd(f) ==
  { k \in 1..Min({Len(f), BUF_SIZE - 1}) :
      /\ f[k] = Newline \/ k = BUF_SIZE - 1
      /\ \A j \in 1..(k - 1) : f[j] # Newline }

\* Before the first read the server's buffer holds what the stack held.
EchoInit ==
  /\ program \in EchoPrograms /\ timely = TRUE
  /\ pc = [server |-> "accept", client |-> "none"]
  /\ NoConnection
  /\ \E c \in Chars : buf \in {[s \in Sides |-> <<>>], [server |-> <<c>>, client |-> <<>>]}
  /\ text = <<>> /\ printed = [s \in Sides |-> <<>>]
  /\ file = [s \in Sides |-> <<>>] /\ round = 0 /\ lines = 0

Last == IF program = "reuse" THEN 1 ELSE Rounds

\* accept: the connection is new, and so are the FILEs of fdopen.
Accept ==
  /\ pc["server"] = "accept" /\ round < Last
  /\ pc' = [server |-> "read", client |-> "prompt"]
  /\ stream' = [s \in Sides |-> <<>>] /\ fin' = {} /\ closed' = {} /\ reset' = "no"
  /\ text' = <<>> /\ printed' = [s \in Sides |-> <<>>]
  /\ file' = [s \in Sides |-> <<>>] /\ round' = round + 1 /\ lines' = 0
  /\ UNCHANGED <<program, timely, buf>>

\* The loop is over: close(serv_sock).
ServerEnds ==
  /\ pc["server"] = "accept" /\ round = Last
  /\ pc' = [pc EXCEPT !["server"] = "end"]
  /\ UNCHANGED <<program, timely, netVars, buf, text, printed, echoVars>>

\* read(clnt_sock, message, BUF_SIZE) returns n bytes.
ReadsBytes(n) ==
  /\ n \in Pieces("server", BUF_SIZE)
  /\ stream' = Without("server", n) /\ Goes("server", "write", Piece("server", n))
  /\ UNCHANGED <<fin, closed, reset, file>>

\* Its errors are not noticed: the write of -1 bytes that follows fails too.
ReadsError ==
  /\ AtError("server") /\ reset' = "told"
  /\ UNCHANGED <<pc, stream, fin, closed, buf, file>>

\* It returns 0: close(clnt_sock).
ReadsEof ==
  /\ AtEof("server") /\ Goes("server", "accept", buf["server"]) /\ Closes("server")
  /\ UNCHANGED file

ReadServer == (\E n \in 1..BUF_SIZE : ReadsBytes(n)) \/ ReadsError \/ ReadsEof

\* fgets on a socket: what read brings goes to the buffer of the FILE first.
Fills(s) ==
  /\ LineEnd(file[s]) = {}
  /\ \E n \in Pieces(s, Len(stream[s])) :
       stream' = Without(s, n) /\ file' = [file EXCEPT ![s] = @ \o Piece(s, n)]
  /\ UNCHANGED <<pc, buf, fin, closed, reset>>

Gets(s, to) ==
  \E k \in LineEnd(file[s]) :
    /\ Goes(s, to, SubSeq(file[s], 1, k))
    /\ file' = [file EXCEPT ![s] = SubSeq(@, k + 1, Len(@))]
    /\ UNCHANGED netVars

\* It returns NULL and leaves message alone; nobody looks at the result, and
\* message is written once more.  Only at the end of the stream does feof end
\* the loop after that ("last").
GetsNull(s, to) ==
  /\ LineEnd(file[s]) = {} /\ (AtEof(s) \/ AtError(s))
  /\ reset' = IF AtError(s) THEN "told" ELSE reset
  /\ Goes(s, to, buf[s])
  /\ UNCHANGED <<stream, fin, closed, file>>

\* Fault: feof is asked before fgets, so a second pass follows the end.
StdServerLate ==
  \/ Fills("server") \/ Gets("server", "write") \/ GetsNull("server", "write")

StdServer ==
  \/ Fills("server") \/ Gets("server", "write")
  \/ GetsNull("server", IF AtEof("server") THEN "last" ELSE "write")

\* write(clnt_sock, message, str_len), or fputs and fflush.
WritesBack(bytes) ==
  /\ pc["server"] \in {"write", "last"} /\ ~Sigpipe(buf["server"])
  /\ Writes("server", bytes)
  /\ pc' = [pc EXCEPT !["server"] = IF @ = "last" THEN "close" ELSE "read"]
  /\ UNCHANGED <<buf, file>>

\* Fault: a string is written, without the newline.
DropNewline == WritesBack(SelectSeq(buf["server"], LAMBDA b : b # Newline))

WriteBack == WritesBack(buf["server"])

\* SIGPIPE ends the server.
Dies ==
  /\ pc["server"] \in {"write", "last"} /\ Sigpipe(buf["server"])
  /\ pc' = [pc EXCEPT !["server"] = "dead"]
  /\ UNCHANGED <<netVars, buf, file>>

\* The close after the loop of the stdio server.
StdClose ==
  /\ pc["server"] = "close" /\ Goes("server", "accept", buf["server"]) /\ Closes("server")
  /\ UNCHANGED file

ServerStep ==
  /\ \/ pc["server"] = "read" /\ IF program = "stdio" THEN StdServer ELSE ReadServer
     \/ WriteBack \/ Dies \/ StdClose
  /\ UNCHANGED <<program, timely, text, printed, round, lines>>

\* fgets from the terminal, and write, or fputs and fflush.
Type ==
  /\ pc["client"] = "prompt" /\ lines < MaxLines
  /\ \E m \in Typed :
       /\ Writes("client", m) /\ text' = text \o m
       /\ Goes("client", "read", m)
  /\ lines' = lines + 1
  /\ UNCHANGED <<program, timely, printed, file, round>>

\* read(sock, message, BUF_SIZE - 1) takes one piece, fgets a whole line.
ClientReads ==
  IF program = "stdio" THEN Fills("client") \/ Gets("client", "print")
  ELSE \E n \in Pieces("client", BUF_SIZE - 1) :
         /\ Goes("client", "print", Piece("client", n))
         /\ stream' = Without("client", n) /\ UNCHANGED <<fin, closed, reset, file>>

Read == pc["client"] = "read" /\ ClientReads /\ UNCHANGED <<program, timely, text, printed, round, lines>>

Show ==
  /\ pc["client"] = "print" /\ Goes("client", "prompt", <<>>)
  /\ printed' = [printed EXCEPT !["client"] = @ \o buf["client"]]
  /\ UNCHANGED <<program, timely, netVars, text, echoVars>>

Gone ==
  /\ pc' = [pc EXCEPT !["client"] = "gone"] /\ Closes("client")
  /\ UNCHANGED <<program, timely, buf, text, printed, echoVars>>

\* q: close(sock).
Quit == pc["client"] = "prompt" /\ Gone
\* The user interrupts it while it waits.
Interrupted == pc["client"] = "read" /\ Gone

EchoNext ==
  /\ program \in EchoPrograms
  /\ \/ Accept \/ ServerEnds \/ ServerStep \/ Type \/ Read \/ Show \/ Quit \/ Interrupted
     \/ RstArrives /\ UNCHANGED echoVars

(***************************************************************************)
(* Properties.                                                             *)
(***************************************************************************)
Connected == pc["client"] \in {"prompt", "read", "print"}
UnderWay ==
  (IF pc["client"] = "print" THEN buf["client"] ELSE <<>>) \o file["client"] \o stream["client"]
  \o (IF pc["server"] = "write" THEN buf["server"] ELSE <<>>) \o file["server"] \o stream["server"]

\* While a client is connected nothing it typed is lost, added or reordered:
\* it has been printed, or is somewhere on its way, in that order.  The client
\* that reads lines has shown each answer before its next prompt; the one that
\* reads bytes may have shown a part of it.
Conserved ==
  program \in EchoPrograms /\ Connected =>
    /\ text = printed["client"] \o UnderWay
    /\ program = "stdio" /\ pc["client"] = "prompt" => UnderWay = <<>>

\* SIGPIPE ends the server only after a client that left without its whole
\* echo, never after one that waited for it.
OutlivesPatientClients ==
  program \in EchoPrograms /\ pc["server"] = "dead" => printed["client"] # text
===============================================================================
