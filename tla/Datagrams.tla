------------------------------ MODULE Datagrams ------------------------------
(***************************************************************************)
(* The UDP programs: "uecho" of chapter-06 (uecho_server.c, with two       *)
(* clients that run uecho_client.c or uecho_con_client.c), "bound"         *)
(* (bound_host1.c, which receives, and bound_host2.c) and "news" of        *)
(* chapter-14 (news_sender.c or news_sender_brd.c, and two receivers that  *)
(* may start late).  The network may lose, copy and reorder datagrams.     *)
(***************************************************************************)
EXTENDS Program, Bags

CONSTANTS
  MaxMsgs,      \* bound: messages a client of uecho types, and lines of news
  MaxFaults     \* bound: datagrams lost, and datagrams copied

ASSUME DatagramAssumption == MaxMsgs \in Nat /\ MaxFaults \in Nat

VARIABLES
  net,          \* bag of the datagrams under way or in a receiver's queue
  lost, copied  \* faults of the network so far

netFaults == <<net, lost, copied>>

DatagramPrograms == {"uecho", "bound", "news"}
Pals == {"one", "two"}      \* clients of uecho, receivers of the news
NoDatagrams == net = EmptyBag /\ lost = 0 /\ copied = 0

\* A message is its sender and number; what a buffer holds before that, 0.
Garbage == <<"news", 0>>
\* text of the news: how often fgets finds something in the file, a line or the
\* BUF_SIZE - 1 characters that fit its buffer, and what stops it the last time:
\* a newline, as a file usually ends, the size of the buffer, or the end of the
\* file.  text of the others: what was sent.
Stops == {"newline", "full", "end"}
DatagramInit ==
  /\ program \in DatagramPrograms /\ timely = TRUE /\ NoDatagrams
  /\ text \in IF program # "news" THEN {<<>>}
              ELSE {t \in (0..MaxMsgs) \X Stops : t[1] = 0 => t[2] = "end"}
  /\ pc = CASE program = "uecho" -> [server |-> "recv", one |-> "prompt", two |-> "prompt"]
            [] program = "bound" -> [host1 |-> "recv", host2 |-> "send"]
            [] OTHER -> [sender |-> "send", one |-> "off", two |-> "off"]
  /\ buf = [h \in DOMAIN pc |-> <<>>] /\ printed = buf

(***************************************************************************)
(* The network.                                                            *)
(***************************************************************************)
Datagram(from, to, msg) == [from |-> from, to |-> to, msg |-> msg]
Sends(ds) == net' = net (+) SetToBag(ds) /\ UNCHANGED <<lost, copied>>

Loses(d) == lost < MaxFaults /\ net' = net (-) SetToBag({d}) /\ lost' = lost + 1 /\ UNCHANGED copied
Copies(d) == copied < MaxFaults /\ net' = net (+) SetToBag({d}) /\ copied' = copied + 1 /\ UNCHANGED lost
Network ==
  (\E d \in BagToSet(net) : Loses(d) \/ Copies(d)) /\ UNCHANGED <<pc, buf, text, printed>>

\* recvfrom: one datagram, whole.
RecvFrom(h, d) == d \in BagToSet(net) /\ d.to = h /\ net' = net (-) SetToBag({d}) /\ UNCHANGED <<lost, copied>>

(***************************************************************************)
(* uecho: one socket, so the answer goes where the message came from.      *)
(***************************************************************************)
\* Fault: the address of the first client is kept.
FirstAdr(d) == IF buf["server"] = <<>> THEN d.from ELSE buf["server"].clnt_adr
Adr(d) == d.from

EchoRecv(d) ==
  /\ pc["server"] = "recv" /\ RecvFrom("server", d)
  /\ Goes("server", "send", [message |-> d.msg, clnt_adr |-> Adr(d)])
  /\ UNCHANGED <<text, printed>>

EchoSend ==
  /\ Moves("server", "send", "recv")
  /\ Sends({Datagram("server", buf["server"].clnt_adr, buf["server"].message)})
  /\ UNCHANGED <<buf, text, printed>>

Count(c) == Cardinality({k \in DOMAIN text : text[k][1] = c})
ClientSends(c) ==
  /\ Count(c) < MaxMsgs /\ Moves(c, "prompt", "recv")
  /\ LET m == <<c, Count(c) + 1>> IN
       Sends({Datagram(c, "server", m)}) /\ text' = Append(text, m)
  /\ UNCHANGED <<buf, printed>>

ClientRecv(c, d) ==
  /\ Moves(c, "recv", "prompt") /\ RecvFrom(c, d) /\ Prints(c, <<d.msg>>)
  /\ UNCHANGED <<buf, text>>

ClientQuits(c) == Moves(c, "prompt", "end") /\ UNCHANGED <<netFaults, buf, text, printed>>

UechoServer == EchoSend \/ \E d \in BagToSet(net) : EchoRecv(d)
UechoClient(c) ==
  ClientSends(c) \/ ClientQuits(c) \/ \E d \in BagToSet(net) : ClientRecv(c, d)

(***************************************************************************)
(* bound: three sendto and three recvfrom, which sleep(5) lets pile up.    *)
(***************************************************************************)
HostSends ==
  /\ Moves("host2", "send", IF Len(text) = 2 THEN "end" ELSE "send")
  /\ LET m == <<"host2", Len(text) + 1>> IN
       Sends({Datagram("host2", "host1", m)}) /\ text' = Append(text, m)
  /\ UNCHANGED <<buf, printed>>

HostRecv(d) ==
  /\ Moves("host1", "recv", IF Len(printed["host1"]) = 2 THEN "end" ELSE "recv")
  /\ RecvFrom("host1", d) /\ Prints("host1", <<d.msg>>)
  /\ UNCHANGED <<buf, text>>

(***************************************************************************)
(* news: while(!feof(fp)) { fgets; sendto; sleep(2); }                     *)
(***************************************************************************)
\* A receiver starts: bind, and IP_ADD_MEMBERSHIP with multicast.
Joins(r) == Moves(r, "off", "recv") /\ UNCHANGED <<netFaults, buf, text, printed>>

\* feof is true once fgets has met the end: with the last line, or after it.
Feof(k) == IF text[2] = "end" THEN k >= text[1] ELSE k > text[1]

\* fgets at the end leaves buf alone, and what it holds is sent once more.
SendsLine ==
  LET k == IF buf["sender"] = <<>> THEN 1 ELSE buf["sender"][2] + 1 IN
  /\ buf' = [buf EXCEPT !["sender"] = IF k <= text[1] THEN <<"news", k>>
                                      ELSE IF @ = <<>> THEN Garbage ELSE @]
  /\ Sends({Datagram("sender", r, buf'["sender"]) : r \in {p \in Pals : pc[p] = "recv"}})
  /\ Moves("sender", "send", IF Feof(k) THEN "end" ELSE "send")
  /\ UNCHANGED <<text, printed>>

HearsLine(r, d) ==
  /\ pc[r] = "recv" /\ RecvFrom(r, d) /\ Prints(r, <<d.msg>>) /\ UNCHANGED <<pc, buf, text>>

DatagramStep ==
  CASE program = "uecho" -> UechoServer \/ \E c \in Pals : UechoClient(c)
    [] program = "bound" -> HostSends \/ \E d \in BagToSet(net) : HostRecv(d)
    [] OTHER -> SendsLine \/ \E r \in Pals : Joins(r) \/ \E d \in BagToSet(net) : HearsLine(r, d)

DatagramNext == program \in DatagramPrograms /\ (Network \/ DatagramStep) /\ Rigid

(***************************************************************************)
(* Properties.                                                             *)
(***************************************************************************)
\* How often h has printed m.
Times(h, m) == Cardinality({k \in DOMAIN printed[h] : printed[h][k] = m})
Shown(h) == {printed[h][k] : k \in DOMAIN printed[h]}

\* Nobody prints a message more often than it was sent and copied; a client of
\* uecho prints its own messages only, none before it was sent, and until the
\* network copies something each answer is that to the message just sent, for
\* a lost one leaves it waiting.  The news repeat only the last line, and only
\* one that fgets did not end because of the end of the file.
AnswersBelong == program \in DatagramPrograms =>
  \A h \in DOMAIN printed :
    /\ program = "uecho" /\ h \in Pals =>
         /\ \A k \in DOMAIN printed[h] : printed[h][k] \in {<<h, j>> : j \in 1..k}
         /\ copied = 0 => printed[h] = [k \in DOMAIN printed[h] |-> <<h, k>>]
    /\ program = "bound" => Shown(h) \subseteq {<<"host2", k>> : k \in 1..3}
    /\ program = "news" =>
         Shown(h) \subseteq {<<"news", k>> : k \in 1..text[1]}
                               \cup (IF text[1] = 0 THEN {Garbage} ELSE {})
    /\ \A m \in Shown(h) :
         Times(h, m) <= 1 + copied + (IF program = "news" /\ text[1] = m[2] /\ text[2] # "end" THEN 1 ELSE 0)
===============================================================================
