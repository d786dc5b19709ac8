----------------------------- MODULE Calculator -----------------------------
(***************************************************************************)
(* chapter-05/op_server.c and op_client.c: the client sends an expression, *)
(* the server its value.  A message is two characters with its length and  *)
(* then its text, written by mywrite in two writes and read by myread in   *)
(* as many reads as TCP cares to cut it into.  Characters are ASCII codes. *)
(***************************************************************************)
EXTENDS Integers, Sequences, FiniteSetsExt, Arithmetic

CONSTANTS
  Expressions,   \* what the user may type
  IntBits        \* width of an int, 32 in the source

ASSUME CalcAssumption ==
  /\ \A e \in Expressions : e \in Seq(0..127) /\ Len(e) <= 104   \* rd_result[105]
  /\ IntBits \in Nat \ {0}

Zero == 48
Plus == 43
Minus == 45
Sides == {"client", "server"}
Other(s) == IF s = "client" THEN "server" ELSE "client"

VARIABLES
  expr,     \* what the user typed
  pc,       \* per side: "write1", "write2", "head", "body", "end" or "dead"
  rd,       \* per side: the string in rd_result
  part,     \* per side: what the current loop of myread has read
  len,      \* per side: how much it has to read
  chan      \* per side: bytes on their way to it

vars == <<expr, pc, rd, part, len, chan>>

(***************************************************************************)
(* cal: one pass over the characters.  An int wraps around.                *)
(***************************************************************************)
Half == Power(2, IntBits - 1)
Ints == (-Half)..(Half - 1)
Wrap(x) == ((x + Half) % (2 * Half)) - Half

Applied(st) == Wrap(IF st.la = 1 THEN st.ans + st.now ELSE st.ans - st.now)

\* Fault: the number read so far is not reset at an operator.
OperatorKeepsNow(st, ch) == [ans |-> Applied(st), now |-> st.now, la |-> IF ch = Plus THEN 1 ELSE 0]

Operator(st, ch) == [ans |-> Applied(st), now |-> 0, la |-> IF ch = Plus THEN 1 ELSE 0]
Digit(st, ch) == [st EXCEPT !.now = Wrap(Wrap(@ * 10) + ch - Zero)]

Char(st, ch) == IF ch \in {Plus, Minus} THEN Operator(st, ch) ELSE Digit(st, ch)
Cal(s) ==
  LET state[k \in 0..Len(s)] ==
        IF k = 0 THEN [ans |-> 0, now |-> 0, la |-> 1] ELSE Char(state[k - 1], s[k])
  IN IF s = <<>> THEN 0 ELSE Applied(state[Len(s)])

\* sprintf(wtf, "%d", ans)
Magnitude(n) ==
  LET k == CHOOSE k \in 1..IntBits :
             n < Power(10, k) /\ \A j \in 1..(k - 1) : n >= Power(10, j)
  IN [i \in 1..k |-> Zero + ((n \div Power(10, k - i)) % 10)]
Decimal(n) == IF n < 0 THEN <<Minus>> \o Magnitude(-n) ELSE Magnitude(n)

(***************************************************************************)
(* mywrite and myread.                                                     *)
(***************************************************************************)
\* Fault: the digits of the length are swapped.
HeaderSwapped(n) == <<Zero + (n % 10), Zero + (n \div 10)>>

Header(n) == <<Zero + (n \div 10), Zero + (n % 10)>>
Length(h) == (h[1] - Zero) * 10 + (h[2] - Zero)

Init ==
  /\ expr \in Expressions
  /\ pc = [s \in Sides |-> IF s = "client" THEN "write1" ELSE "head"]
  /\ rd = [s \in Sides |-> IF s = "client" THEN expr ELSE <<>>]
  /\ part = [s \in Sides |-> <<>>] /\ len = [s \in Sides |-> 2]
  /\ chan = [s \in Sides |-> <<>>]

Write(s, from, text, to) ==
  /\ pc[s] = from /\ pc' = [pc EXCEPT ![s] = to]
  /\ chan' = [chan EXCEPT ![Other(s)] = @ \o text]
  /\ UNCHANGED <<expr, rd, part, len>>

WriteLength(s) == Write(s, "write1", Header(Len(rd[s])), "write2")
WriteText(s) == Write(s, "write2", rd[s], IF s = "client" THEN "head" ELSE "end")

\* Fault: one read is taken for the whole text.
EndsAfterOneRead(s, n) == TRUE

LoopEnds(s, n) == Len(part[s]) + n = len[s]

\* What the client prints and the server computes from.
Finish(s, text) ==
  IF s = "client" THEN rd' = [rd EXCEPT ![s] = text] /\ pc' = [pc EXCEPT ![s] = "end"]
  ELSE /\ rd' = [rd EXCEPT ![s] = Decimal(Cal(text))]
       /\ pc' = [pc EXCEPT ![s] = "write1"]

\* The loop goes on to the text, or is over when that is empty.
AfterHeader(s, header) ==
  /\ len' = [len EXCEPT ![s] = Length(header)]
  /\ part' = [part EXCEPT ![s] = <<>>]
  /\ IF Length(header) = 0 THEN Finish(s, <<>>)
     ELSE pc' = [pc EXCEPT ![s] = "body"] /\ rd' = rd

Asked(s) == len[s] - Len(part[s])

Read(s) ==
  /\ pc[s] \in {"head", "body"}
  /\ \E n \in 1..Len(chan[s]) :
       LET read == part[s] \o SubSeq(chan[s], 1, n) IN
         /\ n <= Asked(s)
         /\ chan' = [chan EXCEPT ![s] = SubSeq(@, n + 1, Len(@))]
         /\ CASE pc[s] = "head" /\ Len(read) >= 2 -> AfterHeader(s, read)
              [] pc[s] = "body" /\ LoopEnds(s, n) ->
                   Finish(s, read) /\ UNCHANGED <<part, len>>
              [] OTHER -> part' = [part EXCEPT ![s] = read] /\ UNCHANGED <<pc, rd, len>>
  /\ UNCHANGED expr

\* At the end of the stream read returns 0 and myread asks again, forever: no
\* step.  The client may be interrupted, and the server then killed by SIGPIPE.
ClientDies ==
  /\ pc["client"] # "end"
  /\ pc' = [pc EXCEPT !["client"] = "dead"]
  /\ UNCHANGED <<expr, rd, part, len, chan>>

ServerSigpipe ==
  /\ pc["client"] = "dead" /\ pc["server"] = "write2"
  /\ pc' = [pc EXCEPT !["server"] = "dead"]
  /\ UNCHANGED <<expr, rd, part, len, chan>>

Step(s) == pc[s] # "dead" /\ (WriteLength(s) \/ WriteText(s) \/ Read(s))
Next == (\E s \in Sides : Step(s)) \/ ClientDies \/ ServerSigpipe

Spec == Init /\ [][Next]_vars

\* Both programs run, and TCP brings what was written.
FairSpec == Spec /\ \A s \in Sides : WF_vars(Step(s))

(***************************************************************************)
(* Properties.                                                             *)
(***************************************************************************)
\* The value of an expression: each digit counts with the power of ten of its
\* place in its number and the sign of the operator before that number.
Operators(e) == {i \in 1..Len(e) : e[i] \in {Plus, Minus}}
Digits(e) == (1..Len(e)) \ Operators(e)
Sign(e, i) ==
  LET before == {j \in Operators(e) : j < i} IN
    IF before # {} /\ e[Max(before)] = Minus THEN -1 ELSE 1
Place(e, i) == Power(10, Min({j \in Operators(e) : j > i} \cup {Len(e) + 1}) - i - 1)
Value(e) == SumOver([i \in Digits(e) |-> Sign(e, i) * (e[i] - Zero) * Place(e, i)], Digits(e))

InRange(e) == \A i \in 1..Len(e) : Value(SubSeq(e, 1, i)) \in Ints

\* The client prints the value of what was typed, wherever TCP cuts the two
\* messages, unless the value or a partial sum does not fit an int.
ResultRight ==
  pc["client"] = "end" /\ InRange(expr) => rd["client"] = Decimal(Value(expr))

\* myread stops exactly at the end of a message: when both programs have ended
\* nothing is left over in either direction.
NothingLeft ==
  pc["client"] = "end" /\ pc["server"] = "end" =>
    \A s \in Sides : chan[s] = <<>>

\* A client that is not interrupted gets its result.
Answered == <>(pc["client"] \in {"end", "dead"})

\* The server ends after its one client, also one that was interrupted while it
\* waited for the result.  Only one interrupted in the middle of its own message
\* leaves it in myread, with nothing more to read.
Starved == pc["server"] \in {"head", "body"} /\ pc["client"] = "dead" /\ chan["server"] = <<>>
ServerEnds == <>(pc["server"] \in {"end", "dead"} \/ Starved)
=============================================================================
