--------------------------- MODULE CalculatorProof ---------------------------
(***************************************************************************)
(* Theorems about Calculator: mywrite and myread keep the two messages     *)
(* apart, wherever TCP cuts them.                                          *)
(***************************************************************************)
EXTENDS Calculator, ArithmeticProof, SequenceTheorems, TLAPS

Result == Decimal(Cal(expr))

\* What s has yet to write of its message, and all its peer has yet to read.
Unsent(s) == CASE pc[s] = "write1" -> Header(Len(rd[s])) \o rd[s]
               [] pc[s] = "write2" -> rd[s]
               [] OTHER -> <<>>
Rest(s) == chan[s] \o Unsent(Other(s))

\* s reads, or is going to read, m after its length: what it has read in the
\* current loop of myread and what is left to read make up the message.
Reads(s, m) ==
  IF pc[s] = "body" THEN part[s] \o Rest(s) = m /\ len[s] = Len(m) /\ Len(part[s]) < Len(m)
  ELSE part[s] \o Rest(s) = Header(Len(m)) \o m /\ len[s] = 2 /\ Len(part[s]) < 2

Types ==
  /\ expr \in Expressions
  /\ DOMAIN pc = Sides /\ DOMAIN rd = Sides /\ DOMAIN part = Sides
  /\ DOMAIN len = Sides /\ DOMAIN chan = Sides
  /\ \A s \in Sides : rd[s] \in Seq(Int) /\ part[s] \in Seq(Int) /\ chan[s] \in Seq(Int)

\* The server reads, and the client does not yet; an empty expression the
\* server may have read before the client has written it.
Asking ==
  /\ pc["client"] \in {"write1", "write2", "head"}
  /\ pc["client"] # "head" => rd["client"] = expr
  /\ chan["client"] = <<>> /\ part["client"] = <<>> /\ len["client"] = 2
  /\ Reads("server", expr)

Answering ==
  /\ pc["client"] \in {"write2", "head", "body", "end"}
  /\ pc["client"] = "write2" => rd["client"] = <<>>
  /\ chan["server"] = <<>> /\ rd["server"] = Result
  /\ IF pc["client"] = "end" THEN Rest("client") = <<>> /\ rd["client"] = Result
     ELSE Reads("client", Result)

\* Nothing is said once the client has been interrupted.
FrameInv == DOMAIN pc = Sides /\ (pc["client"] # "dead" =>
  /\ Types
  /\ \/ pc["server"] \in {"head", "body"} /\ Asking
     \/ pc["server"] \in {"write1", "write2", "end"} /\ Answering)

(***************************************************************************)
(* Sequences, and the two digits of the length.                            *)
(***************************************************************************)
LEMMA CharsAreInts == ASSUME NEW t \in Seq(0..127) PROVE t \in Seq(Int)
<1>1. 0..127 \subseteq Int
  OBVIOUS
<1> QED
  BY <1>1, SeqMonotonic

LEMMA Assoc ==
  ASSUME NEW s \in Seq(Int), NEW t \in Seq(Int), NEW u \in Seq(Int)
  PROVE  (s \o t) \o u = s \o (t \o u)
OBVIOUS

Texts(p, f, d, u) == \A s \in {p, f, d, u} : s \in Seq(Int)

LEMMA Regrouped ==
  ASSUME NEW p, NEW f, NEW d, NEW u, Texts(p, f, d, u)
  PROVE  (p \o f) \o (d \o u) = p \o ((f \o d) \o u)
<1>1. p \in Seq(Int) /\ f \in Seq(Int) /\ d \in Seq(Int) /\ u \in Seq(Int)
  BY DEF Texts
<1>2. PICK x \in Seq(Int) : x = d \o u
  BY <1>1, ConcatProperties
<1>3. (p \o f) \o x = p \o (f \o x)
  BY <1>1, Assoc, SMTT(30)
<1>4. (f \o d) \o u = f \o (d \o u)
  BY <1>1, Assoc, SMTT(30)
<1> QED
  BY <1>2, <1>3, <1>4

LEMMA Cancel ==
  ASSUME NEW a \in Seq(Int), NEW b \in Seq(Int), NEW x \in Seq(Int), NEW y \in Seq(Int),
         a \o b = x \o y, Len(a) = Len(x)
  PROVE  a = x /\ b = y
<1>1. Len(a) \in Nat /\ Len(b) \in Nat /\ Len(y) \in Nat
  BY LenProperties
<1>2. /\ \A i \in 1..(Len(a) + Len(b)) : (a \o b)[i] = IF i <= Len(a) THEN a[i] ELSE b[i - Len(a)]
      /\ \A i \in 1..(Len(x) + Len(y)) : (x \o y)[i] = IF i <= Len(x) THEN x[i] ELSE y[i - Len(x)]
  BY ConcatProperties
<1>3. ASSUME NEW i \in 1..Len(a) PROVE a[i] = x[i]
  <2>1. i \in 1..(Len(a) + Len(b)) /\ i \in 1..(Len(x) + Len(y)) /\ i <= Len(a) /\ i <= Len(x)
    BY <1>1
  <2>2. (a \o b)[i] = a[i]
    BY <1>2, <2>1
  <2>3. (x \o y)[i] = x[i]
    BY <1>2, <2>1
  <2> QED
    BY <2>2, <2>3
<1>4. a = x
  BY <1>3, SeqEqual
<1> QED
  <2>1. Len(b) = Len(y) /\ \A i \in 1..Len(b) : (a \o b)[Len(a) + i] = b[i]
    BY <1>1, <1>2, <1>4, ConcatProperties
  <2>2. \A i \in 1..Len(y) : (x \o y)[Len(a) + i] = y[i]
    BY <1>1, <1>2
  <2>3. b = y
    BY <2>1, <2>2, SeqEqual
  <2> QED
    BY <1>4, <2>3

\* p is what was read, c what is in the channel and u what is to come: after
\* n more characters they are q, d and u, and the stream is the same.
Cut(p, c, u, n, q, d) ==
  /\ Texts(p, c, u, u) /\ n \in 1..Len(c)
  /\ q = p \o SubSeq(c, 1, n) /\ d = SubSeq(c, n + 1, Len(c))

SameStream(p, c, u, n, q, d) ==
  /\ q \in Seq(Int) /\ d \in Seq(Int) /\ d \o u \in Seq(Int)
  /\ Len(q) = Len(p) + n /\ Len(p) \in Nat /\ q \o (d \o u) = p \o (c \o u)

LEMMA Reading ==
  ASSUME NEW p, NEW c, NEW u, NEW n, NEW q, NEW d, Cut(p, c, u, n, q, d)
  PROVE  SameStream(p, c, u, n, q, d)
<1>f. PICK f : f = SubSeq(c, 1, n)
  OBVIOUS
<1>0. /\ p \in Seq(Int) /\ c \in Seq(Int) /\ u \in Seq(Int)
      /\ n \in 1..Len(c) /\ q = p \o SubSeq(c, 1, n) /\ d = SubSeq(c, n + 1, Len(c))
  BY DEF Cut, Texts
<1>1. Len(c) \in Nat /\ Len(p) \in Nat /\ c \in [1..Len(c) -> Int]
  BY <1>0, LenProperties
<1>2. f \in Seq(Int) /\ Len(f) = n /\ d \in Seq(Int)
  <2>1. /\ \A i \in 1..n : c[i] \in Int
        /\ \A i \in (n + 1)..Len(c) : c[i] \in Int
    <3>1. \A i \in 1..Len(c) : c[i] \in Int
      BY <1>1
    <3>2. 1..n \subseteq 1..Len(c) /\ (n + 1)..Len(c) \subseteq 1..Len(c)
      BY <1>0, <1>1
    <3> QED
      BY <3>1, <3>2
  <2>2. n \in Int /\ n + 1 \in Int /\ Len(c) \in Int /\ 1 <= n /\ 1 \in Int
    BY <1>0, <1>1
  <2>3. f \in Seq(Int) /\ Len(f) = IF 1 <= n THEN n - 1 + 1 ELSE 0
    BY <1>f, <2>1, <2>2, SubSeqProperties
  <2>4. d \in Seq(Int)
    BY <1>0, <2>1, <2>2, SubSeqProperties
  <2> QED
    BY <1>0, <2>2, <2>3, <2>4
<1>3. f \o d = c
  <2>1. 1 \in 1..Len(c) + 1 /\ n \in 1 - 1..Len(c) /\ Len(c) \in n..Len(c)
    BY <1>0, <1>1
  <2>2. f \o d = SubSeq(c, 1, Len(c))
    BY <1>0, <1>f, <2>1, ConcatAdjacentSubSeq
  <2> QED
    BY <1>0, <2>2, SubSeqFull
<1>4. /\ p \o f \in Seq(Int) /\ Len(p \o f) = Len(p) + Len(f) /\ d \o u \in Seq(Int)
  BY <1>0, <1>2, ConcatProperties
<1>5. (p \o f) \o (d \o u) = p \o ((f \o d) \o u)
  <2>1. Texts(p, f, d, u)
    BY <1>0, <1>2 DEF Texts
  <2> QED
    BY ONLY <2>1, Regrouped
<1>7. q = p \o f
  BY <1>0, <1>f
<1> QED
  BY <1>1, <1>2, <1>3, <1>4, <1>5, <1>7 DEF SameStream

LEMMA HeaderFacts ==
  ASSUME NEW n \in Nat
  PROVE  Header(n) \in Seq(Int) /\ Len(Header(n)) = 2 /\ Length(Header(n)) = n
<1>a. n \div 10 \in Int /\ n % 10 \in Int
  OBVIOUS
<1>b. PICK q \in Int : q = n \div 10
  BY <1>a
<1>c. PICK r \in Int : r = n % 10
  BY <1>a
<1>1. n = 10 * q + r
  BY <1>b, <1>c, Z3
<1>2. /\ Header(n)[1] = Zero + q /\ Header(n)[2] = Zero + r
      /\ Header(n) \in Seq(Int) /\ Len(Header(n)) = 2
  BY <1>b, <1>c DEF Header, Zero
<1>3. Length(Header(n)) = q * 10 + r
  BY <1>2 DEF Length, Zero
<1> QED
  BY <1>1, <1>2, <1>3

LEMMA SidesFacts ==
  /\ Sides = {"client", "server"} /\ Other("client") = "server" /\ Other("server") = "client"
  /\ \A s \in Sides : Other(s) \in Sides /\ Other(s) # s /\ Other(Other(s)) = s
BY DEF Sides, Other

LEMMA UnsentSeq ==
  ASSUME Types, NEW s \in Sides
  PROVE  Unsent(s) \in Seq(Int) /\ Len(rd[s]) \in Nat /\ Header(Len(rd[s])) \o rd[s] \in Seq(Int)
<1>1. rd[s] \in Seq(Int) /\ Len(rd[s]) \in Nat
  BY LenProperties DEF Types
<1>2. Header(Len(rd[s])) \in Seq(Int)
  BY <1>1, HeaderFacts
<1>3. Header(Len(rd[s])) \o rd[s] \in Seq(Int) /\ <<>> \in Seq(Int)
  BY <1>1, <1>2, ConcatProperties
<1> QED
  BY <1>1, <1>3 DEF Unsent

(***************************************************************************)
(* A write moves bytes from what is unsent to what is under way.           *)
(***************************************************************************)
LEMMA WriteKeeps ==
  ASSUME Types, NEW s \in Sides, WriteLength(s) \/ WriteText(s)
  PROVE  /\ Types' /\ UNCHANGED <<expr, rd, part, len>> /\ chan'[s] = chan[s] /\ pc'[Other(s)] = pc[Other(s)]
         /\ Rest(s)' = Rest(s) /\ Rest(Other(s))' = Rest(Other(s))
         /\ \/ pc[s] = "write1" /\ pc'[s] = "write2"
            \/ /\ pc[s] = "write2" /\ pc'[s] = IF s = "client" THEN "head" ELSE "end"
               /\ chan'[Other(s)] = chan[Other(s)] \o rd[s]
<1> DEFINE o == Other(s)
<1>0. o \in Sides /\ o # s /\ Other(o) = s
  BY SidesFacts
<1> HIDE DEF o
<1>1. PICK text : /\ chan' = [chan EXCEPT ![o] = @ \o text]
                  /\ \/ text = Header(Len(rd[s])) /\ pc[s] = "write1" /\ pc' = [pc EXCEPT ![s] = "write2"]
                     \/ /\ text = rd[s] /\ pc[s] = "write2"
                        /\ pc' = [pc EXCEPT ![s] = IF s = "client" THEN "head" ELSE "end"]
  BY DEF WriteLength, WriteText, Write, o
<1>2. UNCHANGED <<expr, rd, part, len>>
  BY DEF WriteLength, WriteText, Write
<1>3. rd[s] \in Seq(Int) /\ chan[o] \in Seq(Int) /\ Header(Len(rd[s])) \in Seq(Int) /\ text \in Seq(Int)
  BY <1>0, <1>1, UnsentSeq, HeaderFacts DEF Types
<1>4. /\ chan'[o] = chan[o] \o text /\ chan'[s] = chan[s] /\ DOMAIN chan' = Sides /\ DOMAIN pc' = Sides
      /\ pc'[o] = pc[o] /\ \A x \in Sides : x = s \/ x = o
  BY <1>0, <1>1, SidesFacts DEF Types
<1>5. chan[o] \o text \in Seq(Int)
  BY <1>3, ConcatProperties
<1>6. Types'
  BY <1>2, <1>4, <1>5 DEF Types
<1>7. Rest(s)' = Rest(s)
  BY <1>2, <1>4 DEF Rest, Unsent, o
<1>8. /\ Rest(o) = chan[o] \o Unsent(s) /\ Rest(o)' = (chan[o] \o text) \o Unsent(s)'
  BY <1>0, <1>4 DEF Rest
<1>9. CASE pc[s] = "write1"
  <2>1. text = Header(Len(rd[s])) /\ pc'[s] = "write2"
    BY <1>1, <1>9 DEF Types
  <2>2. Unsent(s) = text \o rd[s] /\ Unsent(s)' = rd[s]
    BY <1>2, <1>9, <2>1 DEF Unsent
  <2>3. (chan[o] \o text) \o rd[s] = chan[o] \o (text \o rd[s])
    BY <1>3, Assoc, ZenonT(30)
  <2> QED
    BY <1>2, <1>4, <1>6, <1>7, <1>8, <1>9, <2>1, <2>2, <2>3 DEF o
<1>10. CASE pc[s] = "write2"
  <2>1. text = rd[s] /\ pc'[s] = IF s = "client" THEN "head" ELSE "end"
    BY <1>1, <1>10 DEF Types
  <2>2. Unsent(s) = rd[s] /\ Unsent(s)' = <<>>
    BY <1>10, <2>1 DEF Unsent
  <2>3. (chan[o] \o text) \o <<>> = chan[o] \o text
    BY <1>5, ConcatEmptySeq
  <2> QED
    BY <1>2, <1>4, <1>6, <1>7, <1>8, <1>10, <2>1, <2>2, <2>3 DEF o
<1> QED
  BY <1>1, <1>9, <1>10

(***************************************************************************)
(* myread stops at the end of its message, and nowhere before.             *)
(***************************************************************************)
LEMMA ReadKeeps ==
  ASSUME Types, NEW s \in Sides, NEW m \in Seq(Int), pc[s] \in {"head", "body"}, Reads(s, m), Read(s)
  PROVE  /\ expr' = expr /\ chan'[s] \in Seq(Int) /\ part'[s] \in Seq(Int)
         /\ DOMAIN pc' = Sides /\ DOMAIN rd' = Sides /\ DOMAIN chan' = Sides
         /\ DOMAIN part' = Sides /\ DOMAIN len' = Sides
         /\ \A x \in Sides : x # s => /\ pc'[x] = pc[x] /\ rd'[x] = rd[x] /\ chan'[x] = chan[x]
                                      /\ part'[x] = part[x] /\ len'[x] = len[x]
         /\ \/ pc'[s] \in {"head", "body"} /\ rd' = rd /\ Reads(s, m)'
            \/ Finish(s, m) /\ chan'[s] = <<>> /\ Unsent(Other(s)) = <<>>
<1> DEFINE o == Other(s)
<1>0. o \in Sides /\ o # s
  BY SidesFacts
<1>1. PICK n \in 1..Len(chan[s]) :
        LET read == part[s] \o SubSeq(chan[s], 1, n) IN
         /\ n <= Asked(s)
         /\ chan' = [chan EXCEPT ![s] = SubSeq(@, n + 1, Len(@))]
         /\ CASE pc[s] = "head" /\ Len(read) >= 2 -> AfterHeader(s, read)
              [] pc[s] = "body" /\ LoopEnds(s, n) ->
                   Finish(s, read) /\ UNCHANGED <<part, len>>
              [] OTHER -> part' = [part EXCEPT ![s] = read] /\ UNCHANGED <<pc, rd, len>>
  BY DEF Read
<1>2. PICK q : q = part[s] \o SubSeq(chan[s], 1, n)
  OBVIOUS
<1>3. PICK d : d = SubSeq(chan[s], n + 1, Len(chan[s]))
  OBVIOUS
<1>4. PICK u : u = Unsent(o)
  OBVIOUS
<1>5. n <= Asked(s) /\ chan' = [chan EXCEPT ![s] = d] /\ expr' = expr
  BY <1>1, <1>3 DEF Read
<1>6. /\ pc[s] = "head" /\ Len(q) >= 2 => AfterHeader(s, q)
      /\ pc[s] = "body" /\ LoopEnds(s, n) => Finish(s, q) /\ UNCHANGED <<part, len>>
      /\ pc[s] = "head" /\ ~(Len(q) >= 2) => part' = [part EXCEPT ![s] = q] /\ UNCHANGED <<pc, rd, len>>
      /\ pc[s] = "body" /\ ~LoopEnds(s, n) => part' = [part EXCEPT ![s] = q] /\ UNCHANGED <<pc, rd, len>>
  BY <1>1, <1>2
<1>7. /\ part[s] \in Seq(Int) /\ chan[s] \in Seq(Int) /\ u \in Seq(Int) /\ Len(m) \in Nat
      /\ DOMAIN chan = Sides /\ DOMAIN pc = Sides /\ DOMAIN rd = Sides /\ DOMAIN part = Sides /\ DOMAIN len = Sides
  BY <1>0, <1>4, UnsentSeq, LenProperties DEF Types
<1> HIDE DEF o
<1>8. /\ q \in Seq(Int) /\ d \in Seq(Int) /\ d \o u \in Seq(Int)
      /\ Len(q) = Len(part[s]) + n /\ Len(part[s]) \in Nat /\ q \o (d \o u) = part[s] \o (chan[s] \o u)
  <2> DEFINE a == part[s]  c == chan[s]
  <2>1. Cut(a, c, u, n, q, d)
    BY <1>2, <1>3, <1>7 DEF Cut, Texts
  <2>2. SameStream(a, c, u, n, q, d)
    BY ONLY <2>1, Reading
  <2> QED
    BY <2>2 DEF SameStream
<1>9. Rest(s) = chan[s] \o u /\ chan'[s] = d /\ DOMAIN chan' = Sides
      /\ \A x \in Sides : x # s => chan'[x] = chan[x]
  BY <1>4, <1>5, <1>7 DEF Rest, o
<1>10. ASSUME pc'[o] = pc[o], rd'[o] = rd[o] PROVE Rest(s)' = d \o u
  BY <1>4, <1>9, <1>10 DEF Rest, Unsent, o
<1>11. ASSUME d \o u = <<>> PROVE chan'[s] = <<>> /\ Unsent(Other(s)) = <<>>
  BY <1>4, <1>7, <1>8, <1>9, <1>11, ConcatEqualIffEmpty DEF o
<1>12. ASSUME NEW t, Finish(s, t)
       PROVE  /\ DOMAIN pc' = Sides /\ DOMAIN rd' = Sides
              /\ \A x \in Sides : x # s => pc'[x] = pc[x] /\ rd'[x] = rd[x]
  BY <1>7, <1>12 DEF Finish
<1>13. n \in Nat /\ n > 0 /\ n <= len[s] - Len(part[s])
  <2>1. n \in Nat /\ n > 0
    BY <1>7, LenProperties
  <2> QED
    BY <1>5, <1>8, <2>1 DEF Asked
<1>14. CASE pc[s] = "head"
  <2>1. q \o (d \o u) = Header(Len(m)) \o m /\ len[s] = 2 /\ Len(q) <= 2
    <3>1. part[s] \o Rest(s) = Header(Len(m)) \o m /\ len[s] = 2
      BY <1>14 DEF Reads
    <3>2. Len(part[s]) + n <= 2
      BY <1>8, <1>13, <3>1
    <3> QED
      BY <1>8, <1>9, <3>1, <3>2
  <2>2. Header(Len(m)) \in Seq(Int) /\ Len(Header(Len(m))) = 2 /\ Length(Header(Len(m))) = Len(m)
    BY <1>7, HeaderFacts
  <2>3. CASE Len(q) >= 2
    <3>1. Len(q) = Len(Header(Len(m)))
      BY <1>7, <1>8, <2>1, <2>2, <2>3, LenProperties
    <3>2. q = Header(Len(m)) /\ d \o u = m
      BY <1>8, <2>1, <2>2, <3>1, Cancel
    <3>3. /\ len' = [len EXCEPT ![s] = Len(m)] /\ part' = [part EXCEPT ![s] = <<>>]
          /\ IF Len(m) = 0 THEN Finish(s, <<>>) ELSE pc' = [pc EXCEPT ![s] = "body"] /\ rd' = rd
      BY <1>6, <1>14, <2>2, <2>3, <3>2 DEF AfterHeader
    <3>4. /\ DOMAIN part' = Sides /\ DOMAIN len' = Sides /\ part'[s] = <<>> /\ len'[s] = Len(m)
          /\ <<>> \in Seq(Int) /\ \A x \in Sides : x # s => part'[x] = part[x] /\ len'[x] = len[x]
      BY <1>7, <3>3, EmptySeq
    <3>5. CASE Len(m) = 0
      <4>1. m = <<>> /\ Finish(s, m)
        BY <3>3, <3>5, EmptySeq
      <4>2. chan'[s] = <<>> /\ Unsent(Other(s)) = <<>>
        BY <1>11, <3>2, <4>1
      <4>3. /\ DOMAIN pc' = Sides /\ DOMAIN rd' = Sides
            /\ \A x \in Sides : x # s => pc'[x] = pc[x] /\ rd'[x] = rd[x]
        BY <1>12, <4>1
      <4> QED
        BY <1>5, <1>8, <1>9, <3>4, <4>1, <4>2, <4>3
    <3>6. CASE Len(m) # 0
      <4>1. /\ pc' = [pc EXCEPT ![s] = "body"] /\ rd' = rd
        BY <3>3, <3>6
      <4>2. /\ DOMAIN pc' = Sides /\ pc'[s] = "body" /\ \A x \in Sides : x # s => pc'[x] = pc[x]
        BY <1>7, <4>1
      <4>3. Rest(s)' = d \o u
        BY <1>0, <1>10, <4>1, <4>2
      <4>4. <<>> \o m = m /\ Len(<<>>) = 0 /\ 0 < Len(m)
        BY <1>7, <3>6, ConcatEmptySeq, EmptySeq
      <4>5. Reads(s, m)'
        BY <3>2, <3>4, <4>2, <4>3, <4>4 DEF Reads
      <4> QED
        BY <1>5, <1>8, <1>9, <1>7, <3>4, <4>1, <4>2, <4>5
    <3> QED
      BY <3>5, <3>6
  <2>4. CASE ~(Len(q) >= 2)
    <3>1. part' = [part EXCEPT ![s] = q] /\ UNCHANGED <<pc, rd, len>>
      BY <1>6, <1>14, <2>4
    <3>2. part'[s] = q /\ DOMAIN part' = Sides /\ \A x \in Sides : x # s => part'[x] = part[x]
      BY <1>7, <3>1
    <3>3. Rest(s)' = d \o u
      BY <1>10, <3>1
    <3>4. Len(q) < 2
      BY <1>8, <2>4, LenProperties
    <3>5. Reads(s, m)'
      BY <1>14, <2>1, <3>1, <3>2, <3>3, <3>4 DEF Reads
    <3> QED
      BY <1>5, <1>7, <1>8, <1>9, <1>14, <3>1, <3>2, <3>5
  <2> QED
    BY <2>3, <2>4
<1>15. CASE pc[s] = "body"
  <2>1. q \o (d \o u) = m /\ len[s] = Len(m) /\ Len(q) <= Len(m) /\ Len(q) \in Nat
    <3>1. part[s] \o Rest(s) = m /\ len[s] = Len(m)
      BY <1>15 DEF Reads
    <3>2. Len(part[s]) + n <= Len(m) /\ Len(part[s]) + n \in Nat
      BY <1>7, <1>8, <1>13, <3>1
    <3> QED
      BY <1>8, <1>9, <3>1, <3>2
  <2>2. CASE LoopEnds(s, n)
    <3>1. Finish(s, q) /\ UNCHANGED <<part, len>> /\ Len(q) = Len(m)
      BY <1>6, <1>8, <1>15, <2>1, <2>2 DEF LoopEnds
    <3>2. m \o <<>> = m /\ <<>> \in Seq(Int)
      BY ConcatEmptySeq, EmptySeq
    <3>3. q = m /\ d \o u = <<>>
      BY <1>8, <2>1, <3>1, <3>2, Cancel
    <3>4. chan'[s] = <<>> /\ Unsent(Other(s)) = <<>>
      BY <1>11, <3>3
    <3>5. /\ DOMAIN pc' = Sides /\ DOMAIN rd' = Sides
          /\ \A x \in Sides : x # s => pc'[x] = pc[x] /\ rd'[x] = rd[x]
      BY <1>12, <3>1
    <3> QED
      BY <1>5, <1>7, <1>8, <1>9, <3>1, <3>3, <3>4, <3>5
  <2>3. CASE ~LoopEnds(s, n)
    <3>1. part' = [part EXCEPT ![s] = q] /\ UNCHANGED <<pc, rd, len>>
      BY <1>6, <1>15, <2>3
    <3>2. part'[s] = q /\ DOMAIN part' = Sides /\ \A x \in Sides : x # s => part'[x] = part[x]
      BY <1>7, <3>1
    <3>3. Rest(s)' = d \o u
      BY <1>10, <3>1
    <3>4. Len(q) < Len(m)
      <4>1. Len(part[s]) + n # Len(m)
        BY <2>1, <2>3 DEF LoopEnds
      <4>2. Len(q) # Len(m)
        BY <1>8, <4>1
      <4> QED
        BY <1>7, <2>1, <4>2
    <3>5. Reads(s, m)'
      BY <1>15, <2>1, <3>1, <3>2, <3>3, <3>4 DEF Reads
    <3> QED
      BY <1>5, <1>7, <1>8, <1>9, <1>15, <3>1, <3>2, <3>5
  <2> QED
    BY <2>2, <2>3
<1> QED
  BY <1>14, <1>15

(***************************************************************************)
(* An int wraps around: what it holds is right up to multiples of 2^w.     *)
(***************************************************************************)
Same(x, y) == \E q \in Int : x = y + q * (2 * Half)

LEMMA HalfType == Half \in Nat \ {0}
BY CalcAssumption, PowerType DEF Half

LEMMA Divides ==
  ASSUME NEW x \in Int, NEW m \in Nat \ {0}
  PROVE  x \div m \in Int /\ x % m \in 0..(m - 1) /\ x = m * (x \div m) + (x % m)
<1>1. x \div m \in Int
  OBVIOUS
<1>2. x % m \in 0..(m - 1)
  OBVIOUS
<1>3. x = m * (x \div m) + (x % m)
  OBVIOUS
<1> QED
  BY <1>1, <1>2, <1>3

LEMMA Wraps ==
  ASSUME NEW x \in Int
  PROVE  Wrap(x) \in Ints /\ Wrap(x) \in Int /\ Same(Wrap(x), x)
<1>1. PICK m \in Nat \ {0}, h \in Nat \ {0} : h = Half /\ m = 2 * h
  BY HalfType
<1>2. PICK y \in Int : y = x + h
  BY <1>1
<1>3. PICK d \in Int, r \in 0..(m - 1) : d = y \div m /\ r = y % m /\ y = m * d + r
  <2>1. y \div m \in Int /\ y % m \in 0..(m - 1) /\ y = m * (y \div m) + (y % m)
    BY Divides
  <2> QED
    BY <2>1, Zenon
<1>4. Wrap(x) = r - h
  BY <1>1, <1>2, <1>3 DEF Wrap
<1>5. r - h \in (-h)..(h - 1) /\ r - h \in Int
  BY <1>1, <1>3
<1>6. r - h = x + (-d) * m /\ -d \in Int
  <2>1. \A a, b \in Int : (-a) * b = -(b * a) /\ b * a \in Int
    OBVIOUS
  <2>2. PICK p \in Int : p = m * d /\ (-d) * m = -p
    BY <1>1, <1>3, <2>1
  <2>3. x + h = p + r
    BY <1>2, <1>3, <2>2
  <2>4. r - h = x + -p
    <3>1. \A a, b, c, t \in Int : a + b = c + t => t - b = a + -c
      OBVIOUS
    <3>2. r \in Int /\ h \in Int
      BY <1>1, <1>3
    <3> QED
      BY <2>2, <2>3, <3>1, <3>2, Z3
  <2> QED
    BY <2>2, <2>4
<1>7. Same(r - h, x)
  BY <1>1, <1>6 DEF Same
<1> QED
  BY <1>1, <1>4, <1>5, <1>7 DEF Ints

LEMMA SameSums ==
  ASSUME NEW a \in Int, NEW b \in Int, NEW c \in Int, NEW d \in Int, Same(a, b), Same(c, d)
  PROVE  Same(a + c, b + d) /\ Same(a - c, b - d)
<1>1. PICK p \in Int : a = b + p * (2 * Half)
  BY DEF Same
<1>2. PICK q \in Int : c = d + q * (2 * Half)
  BY DEF Same
<1>3. PICK m \in Int : m = 2 * Half
  BY HalfType
<1>4. /\ a + c = (b + d) + (p + q) * m
      /\ a - c = (b - d) + (p - q) * m
  BY <1>1, <1>2, <1>3
<1> QED
  BY <1>3, <1>4 DEF Same

LEMMA SameTens == ASSUME NEW a \in Int, NEW b \in Int, Same(a, b) PROVE Same(a * 10, b * 10)
<1>1. PICK p \in Int : a = b + p * (2 * Half)
  BY DEF Same
<1>2. PICK m \in Int : m = 2 * Half
  BY HalfType
<1>3. a * 10 = b * 10 + (p * 10) * m
  BY <1>1, <1>2
<1> QED
  BY <1>2, <1>3 DEF Same

LEMMA SameOnce ==
  ASSUME NEW a \in Int
  PROVE  Same(a, a) /\ \A b, c \in Int : Same(a, b) /\ Same(b, c) => Same(a, c)
<1>1. PICK m \in Int : m = 2 * Half
  BY HalfType
<1>2. a = a + 0 * m
  OBVIOUS
<1>3. ASSUME NEW b \in Int, NEW c \in Int, Same(a, b), Same(b, c) PROVE Same(a, c)
  <2>1. PICK p \in Int : a = b + p * m
    BY <1>1, <1>3 DEF Same
  <2>2. PICK q \in Int : b = c + q * m
    BY <1>1, <1>3 DEF Same
  <2>3. a = c + (p + q) * m
    BY <2>1, <2>2
  <2> QED
    BY <1>1, <2>3 DEF Same
<1> QED
  BY <1>1, <1>2, <1>3 DEF Same

LEMMA SameInts == ASSUME NEW a \in Ints, NEW b \in Ints, Same(a, b) PROVE a = b
<1>1. PICK h \in Nat \ {0} : h = Half
  BY HalfType
<1>2. PICK q \in Int : a = b + q * (2 * h)
  BY <1>1 DEF Same
<1>3. a \in (-h)..(h - 1) /\ b \in (-h)..(h - 1)
  BY <1>1 DEF Ints
<1>4. CASE q >= 1
  <2>1. q * (2 * h) >= 2 * h
    BY <1>1, <1>4
  <2> QED
    BY <1>1, <1>2, <1>3, <2>1
<1>5. CASE q <= -1
  <2>1. q * (2 * h) <= -(2 * h)
    BY <1>1, <1>5
  <2> QED
    BY <1>1, <1>2, <1>3, <2>1
<1>6. CASE q = 0
  BY <1>2, <1>3, <1>6
<1> QED
  BY <1>4, <1>5, <1>6

(***************************************************************************)
(* cal, character by character.                                            *)
(***************************************************************************)
States == [ans : Int, now : Int, la : {0, 1}]
Start == [ans |-> 0, now |-> 0, la |-> 1]
Passes(state, s) == state[0] = Start /\ \A k \in 1..Len(s) : state[k] = Char(state[k - 1], s[k])

LEMMA CharFacts ==
  ASSUME NEW st \in States, NEW ch \in Int
  PROVE  /\ Char(st, ch) \in States /\ Applied(st) \in Ints /\ Applied(st) \in Int
         /\ Same(Applied(st), IF st.la = 1 THEN st.ans + st.now ELSE st.ans - st.now)
         /\ ch \in {Plus, Minus} =>
              Char(st, ch) = [ans |-> Applied(st), now |-> 0, la |-> IF ch = Plus THEN 1 ELSE 0]
         /\ ch \notin {Plus, Minus} =>
              /\ Char(st, ch).ans = st.ans /\ Char(st, ch).la = st.la
              /\ Same(Char(st, ch).now, st.now * 10 + (ch - Zero))
<1>1. st.ans \in Int /\ st.now \in Int /\ st.la \in {0, 1} /\ Zero \in Int
  BY DEF States, Zero
<1>2. /\ Applied(st) \in Ints /\ Applied(st) \in Int
      /\ Same(Applied(st), IF st.la = 1 THEN st.ans + st.now ELSE st.ans - st.now)
  BY <1>1, Wraps DEF Applied
<1>3. /\ Operator(st, ch) = [ans |-> Applied(st), now |-> 0, la |-> IF ch = Plus THEN 1 ELSE 0]
      /\ Operator(st, ch) \in States
  BY <1>2 DEF Operator, States
<1> DEFINE ten == Wrap(st.now * 10)
           now == Wrap(ten + ch - Zero)
<1>4. ten \in Int /\ Same(ten, st.now * 10)
  BY <1>1, Wraps
<1>5. now \in Int /\ Same(now, ten + ch - Zero)
  BY <1>1, <1>4, Wraps
<1>6. Digit(st, ch) = [st EXCEPT !.now = now]
  BY DEF Digit
<1> HIDE DEF ten, now
<1>7. Same(now, st.now * 10 + (ch - Zero))
  <2>1. Same(ch - Zero, ch - Zero) /\ ch - Zero \in Int /\ ten + ch - Zero = ten + (ch - Zero)
    BY <1>1, <1>4, SameOnce
  <2>2. PICK a, b, d \in Int : a = ten /\ b = st.now * 10 /\ d = ch - Zero
    BY <1>1, <1>4, <2>1
  <2>3. Same(a + d, b + d)
    BY <1>4, <2>1, <2>2, SameSums
  <2>4. Same(now, a + d) /\ a + d \in Int /\ b + d \in Int
    BY <1>5, <2>1, <2>2
  <2>5. Same(now, b + d)
    BY <1>5, <2>3, <2>4, SameOnce
  <2> QED
    BY <2>2, <2>5
<1>8. /\ Digit(st, ch).ans = st.ans /\ Digit(st, ch).la = st.la /\ Digit(st, ch).now = now
      /\ Digit(st, ch) \in States
  BY <1>1, <1>5, <1>6 DEF States
<1> QED
  BY <1>2, <1>3, <1>7, <1>8 DEF Char

LEMMA CalUnfolds ==
  ASSUME NEW s \in Seq(Int)
  PROVE  \E state \in [0..Len(s) -> States] :
           Passes(state, s) /\ Cal(s) = IF s = <<>> THEN 0 ELSE Applied(state[Len(s)])
<1> DEFINE Rec(f) == f = [k \in 0..Len(s) |->
             IF k = 0 THEN [ans |-> 0, now |-> 0, la |-> 1] ELSE Char(f[k - 1], s[k])]
           state == CHOOSE f : Rec(f)
           h == [p \in Nat \X States |-> IF p[1] < Len(s) THEN Char(p[2], s[p[1] + 1]) ELSE p[2]]
<1>0. Len(s) \in Nat /\ \A k \in 1..Len(s) : s[k] \in Int
  OBVIOUS
<1>1. Cal(s) = IF s = <<>> THEN 0 ELSE Applied(state[Len(s)])
  BY DEF Cal
<1>2. h \in [Nat \X States -> States] /\ Start \in States
  <2>1. ASSUME NEW p \in Nat \X States PROVE h[p] \in States
    <3>1. p[1] \in Nat /\ p[2] \in States
      OBVIOUS
    <3>2. CASE p[1] < Len(s)
      <4>1. s[p[1] + 1] \in Int
        BY <1>0, <3>1, <3>2
      <4> QED
        BY <3>1, <3>2, <4>1, CharFacts
    <3>3. CASE ~(p[1] < Len(s))
      BY <3>1, <3>3
    <3> QED
      BY <3>2, <3>3
  <2>2. h \in [Nat \X States -> States]
    <3>1. h = [p \in Nat \X States |-> h[p]]
      BY Zenon
    <3> HIDE DEF h
    <3> QED
      BY <2>1, <3>1, Zenon
  <2> QED
    BY <2>2 DEF Start, States
<1>3. PICK f \in [Nat -> States] : Recurs(f, Start, h)
  <2> HIDE DEF h
  <2> QED
    BY <1>2, RecursionExists
<1>4. f[0] = Start /\ \A k \in Nat : k < Len(s) => f[k + 1] = Char(f[k], s[k + 1])
  <2>1. ASSUME NEW k \in Nat, k < Len(s) PROVE f[k + 1] = Char(f[k], s[k + 1])
    <3>1. f[k + 1] = h[<<k, f[k]>>] /\ <<k, f[k]>> \in Nat \X States
      BY <1>3 DEF Recurs
    <3> QED
      BY <2>1, <3>1
  <2> QED
    BY <1>3, <2>1 DEF Recurs
<1> HIDE DEF h
<1> DEFINE g == [k \in 0..Len(s) |-> f[k]]
<1>5. Rec(g)
  <2>1. ASSUME NEW k \in 0..Len(s), k # 0 PROVE g[k] = Char(g[k - 1], s[k])
    <3>1. k - 1 \in Nat /\ k - 1 < Len(s) /\ k - 1 \in 0..Len(s) /\ (k - 1) + 1 = k
      BY <1>0, <2>1
    <3>2. f[(k - 1) + 1] = Char(f[k - 1], s[(k - 1) + 1])
      BY <1>4, <3>1
    <3> QED
      BY <3>1, <3>2
  <2>2. g[0] = [ans |-> 0, now |-> 0, la |-> 1]
    BY <1>0, <1>4 DEF Start
  <2> QED
    BY <2>1, <2>2
<1>6. Rec(state)
  <2> HIDE DEF Rec
  <2> QED
    BY <1>5
<1> HIDE DEF state
<1>7. Passes(state, s)
  <2>1. state[0] = Start
    BY <1>0, <1>6 DEF Start
  <2>2. ASSUME NEW k \in 1..Len(s) PROVE state[k] = Char(state[k - 1], s[k])
    <3>1. k \in 0..Len(s) /\ k # 0
      BY <1>0
    <3> QED
      BY <1>6, <3>1
  <2> QED
    BY <2>1, <2>2 DEF Passes
<1>8. \A k \in 0..Len(s) : state[k] \in States
  <2> DEFINE N == {k \in Nat : k <= Len(s) => state[k] \in States}
  <2>1. 0 \in N
    BY <1>2, <1>7 DEF Passes
  <2>2. ASSUME NEW k \in N PROVE k + 1 \in N
    <3>1. ASSUME k + 1 <= Len(s) PROVE state[k + 1] \in States
      <4>1. k + 1 \in 1..Len(s) /\ state[k] \in States /\ (k + 1) - 1 = k
        BY <1>0, <3>1
      <4>2. state[k + 1] = Char(state[k], s[k + 1])
        BY <1>7, <4>1 DEF Passes
      <4> QED
        BY <1>0, <4>1, <4>2, CharFacts
    <3> QED
      BY <3>1
  <2>3. N = Nat
    <3> HIDE DEF N
    <3>1. N \in SUBSET Nat
      BY DEF N
    <3> QED
      BY <2>1, <2>2, <3>1, Induction
  <2> QED
    BY <1>0, <2>3
<1>9. state = [k \in 0..Len(s) |-> state[k]]
  <2>1. DOMAIN state = 0..Len(s)
    BY <1>6
  <2> QED
    BY <1>6, <2>1
<1>10. state \in [0..Len(s) -> States]
  <2> HIDE DEF Rec
  <2> QED
    BY <1>8, <1>9
<1> QED
  BY <1>1, <1>7, <1>10

(***************************************************************************)
(* What the value of an expression is made of.                             *)
(***************************************************************************)
Terms(e) == [i \in Digits(e) |-> Sign(e, i) * (e[i] - Zero) * Place(e, i)]
Sum(e, k) == SumOver(Terms(e), Digits(e) \cap (1..k))

\* Of the first k characters the number after l has been read, and no operator
\* since: what it is up to now, and its sign.
After(e, l, k) == l \in 0..k /\ (l = 0 \/ l \in Operators(e)) /\ \A i \in (l + 1)..k : i \notin Operators(e)
Figures(e, l, k) == [i \in (l + 1)..k |-> (e[i] - Zero) * Power(10, k - i)]
Number(e, l, k) == SumOver(Figures(e, l, k), (l + 1)..k)
SignOf(e, l) == IF l # 0 /\ e[l] = Minus THEN -1 ELSE 1

LEMMA PowerNat == ASSUME NEW n \in Nat PROVE Power(10, n) \in Nat \ {0} /\ Power(10, n) \in Int
BY PowerType

LEMMA MaxIs == ASSUME NEW S \in SUBSET Int, NEW m \in S, \A x \in S : x <= m PROVE Max(S) = m
<1>1. \A x \in S : m >= x
  OBVIOUS
<1>2. Max(S) \in S /\ \A y \in S : Max(S) >= y
  <2> DEFINE P(x) == x \in S /\ \A y \in S : x >= y
  <2>1. P(m)
    BY <1>1
  <2>2. Max(S) = CHOOSE x : P(x)
    BY DEF Max
  <2> QED
    BY <2>1, <2>2
<1>3. PICK x \in Int : x = Max(S) /\ x >= m /\ x <= m
  BY <1>2
<1> QED
  BY <1>3

LEMMA MinIs == ASSUME NEW S \in SUBSET Int, NEW m \in S, \A x \in S : m <= x PROVE Min(S) = m
<1>1. Min(S) \in S /\ \A y \in S : Min(S) <= y
  <2> DEFINE P(x) == x \in S /\ \A y \in S : x <= y
  <2>1. P(m)
    OBVIOUS
  <2>2. Min(S) = CHOOSE x : P(x)
    BY DEF Min
  <2> QED
    BY <2>1, <2>2
<1>2. PICK x \in Int : x = Min(S) /\ x >= m /\ x <= m
  BY <1>1
<1> QED
  BY <1>2

LEMMA TermsInt ==
  ASSUME NEW e \in Seq(Int)
  PROVE  IsFiniteSet(Digits(e)) /\ \A i \in Digits(e) : Terms(e)[i] \in Int
<1>0. Len(e) \in Nat /\ IsFiniteSet(1..Len(e)) /\ Digits(e) \subseteq 1..Len(e)
  <2>1. Len(e) \in Nat
    OBVIOUS
  <2> QED
    BY <2>1, FS_Interval DEF Digits
<1>1. ASSUME NEW i \in Digits(e) PROVE Place(e, i) \in Int
  <2> DEFINE S == {j \in Operators(e) : j > i} \cup {Len(e) + 1}
  <2>1. i \in Nat /\ i <= Len(e)
    BY <1>0
  <2>2. S \in SUBSET Nat /\ S # {} /\ \A j \in S : j > i
    BY <1>0, <2>1 DEF Operators
  <2>3. PICK m \in S : \A j \in S : m <= j
    <3> HIDE DEF S
    <3> QED
      BY <2>2, Smallest
  <2>4. Min(S) = m
    <3> HIDE DEF S
    <3>1. S \in SUBSET Int
      BY <2>2
    <3> QED
      BY <2>3, <3>1, MinIs
  <2>5. m - i - 1 \in Nat
    BY <2>1, <2>2, <2>3
  <2>6. Place(e, i) = Power(10, m - i - 1)
    BY <2>4 DEF Place
  <2> QED
    BY <2>5, <2>6, PowerNat
<1>2. ASSUME NEW i \in Digits(e) PROVE Terms(e)[i] \in Int
  <2>1. Sign(e, i) \in Int
    BY DEF Sign
  <2>2. e[i] - Zero \in Int
    BY <1>0 DEF Zero
  <2>3. \A a, b, c \in Int : a * b * c \in Int
    OBVIOUS
  <2> QED
    BY <1>1, <2>1, <2>2, <2>3 DEF Terms
<1>3. IsFiniteSet(Digits(e))
  BY <1>0, FS_Subset
<1> QED
  BY <1>2, <1>3

LEMMA FiguresInt ==
  ASSUME NEW e \in Seq(Int), NEW l \in Nat, NEW k \in 0..Len(e)
  PROVE  /\ IsFiniteSet((l + 1)..k) /\ Number(e, l, k) \in Int
         /\ \A i \in (l + 1)..k : Figures(e, l, k)[i] \in Int
<1>1. Len(e) \in Nat /\ k \in Nat /\ l + 1 \in Nat
  OBVIOUS
<1>2. IsFiniteSet((l + 1)..k)
  BY <1>1, FS_Interval
<1>3. ASSUME NEW i \in (l + 1)..k PROVE Figures(e, l, k)[i] \in Int
  <2>1. e[i] - Zero \in Int /\ k - i \in Nat
    BY <1>1 DEF Zero
  <2>2. Power(10, k - i) \in Int
    BY <2>1, PowerNat
  <2> QED
    BY <2>1, <2>2 DEF Figures
<1> QED
  BY <1>2, <1>3, SumTakesOut DEF Number

\* Where a number ends, at an operator or at the end of the text, it has been
\* read with the sign and the places of its digits.
LEMMA NumberEnds ==
  ASSUME NEW e \in Seq(Int), NEW k \in 0..Len(e), NEW l \in 0..k, After(e, l, k),
         k = Len(e) \/ k + 1 \in Operators(e)
  PROVE  Sum(e, k) = Sum(e, l) + SignOf(e, l) * Number(e, l, k)
<1> DEFINE D == Digits(e)
           new == (l + 1)..k
<1>0. Len(e) \in Nat /\ k \in Nat /\ l \in Nat /\ l <= k /\ k <= Len(e) /\ Operators(e) \subseteq 1..Len(e)
  BY DEF Operators
<1>1. new \subseteq D /\ D \cap (1..k) = (D \cap (1..l)) \cup new /\ (D \cap (1..l)) \cap new = {}
  BY <1>0 DEF Digits, After
<1>2. ASSUME NEW i \in new PROVE Sign(e, i) = SignOf(e, l)
  <2> DEFINE B == {j \in Operators(e) : j < i}
  <2>1. \A j \in B : j <= l
    BY <1>0 DEF After
  <2>2. CASE l = 0
    <3>1. B = {}
      BY <1>0, <2>1, <2>2
    <3> QED
      BY <2>2, <3>1 DEF Sign, SignOf
  <2>3. CASE l # 0
    <3>1. l \in B /\ B \in SUBSET Int
      BY <1>0, <2>3 DEF After
    <3>2. Max(B) = l
      <4> HIDE DEF B
      <4> QED
        BY <2>1, <3>1, MaxIs
    <3> QED
      BY <2>3, <3>1, <3>2 DEF Sign, SignOf
  <2> QED
    BY <2>2, <2>3
<1>3. ASSUME NEW i \in new PROVE Place(e, i) = Power(10, k - i)
  <2> DEFINE S == {j \in Operators(e) : j > i} \cup {Len(e) + 1}
  <2>1. k + 1 \in S /\ S \in SUBSET Int /\ \A j \in S : k + 1 <= j
    <3>1. k + 1 \in S
      BY <1>0
    <3>2. \A j \in S : k + 1 <= j
      BY <1>0 DEF After
    <3> QED
      BY <1>0, <3>1, <3>2
  <2>2. Min(S) = k + 1
    <3> HIDE DEF S
    <3> QED
      BY <2>1, MinIs
  <2>3. (k + 1) - i - 1 = k - i
    BY <1>0
  <2> QED
    BY <2>2, <2>3 DEF Place
<1>4. SignOf(e, l) \in Int
  BY DEF SignOf
<1>5. /\ IsFiniteSet(new) /\ Number(e, l, k) \in Int
      /\ \A i \in new : Figures(e, l, k)[i] \in Int
  BY <1>0, FiguresInt
<1>6. ASSUME NEW i \in new PROVE Terms(e)[i] = SignOf(e, l) * Figures(e, l, k)[i]
  <2>1. Terms(e)[i] = SignOf(e, l) * (e[i] - Zero) * Power(10, k - i)
    BY <1>1, <1>2, <1>3 DEF Terms
  <2>2. Figures(e, l, k)[i] = (e[i] - Zero) * Power(10, k - i)
    BY DEF Figures
  <2>3. e[i] - Zero \in Int /\ Power(10, k - i) \in Int
    <3>1. k - i \in Nat /\ e[i] - Zero \in Int
      BY <1>0 DEF Zero
    <3>2. Power(10, k - i) \in Int
      BY <3>1, PowerNat
    <3> QED
      BY <3>1, <3>2
  <2>4. \A a, b, c \in Int : a * b * c = a * (b * c)
    OBVIOUS
  <2> QED
    BY <1>4, <2>1, <2>2, <2>3, <2>4
<1> HIDE DEF new
<1>7. SumOver(Terms(e), new) = SignOf(e, l) * Number(e, l, k)
  <2>1. SumOver(Terms(e), new) = SignOf(e, l) * SumOver(Figures(e, l, k), new)
    BY <1>4, <1>5, <1>6, SumScales
  <2> QED
    BY <2>1 DEF Number, new
<1>8. IsFiniteSet(D \cap (1..l))
  BY TermsInt, FS_Subset
<1>9. SumOver(Terms(e), (D \cap (1..l)) \cup new) = SumOver(Terms(e), D \cap (1..l)) + SumOver(Terms(e), new)
  <2> DEFINE old == D \cap (1..l)
  <2>1. IsFiniteSet(old) /\ old \cap new = {} /\ \A i \in old \cup new : Terms(e)[i] \in Int
    BY <1>1, <1>8, TermsInt
  <2> HIDE DEF old
  <2>2. SumOver(Terms(e), old \cup new) = SumOver(Terms(e), old) + SumOver(Terms(e), new)
    BY <1>5, <2>1, SumSplits
  <2> QED
    BY <2>2 DEF old
<1> QED
  BY <1>1, <1>7, <1>9 DEF Sum

\* After k characters cal holds the sum up to the last operator, the number
\* since and the sign of that, all as far as an int can.
Right(e, st, l, k) ==
  /\ After(e, l, k) /\ Same(st.now, Number(e, l, k)) /\ Same(st.ans, Sum(e, l))
  /\ st.la = 1 <=> SignOf(e, l) = 1

LEMMA SumInt == ASSUME NEW e \in Seq(Int), NEW k \in Nat PROVE Sum(e, k) \in Int
<1>1. IsFiniteSet(Digits(e) \cap (1..k))
  BY TermsInt, FS_Subset
<1> DEFINE S == Digits(e) \cap (1..k)
<1>2. \A i \in S : Terms(e)[i] \in Int
  BY TermsInt
<1> HIDE DEF S
<1>3. IsFiniteSet(S)
  BY <1>1 DEF S
<1>4. SumOver(Terms(e), S) \in Int
  BY <1>2, <1>3, SumTakesOut
<1> QED
  BY <1>4 DEF Sum, S

LEMMA AppliedRight ==
  ASSUME NEW e \in Seq(Int), NEW k \in 0..Len(e), NEW l \in 0..k, NEW st \in States, Right(e, st, l, k),
         k = Len(e) \/ k + 1 \in Operators(e)
  PROVE  Same(Applied(st), Sum(e, k))
<1>0. l \in Nat /\ k \in Nat
  OBVIOUS
<1>1. Sum(e, k) = Sum(e, l) + SignOf(e, l) * Number(e, l, k)
  BY NumberEnds DEF Right
<1>2. PICK a, n, s, t \in Int : a = st.ans /\ n = st.now /\ s = Sum(e, l) /\ t = Number(e, l, k)
  BY <1>0, SumInt, FiguresInt DEF States
<1>3. Same(a, s) /\ Same(n, t)
  BY <1>2 DEF Right
<1>4. Same(a + n, s + t) /\ Same(a - n, s - t)
  BY <1>3, SameSums
<1>5. Same(Applied(st), IF st.la = 1 THEN a + n ELSE a - n) /\ Applied(st) \in Int
  BY <1>2, CharFacts DEF Plus
<1>6. CASE st.la = 1
  <2>1. Sum(e, k) = s + t
    <3>1. SignOf(e, l) = 1 /\ 1 * t = t
      BY <1>6 DEF Right
    <3> QED
      BY <1>1, <1>2, <3>1
  <2> QED
    BY <1>4, <1>5, <1>6, <2>1, SameOnce
<1>7. CASE st.la # 1
  <2>1. Sum(e, k) = s - t
    <3>1. SignOf(e, l) = -1 /\ s + (-1) * t = s - t
      BY <1>7 DEF Right, SignOf
    <3> QED
      BY <1>1, <1>2, <3>1
  <2> QED
    BY <1>4, <1>5, <1>7, <2>1, SameOnce
<1> QED
  BY <1>6, <1>7

LEMMA DigitRead ==
  ASSUME NEW e \in Seq(Int), NEW k \in Nat, k + 1 <= Len(e), NEW l \in 0..k
  PROVE  Number(e, l, k + 1) = 10 * Number(e, l, k) + (e[k + 1] - Zero)
<1> DEFINE old == (l + 1)..k
           f == Figures(e, l, k)
           g == Figures(e, l, k + 1)
<1>0. Len(e) \in Nat /\ l \in Nat /\ k \in 0..Len(e) /\ k + 1 \in 0..Len(e) /\ e[k + 1] - Zero \in Int
  BY DEF Zero
<1>1. (l + 1)..(k + 1) = old \cup {k + 1} /\ k + 1 \notin old
  BY <1>0
<1>2. IsFiniteSet(old) /\ (\A i \in old : f[i] \in Int) /\ \A i \in old \cup {k + 1} : g[i] \in Int
  BY <1>0, <1>1, FiguresInt
<1>3. ASSUME NEW i \in old PROVE g[i] = 10 * f[i]
  <2>1. k - i \in Nat /\ (k + 1) - i = (k - i) + 1 /\ e[i] - Zero \in Int
    BY <1>0 DEF Zero
  <2>2. Power(10, (k - i) + 1) = 10 * Power(10, k - i) /\ Power(10, k - i) \in Int
    <3>1. \A n \in Nat : Power(10, n + 1) = 10 * Power(10, n) /\ Power(10, n) \in Int
      <4>1. 10 \in Nat \ {0}
        OBVIOUS
      <4>2. \A n \in Nat : Power(10, n + 1) = 10 * Power(10, n)
        BY <4>1, PowerUnfolds, Zenon
      <4> QED
        BY <4>2, PowerNat
    <3> QED
      BY <2>1, <3>1
  <2>3. f[i] = (e[i] - Zero) * Power(10, k - i) /\ g[i] = (e[i] - Zero) * (10 * Power(10, k - i))
    BY <1>1, <2>1, <2>2 DEF Figures
  <2>4. \A a, b \in Int : a * (10 * b) = 10 * (a * b)
    OBVIOUS
  <2> QED
    BY <2>1, <2>2, <2>3, <2>4
<1>4. g[k + 1] = e[k + 1] - Zero
  <2>1. g[k + 1] = (e[k + 1] - Zero) * Power(10, (k + 1) - (k + 1))
    BY <1>1 DEF Figures
  <2>2. (k + 1) - (k + 1) = 0 /\ \A a \in Int : a * 1 = a
    OBVIOUS
  <2>3. Power(10, 0) = 1
    BY PowerUnfolds
  <2> QED
    BY <1>0, <2>1, <2>2, <2>3
<1> HIDE DEF old, f, g
<1>5. SumOver(g, old) = 10 * SumOver(f, old)
  BY <1>2, <1>3, SumScales
<1>6. SumOver(g, old \cup {k + 1}) = g[k + 1] + SumOver(g, old) /\ SumOver(g, old) \in Int
  BY <1>1, <1>2, SumExtends
<1>7. Number(e, l, k) = SumOver(f, old) /\ Number(e, l, k + 1) = SumOver(g, old \cup {k + 1})
  BY <1>1 DEF Number, old, f, g
<1>8. PICK a, b, c \in Int : a = SumOver(g, old) /\ b = e[k + 1] - Zero /\ c = b + a /\ b + a = a + b
  BY <1>0, <1>6
<1> QED
  BY <1>4, <1>5, <1>6, <1>7, <1>8

LEMMA CharRight ==
  ASSUME NEW e \in Seq(Int), NEW k \in Nat, k + 1 <= Len(e), NEW l \in 0..k,
         NEW st \in States, Right(e, st, l, k)
  PROVE  \E m \in 0..(k + 1) : Right(e, Char(st, e[k + 1]), m, k + 1)
<1>0. Len(e) \in Nat /\ l \in Nat /\ k \in 0..Len(e) /\ k + 1 \in 1..Len(e) /\ e[k + 1] \in Int
  OBVIOUS
<1>1. CASE e[k + 1] \in {Plus, Minus}
  <2>1. k + 1 \in Operators(e)
    BY <1>0, <1>1 DEF Operators
  <2>2. Char(st, e[k + 1]) = [ans |-> Applied(st), now |-> 0, la |-> IF e[k + 1] = Plus THEN 1 ELSE 0]
    BY <1>0, <1>1, CharFacts
  <2>3. Sum(e, k + 1) = Sum(e, k)
    <3>1. Digits(e) \cap (1..(k + 1)) = Digits(e) \cap (1..k)
      BY <1>0, <2>1 DEF Digits
    <3> QED
      BY <3>1 DEF Sum
  <2>4. Same(Applied(st), Sum(e, k + 1))
    BY <1>0, <2>1, <2>3, AppliedRight
  <2>5. Number(e, k + 1, k + 1) = 0
    <3>1. ((k + 1) + 1)..(k + 1) = {}
      OBVIOUS
    <3> QED
      BY <3>1, SumTakesOut, FS_EmptySet DEF Number
  <2>6. After(e, k + 1, k + 1)
    <3>1. ((k + 1) + 1)..(k + 1) = {} /\ k + 1 \in 0..(k + 1)
      OBVIOUS
    <3> QED
      BY <2>1, <3>1 DEF After
  <2>7. SignOf(e, k + 1) = IF e[k + 1] = Plus THEN 1 ELSE -1
    BY <1>0, <1>1 DEF SignOf, Plus, Minus
  <2>8. Same(0, 0)
    BY SameOnce
  <2>9. Right(e, Char(st, e[k + 1]), k + 1, k + 1)
    BY <2>2, <2>4, <2>5, <2>6, <2>7, <2>8 DEF Right
  <2> QED
    BY <1>0, <2>9
<1>2. CASE e[k + 1] \notin {Plus, Minus}
  <2> DEFINE ch == Char(st, e[k + 1])
  <2>1. /\ ch.ans = st.ans /\ ch.la = st.la /\ ch \in States
        /\ Same(ch.now, st.now * 10 + (e[k + 1] - Zero))
    BY <1>0, <1>2, CharFacts
  <2> HIDE DEF ch
  <2>2. PICK n, t, d, c \in Int : n = st.now /\ t = Number(e, l, k) /\ d = e[k + 1] - Zero /\ c = ch.now
    <3>1. Number(e, l, k) \in Int
      BY <1>0, FiguresInt
    <3>2. st.now \in Int /\ ch.now \in Int /\ e[k + 1] - Zero \in Int
      BY <1>0, <2>1 DEF States, Zero
    <3> QED
      BY <3>1, <3>2
  <2>3. Same(n * 10, t * 10) /\ n * 10 \in Int /\ t * 10 \in Int
    <3>1. Same(n, t)
      BY <2>2 DEF Right
    <3>2. Same(n * 10, t * 10)
      BY <2>2, <3>1, SameTens
    <3> QED
      BY SMTT(30), <2>2, <3>2
  <2>4. Same(n * 10 + d, t * 10 + d) /\ n * 10 + d \in Int /\ t * 10 + d \in Int
    <3>1. PICK x, y \in Int : x = n * 10 /\ y = t * 10 /\ Same(x, y)
      BY <2>3
    <3>2. Same(d, d)
      BY <2>2, SameOnce
    <3>3. Same(x + d, y + d)
      BY <2>2, <3>1, <3>2, SameSums
    <3>4. x + d \in Int /\ y + d \in Int
      <4>1. \A a, b \in Int : a + b \in Int
        OBVIOUS
      <4> QED
        BY <2>2, <3>1, <4>1, Zenon
    <3> QED
      BY <3>1, <3>3, <3>4
  <2>5. Same(c, t * 10 + d)
    BY <2>1, <2>2, <2>4, SameOnce
  <2>6. Number(e, l, k + 1) = t * 10 + d
    <3>1. Number(e, l, k + 1) = 10 * t + d
      BY <2>2, DigitRead
    <3> QED
      BY <2>2, <3>1
  <2>7. After(e, l, k + 1)
    <3>1. k + 1 \notin Operators(e)
      BY <1>2 DEF Operators
    <3> QED
      BY <1>0, <3>1 DEF After, Right
  <2>8. Right(e, ch, l, k + 1)
    BY <2>1, <2>2, <2>5, <2>6, <2>7 DEF Right
  <2>9. l \in 0..(k + 1)
    BY <1>0
  <2> QED
    BY <2>8, <2>9 DEF ch
<1> QED
  BY <1>1, <1>2

LEMMA CalRight ==
  ASSUME NEW e \in Seq(Int), NEW state \in [0..Len(e) -> States], Passes(state, e)
  PROVE  \A k \in 0..Len(e) : \E l \in 0..k : Right(e, state[k], l, k)
<1> DEFINE N == {k \in Nat : k <= Len(e) => \E l \in 0..k : Right(e, state[k], l, k)}
<1>0. Len(e) \in Nat
  OBVIOUS
<1>1. 0 \in N
  <2>1. 1..0 = {} /\ (0 + 1)..0 = {} /\ Digits(e) \cap {} = {} /\ 0 \in 0..0
    OBVIOUS
  <2>2. Number(e, 0, 0) = 0 /\ Sum(e, 0) = 0
    BY <2>1, SumTakesOut, FS_EmptySet DEF Number, Sum
  <2>3. Right(e, Start, 0, 0)
    BY <2>1, <2>2, SameOnce DEF Right, Start, After, SignOf
  <2>4. \E l \in 0..0 : Right(e, state[0], l, 0)
    BY <2>1, <2>3 DEF Passes
  <2> QED
    BY <2>4
<1>2. ASSUME NEW k \in N PROVE k + 1 \in N
  <2>1. ASSUME k + 1 <= Len(e) PROVE \E l \in 0..(k + 1) : Right(e, state[k + 1], l, k + 1)
    <3>1. PICK l \in 0..k : Right(e, state[k], l, k)
      BY <1>0, <2>1
    <3>2. state[k] \in States /\ state[k + 1] = Char(state[k], e[k + 1])
      <4>1. k \in 0..Len(e) /\ k + 1 \in 1..Len(e) /\ (k + 1) - 1 = k
        BY <1>0, <2>1
      <4> QED
        BY <4>1 DEF Passes
    <3> QED
      BY <2>1, <3>1, <3>2, CharRight
  <2> QED
    BY <2>1
<1>3. N = Nat
  <2> HIDE DEF N
  <2>1. N \in SUBSET Nat
    BY DEF N
  <2> QED
    BY <1>1, <1>2, <2>1, Induction
<1> QED
  BY <1>0, <1>3

LEMMA CalInts == ASSUME NEW e \in Seq(Int) PROVE Cal(e) \in Ints
<1>1. PICK state \in [0..Len(e) -> States] : Cal(e) = IF e = <<>> THEN 0 ELSE Applied(state[Len(e)])
  BY CalUnfolds
<1>2. 0 \in Ints
  BY HalfType DEF Ints
<1>3. Len(e) \in 0..Len(e) /\ 0 \in Int
  OBVIOUS
<1> QED
  BY <1>1, <1>2, <1>3, CharFacts

\* cal computes the value of every expression whose value fits an int, although
\* sums and numbers on the way may not.
THEOREM CalIsValue == \A e \in Seq(Int) : Value(e) \in Ints => Cal(e) = Value(e)
<1> SUFFICES ASSUME NEW e \in Seq(Int), Value(e) \in Ints PROVE Cal(e) = Value(e)
  OBVIOUS
<1>0. Len(e) \in Nat /\ Len(e) \in 0..Len(e) /\ (e = <<>> <=> Len(e) = 0)
  BY EmptySeq
<1>1. Value(e) = Sum(e, Len(e))
  <2>1. Digits(e) \cap (1..Len(e)) = Digits(e)
    BY DEF Digits
  <2> QED
    BY <2>1 DEF Value, Sum, Terms
<1>2. PICK state \in [0..Len(e) -> States] :
        Passes(state, e) /\ Cal(e) = IF e = <<>> THEN 0 ELSE Applied(state[Len(e)])
  BY CalUnfolds
<1>3. CASE e = <<>>
  <2>1. Digits(e) \cap (1..Len(e)) = {}
    BY <1>0, <1>3
  <2>2. Sum(e, Len(e)) = 0
    BY <2>1, SumTakesOut, FS_EmptySet DEF Sum
  <2> QED
    BY <1>1, <1>2, <1>3, <2>2
<1>4. CASE e # <<>>
  <2>1. PICK l \in 0..Len(e) : Right(e, state[Len(e)], l, Len(e))
    BY <1>0, <1>2, CalRight
  <2>2. Same(Applied(state[Len(e)]), Value(e))
    BY <1>0, <1>1, <2>1, AppliedRight
  <2>3. Applied(state[Len(e)]) \in Ints
    <3>1. state[Len(e)] \in States /\ 0 \in Int
      BY <1>0
    <3> QED
      BY <3>1, CharFacts
  <2> QED
    BY <1>2, <1>4, <2>2, <2>3, SameInts
<1> QED
  BY <1>3, <1>4

(***************************************************************************)
(* The number as a text.                                                   *)
(***************************************************************************)
LEMMA HalfBounded == Half < Power(10, IntBits) /\ Power(10, IntBits) \in Nat
<1> DEFINE N == {n \in Nat : Power(2, n) <= Power(10, n)}
<1>0. /\ 10 \in Nat \ {0} /\ 2 \in Nat \ {0}
      /\ \A n \in Nat : Power(10, n) \in Nat \ {0} /\ Power(2, n) \in Nat \ {0}
  BY PowerType
<1>a. \A n \in Nat : Power(10, n + 1) = 10 * Power(10, n)
  BY <1>0, PowerUnfolds, Zenon
<1>b. \A n \in Nat : Power(2, n + 1) = 2 * Power(2, n)
  BY <1>0, PowerUnfolds, Zenon
<1>1. 0 \in N
  <2>1. Power(2, 0) = 1 /\ Power(10, 0) = 1
    BY <1>0, PowerUnfolds
  <2> QED
    BY <2>1
<1>2. ASSUME NEW n \in N PROVE n + 1 \in N
  <2>1. PICK p, q \in Nat : p = Power(2, n) /\ q = Power(10, n) /\ p <= q
    BY <1>0
  <2>2. 2 * p <= 10 * q
    BY <2>1
  <2> QED
    BY <1>a, <1>b, <2>1, <2>2
<1>3. N = Nat
  <2> HIDE DEF N
  <2>1. N \in SUBSET Nat
    BY DEF N
  <2> QED
    BY <1>1, <1>2, <2>1, Induction
<1>4. IntBits - 1 \in Nat /\ (IntBits - 1) + 1 = IntBits
  BY CalcAssumption
<1>5. PICK p, q \in Nat \ {0} : p = Power(2, IntBits - 1) /\ q = Power(10, IntBits - 1) /\ p <= q
  BY <1>0, <1>3, <1>4
<1>6. Power(10, IntBits) = 10 * q
  BY <1>a, <1>4, <1>5
<1>7. p < 10 * q /\ 10 * q \in Nat
  BY <1>5
<1> QED
  BY <1>5, <1>6, <1>7 DEF Half

LEMMA Quotient ==
  ASSUME NEW x \in Nat, NEW m \in Nat \ {0}
  PROVE  /\ x \div m \in Nat /\ x % m \in 0..(m - 1) /\ x = m * (x \div m) + (x % m)
         /\ \A q, r \in Nat : x = m * q + r /\ r < m => q = x \div m
<1>1. x \div m \in Int /\ x % m \in 0..(m - 1) /\ x = m * (x \div m) + (x % m)
  BY Divides
<1>2. PICK p \in Int, s \in 0..(m - 1) : p = x \div m /\ s = x % m /\ x = m * p + s
  BY <1>1, Zenon
<1>3. p \in Nat
  <2>1. CASE p <= -1
    <3>1. m * p <= -m
      BY <2>1
    <3> QED
      BY <1>2, <3>1
  <2> QED
    BY <2>1
<1>4. ASSUME NEW q \in Nat, NEW r \in Nat, x = m * q + r, r < m PROVE q = p
  <2>1. m * q + r = m * p + s /\ s \in Nat /\ s < m
    BY <1>2, <1>4
  <2>2. CASE q >= p + 1
    <3>1. m * q >= m * p + m
      BY <2>2
    <3> QED
      BY <1>4, <2>1, <3>1
  <2>3. CASE p >= q + 1
    <3>1. m * p >= m * q + m
      BY <2>3
    <3> QED
      BY <1>4, <2>1, <3>1
  <2> QED
    BY <2>2, <2>3
<1> QED
  BY <1>1, <1>2, <1>3, <1>4

LEMMA NextDigit ==
  ASSUME NEW x \in Nat, NEW p \in Nat \ {0}
  PROVE  x \div p = 10 * (x \div (10 * p)) + ((x \div p) % 10)
<1>1. PICK q \in Nat, r \in 0..(p - 1) : q = x \div p /\ x = p * q + r
  <2>1. x \div p \in Nat /\ x % p \in 0..(p - 1) /\ x = p * (x \div p) + (x % p)
    BY Quotient
  <2> QED
    BY <2>1, Zenon
<1>2. PICK u \in Nat, v \in 0..9 : u = q \div 10 /\ v = q % 10 /\ q = 10 * u + v
  <2>1. q \div 10 \in Nat /\ q % 10 \in 0..9 /\ q = 10 * (q \div 10) + (q % 10)
    OBVIOUS
  <2> QED
    BY <2>1, Zenon
<1>3. x = (10 * p) * u + (p * v + r)
  <2>1. \A a, b, c, d \in Int : a * (10 * b + c) + d = (10 * a) * b + (a * c + d)
    OBVIOUS
  <2>2. r \in Int
    OBVIOUS
  <2>3. x = p * (10 * u + v) + r
    BY <1>1, <1>2, Zenon
  <2>4. p * (10 * u + v) + r = (10 * p) * u + (p * v + r)
    BY <1>2, <2>1, <2>2
  <2> QED
    BY <2>3, <2>4
<1>4. p * v + r \in Nat /\ p * v + r < 10 * p /\ 10 * p \in Nat \ {0}
  <2>1. p * v \in Nat /\ p * v <= p * 9
    BY <1>2
  <2> QED
    BY <1>1, <2>1
<1>5. u = x \div (10 * p)
  BY <1>3, <1>4, Quotient
<1> QED
  BY <1>1, <1>2, <1>5

\* How many digits a number has.
Width(n, k) == n < Power(10, k) /\ \A j \in 1..(k - 1) : n >= Power(10, j)

LEMMA MagnitudeFacts ==
  ASSUME NEW n \in 0..Half
  PROVE  \E k \in 1..IntBits : n < Power(10, k) /\
           Magnitude(n) = [i \in 1..k |-> Zero + ((n \div Power(10, k - i)) % 10)]
<1>0. Half \in Nat /\ IntBits \in Nat \ {0} /\ \A i \in Nat : Power(10, i) \in Nat \ {0}
  BY HalfType, CalcAssumption, PowerType
<1> DEFINE S == {k \in Nat : k >= 1 /\ n < Power(10, k)}
<1>1. IntBits \in S
  <2>1. n <= Half /\ Half < Power(10, IntBits) /\ n \in Nat
    BY <1>0, HalfBounded
  <2> QED
    BY <1>0, <2>1
<1>2. PICK k \in S : \A j \in S : k <= j
  <2>1. S \in SUBSET Nat /\ S # {}
    BY <1>1
  <2> HIDE DEF S
  <2> QED
    BY <2>1, Smallest
<1>3. k \in 1..IntBits /\ Width(n, k)
  <2>1. k <= IntBits /\ k \in Nat /\ k >= 1 /\ n < Power(10, k)
    BY <1>1, <1>2
  <2>2. ASSUME NEW j \in 1..(k - 1) PROVE n >= Power(10, j)
    <3>1. j \notin S /\ j \in Nat /\ j >= 1
      BY <1>2, <2>1
    <3>2. ~(n < Power(10, j))
      BY <3>1
    <3> QED
      BY <1>0, <3>1, <3>2
  <2> QED
    BY <1>0, <2>1, <2>2 DEF Width
<1> DEFINE K == CHOOSE x \in 1..IntBits : Width(n, x)
<1>4. K \in 1..IntBits /\ Width(n, K)
  BY <1>3
<1>5. Magnitude(n) = [i \in 1..K |-> Zero + ((n \div Power(10, K - i)) % 10)]
  BY DEF Magnitude, Width
<1> HIDE DEF K
<1> QED
  BY <1>4, <1>5 DEF Width

LEMMA DigitsRead ==
  ASSUME NEW e \in Seq(Int), NEW l \in Nat, NEW n \in Nat, NEW k \in Nat, n < Power(10, k), Len(e) = l + k,
         \A i \in 1..k : e[l + i] = Zero + ((n \div Power(10, k - i)) % 10)
  PROVE  Number(e, l, l + k) = n
<1> DEFINE N == {j \in Nat : j <= k => Number(e, l, l + j) = n \div Power(10, k - j)}
<1>0. \A i \in Nat : Power(10, i) \in Nat \ {0}
  BY PowerNat
<1>1. 0 \in N
  <2>1. (l + 1)..(l + 0) = {} /\ k - 0 = k
    OBVIOUS
  <2>2. Number(e, l, l + 0) = 0
    BY <2>1, SumTakesOut, FS_EmptySet DEF Number
  <2>3. 0 = n \div Power(10, k)
    <3>1. PICK p \in Nat \ {0} : p = Power(10, k)
      BY <1>0
    <3>2. n = p * 0 + n /\ n < p
      BY <3>1
    <3> QED
      BY <3>1, <3>2, Quotient
  <2> QED
    BY <2>1, <2>2, <2>3
<1>2. ASSUME NEW j \in N PROVE j + 1 \in N
  <2>1. ASSUME j + 1 <= k PROVE Number(e, l, l + (j + 1)) = n \div Power(10, k - (j + 1))
    <3>1. PICK a \in Nat : a = k - (j + 1) /\ k - j = a + 1
      BY <2>1
    <3>2. PICK p \in Nat \ {0} : p = Power(10, a) /\ Power(10, a + 1) = 10 * p
      <4>1. 10 \in Nat \ {0}
        OBVIOUS
      <4>2. \A i \in Nat : Power(10, i + 1) = 10 * Power(10, i)
        BY <4>1, PowerUnfolds, Zenon
      <4> QED
        BY <1>0, <4>2
    <3>3. Number(e, l, l + j) = n \div (10 * p)
      BY <2>1, <3>1, <3>2
    <3>4. Number(e, l, (l + j) + 1) = 10 * Number(e, l, l + j) + (e[(l + j) + 1] - Zero)
      <4>1. l + j \in Nat /\ (l + j) + 1 <= Len(e) /\ l \in 0..(l + j)
        BY <2>1
      <4> QED
        BY <4>1, DigitRead
    <3>5. e[(l + j) + 1] - Zero = (n \div p) % 10
      <4>1. j + 1 \in 1..k /\ l + (j + 1) = (l + j) + 1
        BY <2>1
      <4>2. e[l + (j + 1)] = Zero + ((n \div Power(10, k - (j + 1))) % 10)
        BY <4>1
      <4>3. n \div p \in Nat
        BY Quotient
      <4>4. PICK d \in Int : d = (n \div p) % 10
        BY <4>3
      <4> QED
        BY <3>1, <3>2, <4>1, <4>2, <4>4 DEF Zero
    <3>6. n \div p = 10 * (n \div (10 * p)) + ((n \div p) % 10)
      BY NextDigit
    <3>7. l + (j + 1) = (l + j) + 1
      OBVIOUS
    <3> QED
      BY <3>1, <3>2, <3>3, <3>4, <3>5, <3>6, <3>7, Zenon
  <2> QED
    BY <2>1
<1>3. N = Nat
  <2> HIDE DEF N
  <2>1. N \in SUBSET Nat
    BY DEF N
  <2> QED
    BY <1>1, <1>2, <2>1, Induction
<1>4. Number(e, l, l + k) = n \div Power(10, k - k)
  BY SMTT(30), <1>3
<1>5. k - k = 0 /\ Power(10, 0) = 1 /\ n \div 1 = n
  BY PowerUnfolds
<1> QED
  BY <1>4, <1>5

LEMMA MagnitudeText ==
  ASSUME NEW n \in 0..Half
  PROVE  \E k \in Nat \ {0} : /\ Magnitude(n) \in Seq(0..127) /\ Len(Magnitude(n)) = k /\ n < Power(10, k)
           /\ \A i \in 1..k : /\ Magnitude(n)[i] = Zero + ((n \div Power(10, k - i)) % 10)
                              /\ Magnitude(n)[i] \in 48..57
<1>1. PICK k \in 1..IntBits : n < Power(10, k) /\
        Magnitude(n) = [i \in 1..k |-> Zero + ((n \div Power(10, k - i)) % 10)]
  BY MagnitudeFacts
<1>0. n \in Nat /\ k \in Nat \ {0}
  BY HalfType, CalcAssumption
<1>2. ASSUME NEW i \in 1..k PROVE Zero + ((n \div Power(10, k - i)) % 10) \in 48..57
  <2>1. k - i \in Nat
    BY <1>0
  <2>2. PICK q \in Nat : q = n \div Power(10, k - i)
    BY <1>0, <2>1, PowerNat, Quotient
  <2>3. 48 + (q % 10) \in 48..57
    OBVIOUS
  <2> QED
    BY <2>2, <2>3 DEF Zero
<1>3. Magnitude(n) \in [1..k -> 0..127] /\ \A i \in 1..k : Magnitude(n)[i] \in 48..57
  <2>1. 48..57 \subseteq 0..127
    OBVIOUS
  <2> QED
    BY <1>1, <1>2, <2>1
<1>4. Magnitude(n) \in Seq(0..127) /\ Len(Magnitude(n)) = k
  BY <1>0, <1>3
<1> QED
  BY <1>0, <1>1, <1>3, <1>4

LEMMA ValueIsSum == ASSUME NEW e \in Seq(Int) PROVE Value(e) = Sum(e, Len(e))
<1>1. Digits(e) \cap (1..Len(e)) = Digits(e)
  BY DEF Digits
<1> QED
  BY <1>1 DEF Value, Sum, Terms

\* What sprintf writes is a text whose value is the number.
THEOREM DecimalReadsBack == \A n \in Ints : Decimal(n) \in Seq(0..127) /\ Value(Decimal(n)) = n
<1> SUFFICES ASSUME NEW n \in Ints PROVE Decimal(n) \in Seq(0..127) /\ Value(Decimal(n)) = n
  OBVIOUS
<1>0. n \in Int /\ (n >= 0 => n \in 0..Half) /\ (n < 0 => -n \in 0..Half)
  BY HalfType DEF Ints
<1>a. SumOver(Terms(Decimal(n)), {}) = 0
  BY SumTakesOut, FS_EmptySet
<1>1. CASE n >= 0
  <2> DEFINE e == Magnitude(n)
  <2>1. Decimal(n) = e
    BY <1>0, <1>1 DEF Decimal
  <2>2. PICK k \in Nat \ {0} : /\ e \in Seq(0..127) /\ Len(e) = k /\ n < Power(10, k)
          /\ \A i \in 1..k : e[i] = Zero + ((n \div Power(10, k - i)) % 10) /\ e[i] \in 48..57
    BY <1>0, <1>1, MagnitudeText
  <2> HIDE DEF e
  <2>3. e \in Seq(Int) /\ Value(e) = Sum(e, k)
    BY <2>2, CharsAreInts, ValueIsSum
  <2>4. Operators(e) = {}
    <3>1. ASSUME NEW i \in 1..Len(e) PROVE e[i] # 43 /\ e[i] # 45
      <4>1. e[i] \in 48..57
        BY <2>2, Zenon
      <4> QED
        BY <4>1
    <3> QED
      BY <3>1 DEF Operators, Plus, Minus
  <2>5. After(e, 0, k) /\ SignOf(e, 0) = 1
    BY <2>4 DEF After, SignOf
  <2>6. k \in 0..Len(e) /\ 0 \in 0..k
    BY <2>2
  <2>7. Sum(e, k) = Sum(e, 0) + 1 * Number(e, 0, k)
    BY <2>2, <2>3, <2>5, <2>6, NumberEnds
  <2>8. Number(e, 0, 0 + k) = n
    <3>1. \A i \in 1..k : e[0 + i] = Zero + ((n \div Power(10, k - i)) % 10)
      <4>1. \A i \in 1..k : 0 + i = i
        OBVIOUS
      <4> QED
        BY <2>2, <4>1
    <3>2. Len(e) = 0 + k /\ n \in Nat
      BY <1>0, <1>1, <2>2
    <3> QED
      BY <2>2, <2>3, <3>1, <3>2, DigitsRead
  <2>9. Sum(e, 0) = 0
    <3>1. Digits(e) \cap (1..0) = {}
      OBVIOUS
    <3> QED
      BY <1>a, <2>1, <3>1 DEF Sum
  <2>10. 0 + 1 * n = n /\ 0 + k = k
    BY <1>0
  <2> QED
    BY <2>1, <2>2, <2>3, <2>7, <2>8, <2>9, <2>10
<1>2. CASE n < 0
  <2> DEFINE m == Magnitude(-n)
             e == <<Minus>> \o m
  <2>1. Decimal(n) = e
    BY <1>2 DEF Decimal
  <2>2. PICK k \in Nat \ {0} : /\ m \in Seq(0..127) /\ Len(m) = k /\ -n < Power(10, k)
          /\ \A i \in 1..k : m[i] = Zero + (((-n) \div Power(10, k - i)) % 10) /\ m[i] \in 48..57
    BY <1>0, <1>2, MagnitudeText
  <2> HIDE DEF m
  <2>3. e \in Seq(0..127) /\ Len(e) = 1 + k /\ e[1] = Minus /\ \A i \in 1..k : e[1 + i] = m[i]
    BY <2>2 DEF Minus
  <2> HIDE DEF e
  <2>4. e \in Seq(Int) /\ Value(e) = Sum(e, 1 + k)
    BY <2>3, CharsAreInts, ValueIsSum
  <2>5. Operators(e) = {1}
    <3>1. ASSUME NEW j \in 2..(1 + k) PROVE e[j] \in 48..57
      <4>1. j - 1 \in 1..k /\ 1 + (j - 1) = j
        BY <2>2
      <4> QED
        BY <2>2, <2>3, <4>1
    <3>2. 1..Len(e) = {1} \cup (2..(1 + k))
      BY <2>2, <2>3
    <3>3. \A j \in 2..(1 + k) : e[j] # 43 /\ e[j] # 45
      BY <3>1
    <3> QED
      BY <2>3, <3>2, <3>3 DEF Operators, Plus, Minus
  <2>6. After(e, 1, 1 + k) /\ SignOf(e, 1) = -1
    BY <2>2, <2>3, <2>5 DEF After, SignOf
  <2>7. Sum(e, 1 + k) = Sum(e, 1) + (-1) * Number(e, 1, 1 + k)
    <3>1. 1 + k \in 0..Len(e) /\ 1 \in 0..(1 + k)
      BY <2>2, <2>3
    <3> QED
      BY <2>3, <2>4, <2>6, <3>1, NumberEnds
  <2>8. Number(e, 1, 1 + k) = -n
    <3>1. \A i \in 1..k : e[1 + i] = Zero + (((-n) \div Power(10, k - i)) % 10)
      BY <2>2, <2>3
    <3>2. -n \in Nat
      BY <1>0, <1>2
    <3> QED
      BY <2>2, <2>3, <2>4, <3>1, <3>2, DigitsRead
  <2>9. Sum(e, 1) = 0
    <3>1. Digits(e) \cap (1..1) = {}
      BY <2>5 DEF Digits
    <3> QED
      BY <1>a, <2>1, <3>1 DEF Sum
  <2>10. 0 + (-1) * (-n) = n
    BY <1>0
  <2> QED
    BY <2>1, <2>3, <2>4, <2>7, <2>8, <2>9, <2>10
<1> QED
  BY <1>0, <1>1, <1>2

(***************************************************************************)
(* The two messages.                                                       *)
(***************************************************************************)
LEMMA InitFrame == Init => FrameInv
<1> SUFFICES ASSUME Init PROVE FrameInv
  OBVIOUS
<1>1. /\ expr \in Expressions /\ pc["client"] = "write1" /\ pc["server"] = "head"
      /\ rd["client"] = expr /\ rd["server"] = <<>>
      /\ \A s \in Sides : part[s] = <<>> /\ len[s] = 2 /\ chan[s] = <<>>
      /\ DOMAIN pc = Sides /\ DOMAIN rd = Sides /\ DOMAIN part = Sides /\ DOMAIN len = Sides /\ DOMAIN chan = Sides
  BY SidesFacts DEF Init
<1>2. expr \in Seq(Int) /\ <<>> \in Seq(Int) /\ Len(<<>>) = 0
  <2>1. expr \in Seq(0..127)
    BY <1>1, CalcAssumption
  <2> QED
    BY <2>1, CharsAreInts, EmptySeq
<1>3. Types
  BY <1>1, <1>2, SidesFacts DEF Types
<1>4. Rest("server") = <<>> \o (Header(Len(expr)) \o expr)
  BY <1>1, SidesFacts DEF Rest, Unsent
<1>5. Header(Len(expr)) \o expr \in Seq(Int)
  BY <1>1, <1>3, SidesFacts, UnsentSeq
<1>6. Reads("server", expr)
  <2>1. <<>> \o (<<>> \o (Header(Len(expr)) \o expr)) = Header(Len(expr)) \o expr
    BY <1>5, ConcatEmptySeq
  <2> QED
    BY <1>1, <1>2, <1>4, <2>1, SidesFacts, SMTT(30) DEF Reads
<1> QED
  BY <1>1, <1>3, <1>6, SidesFacts DEF FrameInv, Asking

LEMMA ResultSeq ==
  ASSUME expr \in Expressions
  PROVE  Result \in Seq(Int) /\ Len(Result) \in Nat /\ expr \in Seq(Int) /\ Len(expr) \in Nat
<1>1. expr \in Seq(0..127) /\ expr \in Seq(Int)
  BY CalcAssumption, CharsAreInts
<1>2. Result \in Seq(0..127)
  BY <1>1, CalInts, DecimalReadsBack DEF Result
<1> QED
  BY <1>1, <1>2, CharsAreInts, LenProperties

LEMMA StepFrame == FrameInv /\ [Next]_vars => FrameInv'
<1> SUFFICES ASSUME FrameInv, [Next]_vars PROVE FrameInv'
  OBVIOUS
<1>0. DOMAIN pc = Sides
  BY DEF FrameInv
<1>1. CASE UNCHANGED vars
  BY <1>1 DEF vars, FrameInv, Types, Asking, Answering, Reads, Rest, Unsent, Result
<1>2. ASSUME ClientDies \/ ServerSigpipe PROVE FrameInv'
  <2>1. DOMAIN pc' = Sides /\ pc'["client"] = "dead"
    BY <1>0, <1>2, SidesFacts DEF ClientDies, ServerSigpipe
  <2> QED
    BY <2>1 DEF FrameInv
<1>3. ASSUME Step("server"), pc["client"] = "dead" PROVE FrameInv'
  <2>1. DOMAIN pc' = Sides /\ pc'["client"] = "dead"
    BY <1>0, <1>3, SidesFacts DEF Step, WriteLength, WriteText, Write, Read, Finish, AfterHeader
  <2> QED
    BY <2>1 DEF FrameInv
<1>4. ASSUME NEW s \in Sides, WriteLength(s) \/ WriteText(s), pc["client"] # "dead" PROVE FrameInv'
  <2>1. Types /\ \/ pc["server"] \in {"head", "body"} /\ Asking
                 \/ pc["server"] \in {"write1", "write2", "end"} /\ Answering
    BY <1>4 DEF FrameInv
  <2>2. /\ Types' /\ UNCHANGED <<expr, rd, part, len>> /\ chan'[s] = chan[s] /\ pc'[Other(s)] = pc[Other(s)]
        /\ Rest(s)' = Rest(s) /\ Rest(Other(s))' = Rest(Other(s))
        /\ \/ pc[s] = "write1" /\ pc'[s] = "write2"
           \/ /\ pc[s] = "write2" /\ pc'[s] = IF s = "client" THEN "head" ELSE "end"
              /\ chan'[Other(s)] = chan[Other(s)] \o rd[s]
    BY <1>4, <2>1, WriteKeeps
  <2>3. Result' = Result /\ Rest("client")' = Rest("client") /\ Rest("server")' = Rest("server") /\ DOMAIN pc' = Sides
    BY <2>2, SidesFacts DEF Result, Types
  <2>4. CASE s = "client"
    <3>1. /\ pc'["server"] = pc["server"] /\ chan'["client"] = chan["client"]
          /\ \/ pc["client"] = "write1" /\ pc'["client"] = "write2"
             \/ /\ pc["client"] = "write2" /\ pc'["client"] = "head"
                /\ chan'["server"] = chan["server"] \o rd["client"]
      BY <2>2, <2>4, SidesFacts
    <3>2. CASE pc["server"] \in {"head", "body"} /\ Asking
      <4>1. Reads("server", expr)'
        BY <2>2, <2>3, <3>1, <3>2 DEF Asking, Reads
      <4> QED
        BY <2>2, <2>3, <3>1, <3>2, <4>1 DEF FrameInv, Asking
    <3>3. CASE pc["server"] \in {"write1", "write2", "end"} /\ Answering
      <4>1. pc["client"] = "write2" /\ rd["client"] = <<>> /\ chan["server"] = <<>>
        BY <3>1, <3>3 DEF Answering
      <4>2. pc'["client"] = "head" /\ chan'["server"] = <<>>
        BY <3>1, <4>1
      <4>3. Reads("client", Result)'
        BY <2>2, <2>3, <3>3, <4>1, <4>2 DEF Answering, Reads
      <4> QED
        BY <2>2, <2>3, <3>1, <3>3, <4>1, <4>2, <4>3 DEF FrameInv, Answering
    <3> QED
      BY <2>1, <3>2, <3>3
  <2>5. CASE s = "server"
    <3>1. /\ pc'["client"] = pc["client"] /\ chan'["server"] = chan["server"]
          /\ pc["server"] \in {"write1", "write2"} /\ pc'["server"] \in {"write2", "end"}
      BY <2>2, <2>5, SidesFacts
    <3>2. Answering
      BY <2>1, <3>1
    <3>3. pc["client"] # "end" => Reads("client", Result)'
      BY <2>2, <2>3, <3>1, <3>2 DEF Answering, Reads
    <3> QED
      BY <2>2, <2>3, <3>1, <3>2, <3>3 DEF FrameInv, Answering
  <2> QED
    BY <2>4, <2>5, SidesFacts
<1>5. ASSUME Read("server"), pc["client"] # "dead" PROVE FrameInv'
  <2>1. Types /\ pc["server"] \in {"head", "body"} /\ Asking
    BY <1>5 DEF FrameInv, Read
  <2>2. PICK m \in Seq(Int) : m = expr
    BY <2>1, ResultSeq DEF Types
  <2>3. Reads("server", m) /\ "server" \in Sides
    BY <2>1, <2>2, SidesFacts DEF Asking
  <2>4. /\ expr' = expr /\ chan'["server"] \in Seq(Int) /\ part'["server"] \in Seq(Int)
        /\ DOMAIN pc' = Sides /\ DOMAIN rd' = Sides /\ DOMAIN chan' = Sides
        /\ DOMAIN part' = Sides /\ DOMAIN len' = Sides
        /\ \A x \in Sides : x # "server" => /\ pc'[x] = pc[x] /\ rd'[x] = rd[x] /\ chan'[x] = chan[x]
                                     /\ part'[x] = part[x] /\ len'[x] = len[x]
        /\ \/ pc'["server"] \in {"head", "body"} /\ rd' = rd /\ Reads("server", m)'
           \/ Finish("server", m) /\ chan'["server"] = <<>> /\ Unsent(Other("server")) = <<>>
    BY <1>5, <2>1, <2>3, ReadKeeps
  <2>5. /\ pc'["client"] = pc["client"] /\ rd'["client"] = rd["client"] /\ chan'["client"] = chan["client"]
        /\ part'["client"] = part["client"] /\ len'["client"] = len["client"]
    BY <2>4, SidesFacts
  <2>6. CASE pc'["server"] \in {"head", "body"} /\ rd' = rd /\ Reads("server", m)'
    <3>1. Types'
      BY <2>1, <2>4, <2>5, <2>6, SidesFacts DEF Types
    <3>2. Reads("server", expr)'
      BY <2>2, <2>4, <2>6 DEF Reads
    <3> QED
      BY <2>1, <2>4, <2>5, <2>6, <3>1, <3>2 DEF FrameInv, Asking
  <2>7. CASE Finish("server", m) /\ chan'["server"] = <<>> /\ Unsent(Other("server")) = <<>>
    <3>1. pc'["server"] = "write1" /\ rd'["server"] = Result /\ Result' = Result
      BY <2>1, <2>2, <2>4, <2>7, SidesFacts DEF Finish, Result, Types
    <3>2. Result \in Seq(Int) /\ Len(Result) \in Nat
      BY <2>1, ResultSeq DEF Types
    <3>3. Types'
      BY <2>1, <2>4, <2>5, <3>1, <3>2, SidesFacts DEF Types
    <3>4. pc["client"] \in {"write2", "head"} /\ (pc["client"] = "write2" => rd["client"] = <<>>)
      <4>1. Unsent("client") = <<>> /\ pc["client"] \in {"write1", "write2", "head"}
        BY <2>1, <2>7, SidesFacts DEF Asking
      <4>2. pc["client"] # "write1"
        <5>1. /\ rd["client"] \in Seq(Int) /\ Header(Len(rd["client"])) \in Seq(Int)
              /\ Len(Header(Len(rd["client"]))) = 2
          BY <2>1, SidesFacts, LenProperties, HeaderFacts DEF Types
        <5>2. Header(Len(rd["client"])) \o rd["client"] # <<>>
          <6>1. Header(Len(rd["client"])) # <<>>
            BY <5>1, EmptySeq, SMTT(30)
          <6> QED
            BY <5>1, <6>1, ConcatEqualIffEmpty
        <5> QED
          BY <4>1, <5>2 DEF Unsent
      <4> QED
        BY <4>1, <4>2 DEF Unsent
    <3>5. Rest("client")' = Header(Len(Result)) \o Result
      <4>1. Unsent("server")' = Header(Len(Result)) \o Result
        BY <3>1 DEF Unsent
      <4>2. Header(Len(Result)) \o Result \in Seq(Int)
        BY <3>2, HeaderFacts, ConcatProperties
      <4>3. chan'["client"] = <<>>
        BY <2>1, <2>5 DEF Asking
      <4> QED
        BY <4>1, <4>2, <4>3, SidesFacts, ConcatEmptySeq DEF Rest
    <3>6. Reads("client", Result)'
      <4>1. part'["client"] = <<>> /\ len'["client"] = 2 /\ pc'["client"] # "body" /\ Len(<<>>) = 0
        BY <2>1, <2>5, <3>4, EmptySeq DEF Asking
      <4>2. <<>> \o (Header(Len(Result)) \o Result) = Header(Len(Result)) \o Result
        <5>1. Header(Len(Result)) \o Result \in Seq(Int)
          BY <3>2, HeaderFacts, ConcatProperties
        <5> QED
          BY <5>1, ConcatEmptySeq
      <4> QED
        BY <3>1, <3>5, <4>1, <4>2 DEF Reads
    <3> QED
      BY <2>4, <2>5, <2>7, <3>1, <3>3, <3>4, <3>6 DEF FrameInv, Answering
  <2> QED
    BY <2>4, <2>6, <2>7
<1>6. ASSUME Read("client"), pc["client"] # "dead" PROVE FrameInv'
  <2>1. Types /\ pc["client"] \in {"head", "body"} /\ "client" \in Sides
    BY <1>6, SidesFacts DEF FrameInv, Read
  <2>2. pc["server"] \in {"write1", "write2", "end"} /\ Answering
    <3>1. chan["client"] # <<>>
      <4>1. PICK n \in 1..Len(chan["client"]) : TRUE
        BY <1>6 DEF Read
      <4>2. chan["client"] \in Seq(Int)
        BY <2>1 DEF Types
      <4>3. Len(chan["client"]) # 0
        BY <4>1, <4>2, LenProperties
      <4> QED
        BY <4>3, EmptySeq
    <3> QED
      BY <1>6, <3>1 DEF FrameInv, Asking
  <2>3. PICK m \in Seq(Int) : m = Result
    BY <2>1, ResultSeq DEF Types
  <2>4. Reads("client", m)
    BY <2>1, <2>2, <2>3 DEF Answering
  <2>5. /\ expr' = expr /\ chan'["client"] \in Seq(Int) /\ part'["client"] \in Seq(Int)
        /\ DOMAIN pc' = Sides /\ DOMAIN rd' = Sides /\ DOMAIN chan' = Sides
        /\ DOMAIN part' = Sides /\ DOMAIN len' = Sides
        /\ \A x \in Sides : x # "client" => /\ pc'[x] = pc[x] /\ rd'[x] = rd[x] /\ chan'[x] = chan[x]
                                     /\ part'[x] = part[x] /\ len'[x] = len[x]
        /\ \/ pc'["client"] \in {"head", "body"} /\ rd' = rd /\ Reads("client", m)'
           \/ Finish("client", m) /\ chan'["client"] = <<>> /\ Unsent(Other("client")) = <<>>
    BY <1>6, <2>1, <2>4, ReadKeeps
  <2>6. /\ pc'["server"] = pc["server"] /\ rd'["server"] = rd["server"] /\ chan'["server"] = chan["server"]
        /\ part'["server"] = part["server"] /\ len'["server"] = len["server"]
    BY <2>5, SidesFacts
  <2>7. Result' = Result
    BY <2>5 DEF Result
  <2>8. CASE pc'["client"] \in {"head", "body"} /\ rd' = rd /\ Reads("client", m)'
    <3>1. Types'
      BY <2>1, <2>5, <2>6, <2>8, SidesFacts DEF Types
    <3>2. Reads("client", Result)'
      BY <2>3, <2>7, <2>8 DEF Reads
    <3> QED
      BY <2>2, <2>5, <2>6, <2>7, <2>8, <3>1, <3>2 DEF FrameInv, Answering
  <2>9. CASE Finish("client", m) /\ chan'["client"] = <<>> /\ Unsent(Other("client")) = <<>>
    <3>1. pc'["client"] = "end" /\ rd'["client"] = Result
      BY <2>1, <2>3, <2>9, SidesFacts DEF Finish, Types
    <3>2. Result \in Seq(Int)
      BY <2>1, ResultSeq DEF Types
    <3>3. Types'
      BY <2>1, <2>5, <2>6, <3>1, <3>2, SidesFacts DEF Types
    <3>4. Rest("client")' = <<>>
      <4>1. Unsent("server")' = Unsent("server")
        BY <2>6 DEF Unsent
      <4>2. Unsent("server") = <<>>
        BY <2>9, SidesFacts
      <4>3. Rest("client")' = <<>> \o <<>>
        BY <2>9, <4>1, <4>2, SidesFacts DEF Rest
      <4> QED
        BY <4>3
    <3> QED
      BY <2>2, <2>5, <2>6, <2>7, <2>9, <3>1, <3>3, <3>4 DEF FrameInv, Answering
  <2> QED
    BY <2>5, <2>8, <2>9
<1>7. (\E s \in Sides : Step(s)) \/ ClientDies \/ ServerSigpipe \/ UNCHANGED vars
  BY DEF Next
<1> QED
  BY <1>1, <1>2, <1>3, <1>4, <1>5, <1>6, <1>7, SidesFacts DEF Step

\* Wherever TCP cuts the two messages, nothing of them is left over when both
\* programs have ended.
THEOREM NothingIsLeft == Spec => []NothingLeft
<1>1. Spec => []FrameInv
  BY InitFrame, StepFrame, PTL DEF Spec
<1>2. ASSUME FrameInv PROVE NothingLeft
  <2> SUFFICES ASSUME pc["client"] = "end", pc["server"] = "end" PROVE \A s \in Sides : chan[s] = <<>>
    BY DEF NothingLeft
  <2>1. Types /\ Answering
    BY <1>2 DEF FrameInv
  <2>2. chan["client"] \o <<>> = <<>> /\ chan["client"] \in Seq(Int)
    BY <2>1, SidesFacts DEF Answering, Rest, Unsent, Types
  <2>3. chan["client"] = <<>>
    BY <2>2, ConcatEmptySeq
  <2> QED
    BY <2>1, <2>3, SidesFacts DEF Answering
<1> QED
  BY <1>1, <1>2, PTL

PrintsResult == pc["client"] = "end" => rd["client"] = Decimal(Cal(expr))

\* What the client prints is the number that cal computes from exactly the text
\* that was typed, however both messages are cut on the way.
THEOREM ResultArrives == Spec => []PrintsResult
<1>1. Spec => []FrameInv
  BY InitFrame, StepFrame, PTL DEF Spec
<1>2. FrameInv => PrintsResult
  BY DEF FrameInv, Asking, Answering, PrintsResult, Result
<1> QED
  BY <1>1, <1>2, PTL

\* What the client prints is the value of the text that was typed, as long as
\* the sums of cal fit an int, wherever TCP cuts the two messages.
THEOREM ResultIsRight == Spec => []ResultRight
<1>1. Spec => [](FrameInv /\ PrintsResult)
  BY ResultArrives, InitFrame, StepFrame, PTL DEF Spec
<1>2. ASSUME FrameInv, PrintsResult, pc["client"] = "end", InRange(expr)
      PROVE  rd["client"] = Decimal(Value(expr))
  <2>1. expr \in Seq(0..127)
    BY <1>2, CalcAssumption DEF FrameInv, Types
  <2>2. expr \in Seq(Int) /\ Len(expr) \in Nat
    BY <2>1, CharsAreInts
  <2>3. Value(expr) \in Ints
    <3>1. CASE expr = <<>>
      <4>1. Digits(expr) = {}
        BY <3>1 DEF Digits
      <4>2. Value(expr) = 0
        BY <4>1, SumTakesOut, FS_EmptySet DEF Value
      <4> QED
        BY <4>2, HalfType DEF Ints
    <3>2. CASE expr # <<>>
      <4>1. Len(expr) \in 1..Len(expr)
        BY <2>2, <3>2, EmptySeq
      <4>2. SubSeq(expr, 1, Len(expr)) = expr
        BY <2>2, SubSeqFull
      <4> QED
        BY <1>2, <4>1, <4>2 DEF InRange
    <3> QED
      BY <3>1, <3>2
  <2> QED
    BY <1>2, <2>2, <2>3, CalIsValue DEF PrintsResult
<1>3. FrameInv /\ PrintsResult => ResultRight
  BY <1>2 DEF ResultRight
<1> QED
  BY <1>1, <1>3, PTL
===============================================================================
