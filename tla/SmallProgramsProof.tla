--------------------------- MODULE SmallProgramsProof ---------------------------
(***************************************************************************)
(* Proofs about the small programs: what each pair, or parent and children,*)
(* promises, for any sizes of buffers, texts and loops.                    *)
(***************************************************************************)
EXTENDS SmallPrograms, ArithmeticProof, FiniteSetTheorems, SequenceTheorems, TLAPS

(***************************************************************************)
(* Every family keeps to itself.                                           *)
(***************************************************************************)
LEMMA OwnSteps ==
  ASSUME [Next]_vars
  PROVE  /\ program' = program
         /\ program \in EchoPrograms => (EchoNext /\ NotEcho) \/ UNCHANGED vars
         /\ program \in TransferPrograms => (TransferNext /\ NotTransfer) \/ UNCHANGED vars
         /\ program \in DatagramPrograms => (DatagramNext /\ NotDatagram) \/ UNCHANGED vars
         /\ program \in ProcessPrograms => (ProcessNext /\ NotProcess) \/ UNCHANGED vars
<1>1. program' = program
  <2>1. EchoNext => program' = program
    BY DEF EchoNext, Accept, ServerEnds, ServerStep, Type, Read, Show, Quit, Interrupted, Gone,
           RstArrives, progVars
  <2>2. TransferNext => program' = program
    BY DEF TransferNext, TransferServer, TransferClient, SendText, EndStream, ReadThanks,
           ServerCloses, ClientReadsText, Thank, ClientCloses
  <2> QED
    BY <2>1, <2>2 DEF Next, vars, progVars, UrgentNext, DatagramNext, ThreadNext, ProcessNext, Rigid
<1> QED
  BY <1>1 DEF Next, EchoNext, TransferNext, UrgentNext, DatagramNext, ThreadNext, ProcessNext,
     EchoPrograms, TransferPrograms, UrgentPrograms, DatagramPrograms, ThreadPrograms, Adders,
     ProcessPrograms, PipePrograms, ForkPrograms, Thanking, HalfClosing

LEMMA OwnStart ==
  ASSUME Init
  PROVE  /\ program \in EchoPrograms => EchoInit
         /\ program \in TransferPrograms => TransferInit
         /\ program \in DatagramPrograms => DatagramInit
         /\ program \in ProcessPrograms => ProcessInit
BY DEF Init, EchoInit, TransferInit, UrgentInit, DatagramInit, ThreadInit, ProcessInit,
   EchoPrograms, TransferPrograms, UrgentPrograms, DatagramPrograms, ThreadPrograms, Adders,
   ProcessPrograms, PipePrograms, ForkPrograms, Thanking, HalfClosing

(***************************************************************************)
(* Pipes.                                                                  *)
(***************************************************************************)
\* What is in the pipes, and who has heard what, follows from where they are.
PipeInv == program \in PipePrograms =>
  /\ timely \in BOOLEAN
  /\ pc \in [{"parent", "child"} -> {"run", "read", "answer", "end"}]
  /\ pc["child"] \in (IF program = "pipe1" THEN {"run", "end"} ELSE {"run", "read", "end"})
  /\ pc["parent"] \in (IF program = "pipe1" THEN {"read", "end"} ELSE {"read", "answer", "end"})
  /\ printed = [a \in {"parent", "child"} |->
       IF a = "parent" THEN IF pc["parent"] = "read" THEN <<>> ELSE <<Question>>
       ELSE IF program = "pipe1" \/ pc["child"] # "end" THEN <<>>
       ELSE IF pc["parent"] = "read" THEN <<Question>> ELSE <<Answer>>]
  /\ pc["child"] = "run" => pc["parent"] = "read"
  /\ pc["parent"] = "read" /\ pc["child"] = "end" => program = "pipe1" \/ (program = "pipe2" /\ ~timely)
  /\ pc["parent"] = "answer" => pc["child"] = "read"
  /\ pipe = [p \in {1, 2} |->
       IF p = 1 /\ pc["parent"] = "read"
                /\ (pc["child"] = "read" \/ (program = "pipe1" /\ pc["child"] = "end"))
       THEN <<Question>>
       ELSE IF p = Back /\ pc["parent"] = "end" /\ pc["child"] = "read" THEN <<Answer>> ELSE <<>>]

LEMMA InitPipes == Init => PipeInv
<1> SUFFICES ASSUME Init, program \in PipePrograms PROVE PipeInv
  BY DEF PipeInv
<1>1. ProcessInit
  BY OwnStart DEF ProcessPrograms
<1>2. Kids = {"child"}
  BY DEF Kids, PipePrograms
<1>3. pipe = [p \in {1, 2} |-> <<>>]
  BY <1>1 DEF ProcessInit, NoProcesses
<1> QED
  BY <1>1, <1>2, <1>3 DEF ProcessInit, PipeInv, PipePrograms

LEMMA StepPipes == PipeInv /\ [Next]_vars => PipeInv'
<1> SUFFICES ASSUME PipeInv, [Next]_vars, program' \in PipePrograms PROVE PipeInv'
  BY DEF PipeInv
<1>0. program' = program /\ program \in PipePrograms /\ program \in ProcessPrograms
  BY OwnSteps DEF ProcessPrograms
<1>1. CASE UNCHANGED vars
  BY <1>0, <1>1 DEF PipeInv, vars, progVars, processVars, Back
<1>2. CASE PipeStep /\ timely' = timely
  <2>1. Back' = Back
    BY <1>0 DEF Back
  <2>a. /\ \A m : <<m>> # <<>> /\ Head(<<m>>) = m /\ Tail(<<m>>) = <<>> /\ <<>> \o <<m>> = <<m>>
        /\ \A m : Append(<<>>, m) = <<m>>
    OBVIOUS
  <2>2. CASE ChildAsks
    BY <1>0, <1>2, <2>1, <2>2, <2>a DEF PipeInv, ChildAsks, Puts, Moves, PipePrograms, Back
  <2>3. CASE ChildHears
    <3>1. /\ pipe[Back] # <<>> /\ pc["child"] = "read" /\ pc' = [pc EXCEPT !["child"] = "end"]
          /\ printed' = [printed EXCEPT !["child"] = @ \o <<Head(pipe[Back])>>]
          /\ pipe' = [pipe EXCEPT ![Back] = Tail(@)] /\ Slept
      BY <2>3 DEF ChildHears, Takes, Moves, Prints
    <3>2. CASE pc["parent"] = "read"
      <4>1. Back = 1 /\ program = "pipe2" /\ ~timely /\ pipe[1] = <<Question>>
        BY <1>0, <3>1, <3>2 DEF PipeInv, Back, PipePrograms, Slept
      <4>2. <<>> \o <<Head(pipe[1])>> = <<Question>> /\ Tail(pipe[1]) = <<>>
        BY <2>a, <4>1
      <4> QED
        BY <1>0, <1>2, <2>1, <3>1, <3>2, <4>1, <4>2 DEF PipeInv
    <3>3. CASE pc["parent"] = "end"
      <4>1. pipe[Back] = <<Answer>> /\ program # "pipe1" /\ Back \in {1, 2}
        BY <1>0, <3>1, <3>3 DEF PipeInv, Back
      <4>2. <<>> \o <<Head(pipe[Back])>> = <<Answer>> /\ Tail(pipe[Back]) = <<>>
        BY <2>a, <4>1
      <4> QED
        BY <1>0, <1>2, <2>1, <3>1, <3>3, <4>1, <4>2 DEF PipeInv
    <3>4. pc["parent"] \in {"read", "end"}
      BY <1>0, <3>1 DEF PipeInv, Back
    <3> QED
      BY <3>2, <3>3, <3>4
  <2>4. CASE ParentHears
    <3>1. /\ pipe[1] # <<>> /\ pc["parent"] = "read"
          /\ pc' = [pc EXCEPT !["parent"] = IF program = "pipe1" THEN "end" ELSE "answer"]
          /\ printed' = [printed EXCEPT !["parent"] = @ \o <<Head(pipe[1])>>]
          /\ pipe' = [pipe EXCEPT ![1] = Tail(@)]
      BY <2>4 DEF ParentHears, Takes, Moves, Prints
    <3>2. pipe[1] = <<Question>> /\ pc["child"] = (IF program = "pipe1" THEN "end" ELSE "read")
      BY <1>0, <3>1 DEF PipeInv
    <3>3. <<>> \o <<Head(pipe[1])>> = <<Question>> /\ Tail(pipe[1]) = <<>>
      BY <2>a, <3>2
    <3> QED
      BY <1>0, <1>2, <2>1, <3>1, <3>2, <3>3 DEF PipeInv
  <2>5. CASE ParentAnswers
    BY <1>0, <1>2, <2>1, <2>5, <2>a, ZenonT(30) DEF PipeInv, ParentAnswers, Puts, Moves, PipePrograms, Back
  <2> QED
    BY <1>2, <2>2, <2>3, <2>4, <2>5 DEF PipeStep
<1> QED
  BY <1>0, <1>1, <1>2, OwnSteps DEF ProcessNext, ProcessStep, Rigid

\* Over two pipes, or with a sleep that is long enough, the parent hears the
\* question and the child the answer, whoever runs first.
THEOREM PipesAreHeard == Spec => []PipesTalk
<1>1. Spec => []PipeInv
  BY InitPipes, StepPipes, PTL DEF Spec
<1>2. PipeInv => PipesTalk
  <2>1. <<Answer>> # <<Question>> /\ <<>> # <<Question>>
    BY DEF Answer, Question
  <2> QED
    BY <2>1 DEF PipeInv, PipesTalk
<1> QED
  BY <1>1, <1>2, PTL

(***************************************************************************)
(* Children that end.                                                      *)
(***************************************************************************)
Reaped == printed["parent"]
\* SIGCHLDs whose handler has not done its work yet.
Signals == CASE sigchld = "no" -> 0 [] sigchld \in {"pending", "handled"} -> 1 [] OTHER -> 2

ForkTypes ==
  /\ pc \in [Kids \cup {"parent"} -> {"run", "zombie", "gone", "sleep", "end"}]
  /\ pc["parent"] \in {"sleep", "end"} /\ \A k \in Kids : pc[k] \in {"run", "zombie", "gone"}
  /\ DOMAIN printed = Kids \cup {"parent"} /\ Reaped \in Seq(Kids)
  /\ sigchld \in {"no", "pending", "handled", "again"} /\ merged \in Nat

\* A child is reaped once; a parent that waits has not reaped them all before
\* it ends; and each zombie stands for a SIGCHLD, outstanding or merged.
ReapInv == program \in ForkPrograms =>
  /\ ForkTypes
  /\ \A j, k \in 1..Len(Reaped) : Reaped[j] = Reaped[k] => j = k
  /\ \A k \in 1..Len(Reaped) : pc[Reaped[k]] = "gone"
  /\ program \in {"wait", "waitpid"} =>
       IF pc["parent"] = "end" THEN Len(Reaped) = Waits ELSE Len(Reaped) < Waits
  /\ program # "remove_zombie" \/ pc["parent"] = "end" => sigchld = "no"
  /\ program = "remove_zombie" => Cardinality(Zombies) = merged + Signals

LEMMA KidsFacts ==
  /\ "parent" \notin Kids /\ IsFiniteSet(Kids) /\ Waits \in 1..2
  /\ program \in {"wait", "waitpid"} => Kids = IF Waits = 2 THEN {"child", "second"} ELSE {"child"}
<1>1. IsFiniteSet({"child", "second"}) /\ IsFiniteSet({"child"})
  <2>1. IsFiniteSet({"child"})
    BY FS_Singleton
  <2>2. IsFiniteSet({"child"} \cup {"second"})
    BY <2>1, FS_AddElement
  <2>3. {"child", "second"} = {"child"} \cup {"second"}
    OBVIOUS
  <2> QED
    BY <2>1, <2>2, <2>3
<1> QED
  BY <1>1 DEF Kids, Waits

LEMMA InitReap == Init => ReapInv
<1> SUFFICES ASSUME Init, program \in ForkPrograms PROVE ReapInv
  BY DEF ReapInv
<1>1. ProcessInit /\ program \notin PipePrograms
  BY OwnStart DEF ProcessPrograms, PipePrograms, ForkPrograms
<1>2. Reaped = <<>> /\ sigchld = "no" /\ merged = 0
  BY <1>1 DEF ProcessInit, NoProcesses, Reaped
<1>3. ForkTypes
  BY <1>1, <1>2, KidsFacts DEF ForkTypes, ProcessInit
<1>4. Cardinality(Zombies) = 0
  <2>1. Zombies = {}
    BY <1>1, KidsFacts DEF Zombies, ProcessInit
  <2> QED
    BY <2>1, FS_EmptySet
<1> QED
  BY <1>1, <1>2, <1>3, <1>4, KidsFacts DEF ReapInv, ProcessInit, Signals

\* wait, waitpid or the handler takes child k from the zombies.
LEMMA ReapFacts ==
  ASSUME program \in ForkPrograms, ReapInv, NEW k \in Kids, Reaps(k), Kids' = Kids,
         pc'[k] = "gone", \A j \in Kids : j # k => pc'[j] = pc[j]
  PROVE  /\ Len(Reaped') = Len(Reaped) + 1 /\ Reaped' \in Seq(Kids) /\ DOMAIN printed' = DOMAIN printed
         /\ \A i, j \in 1..Len(Reaped') : Reaped'[i] = Reaped'[j] => i = j
         /\ \A j \in 1..Len(Reaped') : pc'[Reaped'[j]] = "gone"
         /\ Cardinality(Zombies) \in Nat /\ Cardinality(Zombies') = Cardinality(Zombies) - 1
<1>1. ForkTypes /\ pc[k] = "zombie"
  BY DEF ReapInv, Reaps, Zombies
<1>2. Reaped' = Append(Reaped, k) /\ DOMAIN printed' = DOMAIN printed
  <2>1. printed' = [printed EXCEPT !["parent"] = Reaped \o <<k>>]
    BY DEF Reaps, Prints, Reaped
  <2>2. Reaped \o <<k>> = Append(Reaped, k)
    BY <1>1 DEF ForkTypes
  <2> QED
    BY <1>1, <2>1, <2>2 DEF Reaped, ForkTypes
<1>3. \A j \in 1..Len(Reaped) : Reaped[j] # k /\ Reaped[j] \in Kids /\ pc[Reaped[j]] = "gone"
  BY <1>1 DEF ReapInv, ForkTypes
<1>4. /\ Len(Reaped') = Len(Reaped) + 1 /\ Reaped' \in Seq(Kids) /\ Len(Reaped) \in Nat
      /\ Reaped'[Len(Reaped) + 1] = k /\ \A j \in 1..Len(Reaped) : Reaped'[j] = Reaped[j]
  BY <1>1, <1>2 DEF ForkTypes
<1>5. \A i, j \in 1..Len(Reaped') : Reaped'[i] = Reaped'[j] => i = j
  BY <1>3, <1>4 DEF ReapInv
<1>6. \A j \in 1..Len(Reaped') : pc'[Reaped'[j]] = "gone"
  BY <1>3, <1>4
<1>7. IsFiniteSet(Zombies) /\ Zombies' = Zombies \ {k} /\ k \in Zombies
  <2>1. IsFiniteSet(Zombies)
    BY KidsFacts, FS_Subset DEF Zombies
  <2> QED
    BY <1>1, <2>1 DEF Zombies
<1>8. Cardinality(Zombies') = Cardinality(Zombies) - 1 /\ Cardinality(Zombies) \in Nat
  BY <1>7, FS_RemoveElement, FS_CardinalityType
<1> QED
  BY <1>2, <1>4, <1>5, <1>6, <1>8

LEMMA StepReap == ReapInv /\ [Next]_vars => ReapInv'
<1> SUFFICES ASSUME ReapInv, [Next]_vars, program' \in ForkPrograms PROVE ReapInv'
  BY DEF ReapInv
<1>0. /\ program' = program /\ program \in ForkPrograms /\ program \in ProcessPrograms
      /\ program \notin PipePrograms /\ Kids' = Kids /\ Waits' = Waits
  BY OwnSteps DEF ProcessPrograms, ForkPrograms, PipePrograms, Kids, Waits
<1>t. ForkTypes
  BY <1>0 DEF ReapInv
<1>1. CASE UNCHANGED vars
  BY <1>0, <1>1 DEF ReapInv, ForkTypes, Reaped, Zombies, Signals, vars, progVars, processVars
<1>2. CASE ForkStep
  <2>1. CASE ParentSleeps
    <3>1. /\ UNCHANGED <<printed, sigchld, merged>> /\ sigchld = "no"
          /\ program \notin {"wait", "waitpid"}
          /\ pc' = pc \/ pc' = [pc EXCEPT !["parent"] = "end"]
      BY <2>1 DEF ParentSleeps, processVars
    <3>2. \A k \in Kids : pc'[k] = pc[k]
      BY <1>t, <3>1, KidsFacts DEF ForkTypes
    <3>3. Zombies' = Zombies /\ Reaped' = Reaped
      BY <1>0, <3>1, <3>2 DEF Zombies, Reaped
    <3>4. ForkTypes'
      BY <1>0, <1>t, <3>1, <3>2, <3>3 DEF ForkTypes
    <3>5. \A k \in 1..Len(Reaped) : Reaped[k] \in Kids
      BY <1>t DEF ForkTypes
    <3> QED
      BY <1>0, <3>1, <3>2, <3>3, <3>4, <3>5 DEF ReapInv, Signals
  <2>2. CASE HandlerStarts
    <3>1. /\ UNCHANGED <<pc, printed, merged>> /\ sigchld = "pending" /\ sigchld' = "handled"
      BY <2>2 DEF HandlerStarts
    <3>2. Zombies' = Zombies /\ Reaped' = Reaped /\ Signals' = Signals
      BY <1>0, <3>1 DEF Zombies, Reaped, Signals
    <3> QED
      BY <1>0, <3>1, <3>2 DEF ReapInv, ForkTypes
  <2>3. ASSUME NEW k \in Kids, ChildExits(k) PROVE ReapInv'
    <3>1. /\ pc[k] = "run" /\ pc' = [pc EXCEPT ![k] = IF pc["parent"] = "end" THEN "gone" ELSE "zombie"]
          /\ printed' = printed
      BY <2>3 DEF ChildExits, Moves
    <3>2. /\ k # "parent" /\ pc'["parent"] = pc["parent"]
          /\ pc'[k] = (IF pc["parent"] = "end" THEN "gone" ELSE "zombie")
          /\ \A j \in Kids : j # k => pc'[j] = pc[j]
      BY <1>t, <3>1, KidsFacts DEF ForkTypes
    <3>3. Reaped' = Reaped /\ \A j \in 1..Len(Reaped) : Reaped[j] \in Kids /\ pc[Reaped[j]] = "gone"
      BY <1>0, <1>t, <3>1 DEF ReapInv, ForkTypes, Reaped
    <3>4. \A j \in 1..Len(Reaped) : pc'[Reaped[j]] = "gone"
      BY <3>1, <3>2, <3>3
    <3>5. IsFiniteSet(Zombies) /\ Cardinality(Zombies) \in Nat /\ k \notin Zombies
      <4>1. IsFiniteSet(Zombies)
        BY KidsFacts, FS_Subset DEF Zombies
      <4> QED
        BY <3>1, <4>1, FS_CardinalityType DEF Zombies
    <3>6. CASE pc["parent"] = "end"
      <4>1. UNCHANGED <<sigchld, merged>>
        BY <2>3, <3>6 DEF ChildExits
      <4>2. Zombies' = Zombies
        BY <1>0, <3>1, <3>2, <3>6 DEF Zombies
      <4>3. ForkTypes'
        BY <1>0, <1>t, <3>1, <3>2, <3>3, <3>6, <4>1 DEF ForkTypes
      <4> QED
        BY <1>0, <3>2, <3>3, <3>4, <4>1, <4>2, <4>3 DEF ReapInv, Signals
    <3>7. CASE pc["parent"] # "end"
      <4>1. Zombies' = Zombies \cup {k}
        BY <1>0, <3>1, <3>2, <3>7 DEF Zombies
      <4>2. Cardinality(Zombies') = Cardinality(Zombies) + 1
        BY <3>5, <4>1, FS_AddElement
      <4>3. IF program # "remove_zombie" THEN UNCHANGED <<sigchld, merged>>
            ELSE /\ sigchld' = IF sigchld \in {"handled", "again"} THEN "again" ELSE "pending"
                 /\ merged' = IF sigchld \in {"pending", "again"} THEN merged + 1 ELSE merged
        BY <2>3, <3>7 DEF ChildExits, Owned
      <4>4. sigchld' \in {"no", "pending", "handled", "again"} /\ merged' \in Nat
        BY <1>t, <4>3 DEF ForkTypes
      <4>5. ForkTypes'
        BY <1>0, <1>t, <3>1, <3>2, <3>3, <3>7, <4>4 DEF ForkTypes
      <4>6. program = "remove_zombie" => merged' + Signals' = merged + Signals + 1
        BY <1>t, <4>3 DEF ForkTypes, Signals
      <4> QED
        BY <1>0, <1>t, <3>2, <3>3, <3>4, <3>5, <3>7, <4>2, <4>3, <4>5, <4>6 DEF ReapInv, ForkTypes, Signals
    <3> QED
      BY <3>6, <3>7
  <2>4. ASSUME NEW k \in Kids, ParentWaits(k) PROVE ReapInv'
    <3>1. /\ program \in {"wait", "waitpid"} /\ pc["parent"] = "sleep" /\ Reaps(k)
          /\ pc' = [pc EXCEPT ![k] = "gone",
                              !["parent"] = IF Len(Reaped') = Waits THEN "end" ELSE @]
          /\ UNCHANGED <<sigchld, merged>>
      BY <2>4 DEF ParentWaits, Reaps, Reaped
    <3>2. /\ k # "parent" /\ pc'[k] = "gone" /\ \A j \in Kids : j # k => pc'[j] = pc[j]
          /\ pc'["parent"] = (IF Len(Reaped') = Waits THEN "end" ELSE "sleep")
      BY <1>t, <3>1, KidsFacts DEF ForkTypes
    <3>3. /\ Len(Reaped') = Len(Reaped) + 1 /\ Reaped' \in Seq(Kids) /\ DOMAIN printed' = DOMAIN printed
          /\ \A i, j \in 1..Len(Reaped') : Reaped'[i] = Reaped'[j] => i = j
          /\ \A j \in 1..Len(Reaped') : pc'[Reaped'[j]] = "gone"
      BY <1>0, <3>1, <3>2, ReapFacts
    <3>4. ForkTypes'
      BY <1>0, <1>t, <3>1, <3>2, <3>3 DEF ForkTypes
    <3>5. Len(Reaped) < Waits /\ Len(Reaped) \in Nat
      BY <1>0, <1>t, <3>1 DEF ReapInv, ForkTypes
    <3>6. IF pc'["parent"] = "end" THEN Len(Reaped') = Waits ELSE Len(Reaped') < Waits
      BY <3>2, <3>3, <3>5, KidsFacts
    <3>7. sigchld' = "no" /\ program' # "remove_zombie"
      BY <1>0, <3>1 DEF ReapInv
    <3> QED
      BY <1>0, <3>3, <3>4, <3>6, <3>7 DEF ReapInv
  <2>5. ASSUME NEW k \in Kids, HandlerReaps(k) PROVE ReapInv'
    <3>1. /\ sigchld \in {"handled", "again"} /\ Reaps(k) /\ pc' = [pc EXCEPT ![k] = "gone"]
          /\ sigchld' = (IF sigchld = "again" THEN "pending" ELSE "no") /\ merged' = merged
      BY <2>5 DEF HandlerReaps, Reaps
    <3>2. /\ k # "parent" /\ pc'[k] = "gone" /\ \A j \in Kids : j # k => pc'[j] = pc[j]
          /\ pc'["parent"] = pc["parent"]
      BY <1>t, <3>1, KidsFacts DEF ForkTypes
    <3>3. /\ Len(Reaped') = Len(Reaped) + 1 /\ Reaped' \in Seq(Kids) /\ DOMAIN printed' = DOMAIN printed
          /\ \A i, j \in 1..Len(Reaped') : Reaped'[i] = Reaped'[j] => i = j
          /\ \A j \in 1..Len(Reaped') : pc'[Reaped'[j]] = "gone"
          /\ Cardinality(Zombies) \in Nat /\ Cardinality(Zombies') = Cardinality(Zombies) - 1
      BY <1>0, <3>1, <3>2, ReapFacts
    <3>4. ForkTypes'
      BY <1>0, <1>t, <3>1, <3>2, <3>3 DEF ForkTypes
    <3>5. program = "remove_zombie" /\ pc["parent"] # "end"
      BY <1>0, <3>1 DEF ReapInv
    <3>6. Signals' = Signals - 1
      BY <3>1 DEF Signals
    <3>7. Cardinality(Zombies') = merged' + Signals'
      BY <1>0, <1>t, <3>1, <3>3, <3>5, <3>6 DEF ReapInv, ForkTypes, Signals
    <3> QED
      BY <1>0, <3>2, <3>3, <3>4, <3>5, <3>7 DEF ReapInv
  <2> QED
    BY <1>2, <2>1, <2>2, <2>3, <2>4, <2>5 DEF ForkStep
<1> QED
  BY <1>0, <1>1, <1>2, OwnSteps DEF ProcessNext, ProcessStep

\* A parent that waits has reaped every child, each once, when it ends; one
\* with a handler keeps exactly as many zombies as SIGCHLDs were merged.
THEOREM EachChildReapedOnce == Spec => []ChildrenReaped
<1>1. Spec => []ReapInv
  BY InitReap, StepReap, PTL DEF Spec
<1>2. ReapInv => ChildrenReaped
  <2> SUFFICES ASSUME ReapInv, program \in ForkPrograms PROVE ChildrenReaped
    BY DEF ChildrenReaped
  <2>1. ForkTypes /\ DOMAIN Reaped = 1..Len(Reaped) /\ Len(Reaped) \in Nat
        /\ \A k \in 1..Len(Reaped) : Reaped[k] \in Kids
    BY DEF ReapInv, ForkTypes
  <2>2. ASSUME program \in {"wait", "waitpid"}, pc["parent"] = "end", NEW k \in Kids
        PROVE  pc[k] = "gone"
    <3>1. Len(Reaped) = Waits
      BY <2>2 DEF ReapInv
    <3>2. \E j \in 1..Len(Reaped) : Reaped[j] = k
      <4>1. CASE Waits = 1
        <5>1. Kids = {"child"} /\ 1 \in 1..Len(Reaped)
          BY <2>2, <3>1, <4>1, KidsFacts
        <5> QED
          BY <2>1, <5>1
      <4>2. CASE Waits = 2
        <5>1. Kids = {"child", "second"} /\ 1 \in 1..Len(Reaped) /\ 2 \in 1..Len(Reaped)
          BY <2>2, <3>1, <4>2, KidsFacts
        <5>2. Reaped[1] # Reaped[2]
          BY <5>1 DEF ReapInv
        <5> QED
          BY <2>1, <5>1, <5>2
      <4> QED
        BY <4>1, <4>2, KidsFacts
    <3> QED
      BY <3>2 DEF ReapInv
  <2>3. program = "remove_zombie" /\ sigchld = "no" => Cardinality(Zombies) = merged
    BY DEF ReapInv, ForkTypes, Signals
  <2> QED
    BY <2>1, <2>2, <2>3 DEF ReapInv, ChildrenReaped, Reaped
<1> QED
  BY <1>1, <1>2, PTL

(***************************************************************************)
(* Bytes on their way.                                                     *)
(***************************************************************************)
LEMMA MinPair ==
  ASSUME NEW a \in Int, NEW b \in Int
  PROVE  Min({a, b}) = IF a <= b THEN a ELSE b
<1>1. \E x \in {a, b} : \A y \in {a, b} : x <= y
  OBVIOUS
<1>2. Min({a, b}) \in {a, b} /\ \A y \in {a, b} : Min({a, b}) <= y
  BY <1>1 DEF Min
<1> QED
  BY <1>2

\* A piece of what is there, and the rest of it.
LEMMA PieceFacts ==
  ASSUME NEW S, NEW q \in Seq(S), NEW n \in 1..Len(q)
  PROVE  /\ SubSeq(q, 1, n) \in Seq(S) /\ SubSeq(q, n + 1, Len(q)) \in Seq(S)
         /\ Len(SubSeq(q, 1, n)) = n /\ SubSeq(q, 1, n) # <<>>
         /\ q = SubSeq(q, 1, n) \o SubSeq(q, n + 1, Len(q))
         /\ SubSeq(q, 1, n)[n] = q[n]
<1>1. Len(q) \in Nat /\ \A j \in 1..Len(q) : q[j] \in S
  BY ElementOfSeq, LenProperties
<1>2. n \in Int /\ 1 \in Int /\ n + 1 \in Int /\ Len(q) \in Int
  BY <1>1
<1>3. /\ SubSeq(q, 1, n) \in Seq(S) /\ Len(SubSeq(q, 1, n)) = n
      /\ \A i \in 1..n : SubSeq(q, 1, n)[i] = q[i]
  BY <1>1, <1>2, SubSeqProperties
<1>4. SubSeq(q, n + 1, Len(q)) \in Seq(S)
  BY <1>1, <1>2, SubSeqProperties
<1>5. SubSeq(q, 1, n) \o SubSeq(q, n + 1, Len(q)) = SubSeq(q, 1, Len(q))
  <2>1. 1 \in 1..(Len(q) + 1) /\ n \in (1 - 1)..Len(q) /\ Len(q) \in n..Len(q)
    BY <1>1
  <2> QED
    BY <2>1, ConcatAdjacentSubSeq
<1>6. SubSeq(q, 1, Len(q)) = q
  BY SubSeqFull
<1>7. SubSeq(q, 1, n) # <<>>
  BY <1>3, EmptySeq
<1>8. SubSeq(q, 1, n)[n] = q[n]
  BY <1>3
<1>9. q = SubSeq(q, 1, n) \o SubSeq(q, n + 1, Len(q))
  BY <1>5, <1>6
<1> QED
  BY <1>3, <1>4, <1>7, <1>8, <1>9

LEMMA Assoc ==
  ASSUME NEW S, NEW s \in Seq(S), NEW t \in Seq(S), NEW u \in Seq(S)
  PROVE  /\ s \o t \in Seq(S) /\ Len(s \o t) = Len(s) + Len(t)
         /\ (s \o t) \o u = s \o (t \o u)
OBVIOUS

LEMMA Neutral ==
  ASSUME NEW S, NEW s \in Seq(S)
  PROVE  s \o <<>> = s /\ <<>> \o s = s /\ <<>> \in Seq(S) /\ Len(<<>>) = 0
OBVIOUS

\* x, and the five places in which bytes may be behind it.
Chain(x, a, b, c, d, e) == ((((x \o a) \o b) \o c) \o d) \o e
Seqs(S, x, a, b, c, d, e, p) == \A s \in {x, a, b, c, d, e, p} : s \in Seq(S)

LEMMA ChainParts ==
  ASSUME NEW S, NEW x, NEW a, NEW b, NEW c, NEW d, NEW e, NEW p, Seqs(S, x, a, b, c, d, e, p)
  PROVE  /\ x \o a \in Seq(S) /\ (x \o a) \o b \in Seq(S) /\ ((x \o a) \o b) \o c \in Seq(S)
         /\ (((x \o a) \o b) \o c) \o d \in Seq(S) /\ Chain(x, a, b, c, d, e) \in Seq(S)
         /\ Len(Chain(x, a, b, c, d, e)) = Len(x) + Len(a) + Len(b) + Len(c) + Len(d) + Len(e)
<1>0. /\ x \in Seq(S) /\ a \in Seq(S) /\ b \in Seq(S) /\ c \in Seq(S) /\ d \in Seq(S)
      /\ e \in Seq(S)
  BY DEF Seqs
<1>1. x \o a \in Seq(S) /\ Len(x \o a) = Len(x) + Len(a)
  BY <1>0, Assoc
<1>2. (x \o a) \o b \in Seq(S) /\ Len((x \o a) \o b) = Len(x \o a) + Len(b)
  BY <1>0, <1>1, Assoc
<1>3. ((x \o a) \o b) \o c \in Seq(S) /\ Len(((x \o a) \o b) \o c) = Len((x \o a) \o b) + Len(c)
  BY <1>0, <1>2, Assoc
<1>4. /\ (((x \o a) \o b) \o c) \o d \in Seq(S)
      /\ Len((((x \o a) \o b) \o c) \o d) = Len(((x \o a) \o b) \o c) + Len(d)
  BY <1>0, <1>3, Assoc
<1>5. /\ ((((x \o a) \o b) \o c) \o d) \o e \in Seq(S)
      /\ Len(((((x \o a) \o b) \o c) \o d) \o e) = Len((((x \o a) \o b) \o c) \o d) + Len(e)
  BY <1>0, <1>4, Assoc
<1> QED
  BY <1>1, <1>2, <1>3, <1>4, <1>5 DEF Chain

\* What is behind x does not depend on it.
LEMMA ChainFirst ==
  ASSUME NEW S, NEW x, NEW a, NEW b, NEW c, NEW d, NEW e, Seqs(S, x, a, b, c, d, e, <<>>)
  PROVE  Chain(x, a, b, c, d, e) = x \o Chain(<<>>, a, b, c, d, e)
<1>x. x \in Seq(S)
  BY DEF Seqs
<1>a. a \in Seq(S)
  BY DEF Seqs
<1>b. b \in Seq(S)
  BY DEF Seqs
<1>c. c \in Seq(S)
  BY DEF Seqs
<1>d. d \in Seq(S)
  BY DEF Seqs
<1>e. e \in Seq(S)
  BY DEF Seqs
<1>1. <<>> \o a = a
  BY <1>a, Neutral
<1>2. a \o b \in Seq(S)
  BY <1>a, <1>b, ConcatProperties
<1>3. (a \o b) \o c \in Seq(S)
  BY <1>c, <1>2, ConcatProperties
<1>4. ((a \o b) \o c) \o d \in Seq(S)
  BY <1>d, <1>3, ConcatProperties
<1>5. (x \o a) \o b = x \o (a \o b)
  BY <1>x, <1>a, <1>b, Assoc
<1>6. (x \o (a \o b)) \o c = x \o ((a \o b) \o c)
  BY SMTT(30), <1>x, <1>c, <1>2, Assoc
<1>7. (x \o ((a \o b) \o c)) \o d = x \o (((a \o b) \o c) \o d)
  <2>1. \A q \in Seq(S) : (x \o q) \o d = x \o (q \o d)
    BY <1>x, <1>d, Assoc
  <2> QED
    BY <1>3, <2>1
<1>8. (x \o (((a \o b) \o c) \o d)) \o e = x \o ((((a \o b) \o c) \o d) \o e)
  <2>1. \A q \in Seq(S) : (x \o q) \o e = x \o (q \o e)
    BY <1>x, <1>e, Assoc
  <2> QED
    BY <1>4, <2>1
<1> QED
  BY <1>1, <1>5, <1>6, <1>7, <1>8 DEF Chain

\* Bytes that move on from one place to the one before it.
LEMMA ChainMoves ==
  ASSUME NEW S, NEW x, NEW a, NEW b, NEW c, NEW d, NEW e, NEW p, Seqs(S, x, a, b, c, d, e, p)
  PROVE  /\ Chain(x \o p, a, b, c, d, e) = Chain(x, p \o a, b, c, d, e)
         /\ Chain(x, a \o p, b, c, d, e) = Chain(x, a, p \o b, c, d, e)
         /\ Chain(x, a, b \o p, <<>>, d, e) = Chain(x, a, b, p, d, e)
         /\ Chain(x, a, b, p, d, e) = Chain(x, a, b, <<>>, p \o d, e)
         /\ Chain(x, a, b, c, d \o p, e) = Chain(x, a, b, c, d, p \o e)
         /\ Chain(x, a, b, c, d, e \o p) = Chain(x, a, b, c, d, e) \o p
<1>x. x \in Seq(S)
  BY DEF Seqs
<1>a. a \in Seq(S)
  BY DEF Seqs
<1>b. b \in Seq(S)
  BY DEF Seqs
<1>c. c \in Seq(S)
  BY DEF Seqs
<1>d. d \in Seq(S)
  BY DEF Seqs
<1>e. e \in Seq(S)
  BY DEF Seqs
<1>p. p \in Seq(S)
  BY DEF Seqs
<1>1. x \o a \in Seq(S)
  BY ChainParts
<1>2. (x \o a) \o b \in Seq(S)
  BY ChainParts
<1>3. ((x \o a) \o b) \o c \in Seq(S)
  BY ChainParts
<1>4. (((x \o a) \o b) \o c) \o d \in Seq(S)
  BY ChainParts
<1>5. (x \o p) \o a = x \o (p \o a)
  BY <1>x, <1>p, <1>a, Assoc
<1>6. (x \o a) \o p = x \o (a \o p)
  BY <1>x, <1>p, <1>a, Assoc
<1>7. ((x \o a) \o p) \o b = (x \o a) \o (p \o b)
  <2>1. \A q \in Seq(S) : (q \o p) \o b = q \o (p \o b)
    BY <1>p, <1>b, Assoc
  <2> QED
    BY <1>1, <2>1
<1>8. ((x \o a) \o b) \o p = (x \o a) \o (b \o p)
  <2>1. \A q \in Seq(S) : (q \o p) \o b = q \o (p \o b)
    BY <1>p, <1>b, Assoc
  <2> QED
    BY <1>1, <2>1
<1>9. (((x \o a) \o b) \o p) \o <<>> = ((x \o a) \o b) \o p
  <2>1. ((x \o a) \o b) \o p \in Seq(S)
    BY <1>2, <1>p, ConcatProperties
  <2> QED
    BY <2>1, Neutral
<1>10. ((x \o a) \o b) \o <<>> = (x \o a) \o b
  BY <1>2, Neutral
<1>11. (((x \o a) \o b) \o p) \o d = ((x \o a) \o b) \o (p \o d)
  <2>1. \A q \in Seq(S) : (q \o p) \o d = q \o (p \o d)
    BY <1>p, <1>d, Assoc
  <2> QED
    BY <1>2, <2>1
<1>12. ((((x \o a) \o b) \o c) \o d) \o p = (((x \o a) \o b) \o c) \o (d \o p)
  <2>1. \A q \in Seq(S) : (q \o p) \o d = q \o (p \o d)
    BY <1>p, <1>d, Assoc
  <2> DEFINE r == ((x \o a) \o b) \o c
  <2>2. r \in Seq(S)
    BY <1>3
  <2> HIDE DEF r
  <2>3. (r \o p) \o d = r \o (p \o d)
    BY <2>1, <2>2
  <2> QED
    BY <2>3 DEF r
<1>13. (((((x \o a) \o b) \o c) \o d) \o p) \o e = ((((x \o a) \o b) \o c) \o d) \o (p \o e)
  <2>1. \A q \in Seq(S) : (q \o p) \o e = q \o (p \o e)
    BY <1>p, <1>e, Assoc
  <2> DEFINE r == (((x \o a) \o b) \o c) \o d
  <2>2. r \in Seq(S)
    BY <1>4
  <2> HIDE DEF r
  <2>3. (r \o p) \o e = r \o (p \o e)
    BY <2>1, <2>2
  <2> QED
    BY <2>3 DEF r
<1>14. (((((x \o a) \o b) \o c) \o d) \o e) \o p = ((((x \o a) \o b) \o c) \o d) \o (e \o p)
  <2>1. \A q \in Seq(S) : (q \o p) \o e = q \o (p \o e)
    BY <1>p, <1>e, Assoc
  <2> DEFINE r == (((x \o a) \o b) \o c) \o d
  <2>2. r \in Seq(S)
    BY <1>4
  <2> HIDE DEF r
  <2>3. (r \o p) \o e = r \o (p \o e)
    BY <2>1, <2>2
  <2> QED
    BY <2>3, SMTT(30) DEF r
<1>15. Chain(x \o p, a, b, c, d, e) = Chain(x, p \o a, b, c, d, e)
  BY <1>5 DEF Chain
<1>16. Chain(x, a \o p, b, c, d, e) = Chain(x, a, p \o b, c, d, e)
  BY <1>6, <1>7 DEF Chain
<1>17. Chain(x, a, b \o p, <<>>, d, e) = Chain(x, a, b, p, d, e)
  BY <1>8, <1>9 DEF Chain
<1>18. Chain(x, a, b, p, d, e) = Chain(x, a, b, <<>>, p \o d, e)
  BY <1>10, <1>11 DEF Chain
<1>19. Chain(x, a, b, c, d \o p, e) = Chain(x, a, b, c, d, p \o e)
  BY <1>12, <1>13 DEF Chain
<1>20. Chain(x, a, b, c, d, e \o p) = Chain(x, a, b, c, d, e) \o p
  BY <1>14 DEF Chain
<1> QED
  BY <1>15, <1>16, <1>17, <1>18, <1>19, <1>20

(***************************************************************************)
(* The echo servers that serve one client after the other.                 *)
(***************************************************************************)
Bytes == Chars \cup {Newline}

EchoTypes ==
  /\ DOMAIN pc = Sides
  /\ pc["server"] \in {"accept", "read", "write", "last", "close", "end", "dead"}
  /\ pc["client"] \in {"none", "prompt", "read", "print", "gone"}
  /\ stream \in [Sides -> Seq(Bytes)] /\ file \in [Sides -> Seq(Bytes)]
  /\ buf \in [Sides -> Seq(Bytes)] /\ printed \in [Sides -> Seq(Bytes)] /\ text \in Seq(Bytes)
  /\ fin \subseteq Sides /\ closed \subseteq Sides /\ reset \in {"no", "coming", "here", "told"}

\* What the client has in hand, and the server.
Showing == IF pc["client"] = "print" THEN buf["client"] ELSE <<>>
Writing == IF pc["server"] = "write" THEN buf["server"] ELSE <<>>
Behind(x) == Chain(x, file["client"], stream["client"], Writing, file["server"], stream["server"])
Coming == Behind(<<>>)
IsLine(m) == Len(m) \in 1..(BUF_SIZE - 1) /\ \A k \in 1..(Len(m) - 1) : m[k] # Newline

\* While a client is connected.  The one that reads lines has one under way,
\* from the prompt to the answer.
UpInv ==
  /\ pc["server"] \in {"read", "write"} /\ fin = {} /\ closed = {} /\ reset = "no"
  /\ pc["server"] = "write" => buf["server"] # <<>>
  /\ program # "stdio" => file["server"] = <<>> /\ file["client"] = <<>>
  /\ text = Behind(printed["client"] \o Showing)
  /\ program = "stdio" => IF pc["client"] = "read" THEN IsLine(Coming) ELSE Coming = <<>>

\* After one that has its whole echo nothing is left for the server to read, so
\* it writes once more at most, and before the RST.
GoneInv == printed["client"] = text =>
  \/ pc["server"] \in {"accept", "end", "close"}
  \/ /\ pc["server"] \in {"read", "last"} /\ reset = "no" /\ "client" \in fin
     /\ stream["server"] = <<>> /\ file["server"] = <<>>

EchoInv == program \in EchoPrograms =>
  /\ EchoTypes
  /\ Connected => UpInv
  /\ ~Connected => GoneInv

LEMMA EchoPieces ==
  ASSUME EchoTypes, NEW s \in Sides, NEW most \in Nat, NEW n \in Pieces(s, most)
  PROVE  n \in 1..Len(stream[s])
<1>1. Len(stream[s]) \in Nat
  BY DEF EchoTypes
<1>2. Min({most, Len(stream[s])}) <= Len(stream[s]) /\ Min({most, Len(stream[s])}) \in Nat
  BY <1>1, MinPair
<1> QED
  BY <1>1, <1>2 DEF Pieces

LEMMA LineEnds ==
  ASSUME NEW f \in Seq(Bytes), NEW k \in LineEnd(f)
  PROVE  k \in 1..Len(f) /\ (f[k] = Newline \/ k = BUF_SIZE - 1)
<1>1. Len(f) \in Nat /\ BUF_SIZE - 1 \in Nat
  BY EchoAssumption
<1>2. Min({Len(f), BUF_SIZE - 1}) <= Len(f) /\ Min({Len(f), BUF_SIZE - 1}) \in Nat
  BY <1>1, MinPair
<1> QED
  BY <1>1, <1>2 DEF LineEnd

\* What moves from one buffer to the next is a sequence of bytes, and so is
\* what stays behind.
LEMMA Moving ==
  ASSUME EchoTypes, NEW s \in Sides
  PROVE  /\ \A most \in Nat : \A n \in Pieces(s, most) :
              /\ Piece(s, n) \in Seq(Bytes) /\ Piece(s, n) # <<>>
              /\ SubSeq(stream[s], n + 1, Len(stream[s])) \in Seq(Bytes)
              /\ stream[s] = Piece(s, n) \o SubSeq(stream[s], n + 1, Len(stream[s]))
         /\ \A k \in LineEnd(file[s]) :
              /\ SubSeq(file[s], 1, k) \in Seq(Bytes) /\ SubSeq(file[s], 1, k) # <<>>
              /\ SubSeq(file[s], k + 1, Len(file[s])) \in Seq(Bytes)
              /\ file[s] = SubSeq(file[s], 1, k) \o SubSeq(file[s], k + 1, Len(file[s]))
<1>1. stream[s] \in Seq(Bytes) /\ file[s] \in Seq(Bytes)
  BY DEF EchoTypes
<1>2. ASSUME NEW most \in Nat, NEW n \in Pieces(s, most)
      PROVE  /\ Piece(s, n) \in Seq(Bytes) /\ Piece(s, n) # <<>>
             /\ SubSeq(stream[s], n + 1, Len(stream[s])) \in Seq(Bytes)
             /\ stream[s] = Piece(s, n) \o SubSeq(stream[s], n + 1, Len(stream[s]))
  <2>1. n \in 1..Len(stream[s])
    BY EchoPieces
  <2> QED
    BY <1>1, <2>1, PieceFacts, ZenonT(30) DEF Piece
<1>3. ASSUME NEW k \in LineEnd(file[s])
      PROVE  /\ SubSeq(file[s], 1, k) \in Seq(Bytes) /\ SubSeq(file[s], 1, k) # <<>>
             /\ SubSeq(file[s], k + 1, Len(file[s])) \in Seq(Bytes)
             /\ file[s] = SubSeq(file[s], 1, k) \o SubSeq(file[s], k + 1, Len(file[s]))
  <2>1. k \in 1..Len(file[s])
    BY <1>1, LineEnds
  <2> QED
    BY ZenonT(30), <1>1, <2>1, PieceFacts
<1> QED
  BY <1>2, <1>3

LEMMA InitEcho == Init => EchoInv
<1> SUFFICES ASSUME Init, program \in EchoPrograms PROVE EchoInv
  BY DEF EchoInv
<1>1. EchoInit
  BY OwnStart
<1>2. PICK c \in Chars : buf \in {[s \in Sides |-> <<>>], [server |-> <<c>>, client |-> <<>>]}
  BY <1>1 DEF EchoInit
<1>3. buf \in [Sides -> Seq(Bytes)]
  <2>1. <<c>> \in Seq(Bytes) /\ <<>> \in Seq(Bytes)
    BY DEF Bytes
  <2>2. CASE buf = [s \in Sides |-> <<>>]
    BY <2>1, <2>2
  <2>3. CASE buf = [server |-> <<c>>, client |-> <<>>]
    <3>1. buf = [s \in Sides |-> IF s = "server" THEN <<c>> ELSE <<>>]
      BY <2>3 DEF Sides
    <3> QED
      BY <2>1, <3>1
  <2> QED
    BY <1>2, <2>2, <2>3
<1>4. EchoTypes
  BY <1>1, <1>3 DEF EchoInit, EchoTypes, NoConnection, Sides
<1> QED
  BY <1>1, <1>4 DEF EchoInit, EchoInv, Connected, GoneInv

\* write, whether the peer is there or not.
LEMMA WritesType ==
  ASSUME EchoTypes, NEW s \in Sides, NEW m \in Seq(Bytes), Writes(s, m)
  PROVE  /\ stream' \in [Sides -> Seq(Bytes)] /\ UNCHANGED <<fin, closed>>
         /\ reset' \in {"no", "coming", "here", "told"}
         /\ reset = "no" => reset' \in {"no", "coming"}
<1>1. CASE Peer(s) \notin closed /\ m # <<>>
  <2>1. Peer(s) \in Sides
    BY DEF Peer, Sides
  <2>2. stream[Peer(s)] \o m \in Seq(Bytes)
    <3>1. stream[Peer(s)] \in Seq(Bytes)
      BY <2>1 DEF EchoTypes
    <3> QED
      BY <3>1, ConcatProperties
  <2> QED
    BY <1>1, <2>2 DEF Writes, EchoTypes
<1>2. CASE ~(Peer(s) \notin closed /\ m # <<>>)
  BY <1>2 DEF Writes, EchoTypes, netVars
<1> QED
  BY <1>1, <1>2

LEMMA ClosesType ==
  ASSUME EchoTypes, NEW s \in Sides, Closes(s)
  PROVE  /\ stream' \in [Sides -> Seq(Bytes)] /\ fin' \subseteq Sides /\ closed' \subseteq Sides
         /\ reset' \in {"no", "coming", "here", "told"}
<1>1. <<>> \in Seq(Bytes)
  OBVIOUS
<1> QED
  BY <1>1 DEF Closes, EchoTypes

LEMMA GoesType ==
  ASSUME EchoTypes, NEW s \in Sides, NEW to, NEW m \in Seq(Bytes), Goes(s, to, m),
         to \in (IF s = "server" THEN {"accept", "read", "write", "last", "close", "end", "dead"}
                 ELSE {"none", "prompt", "read", "print", "gone"})
  PROVE  /\ DOMAIN pc' = Sides
         /\ pc'["server"] \in {"accept", "read", "write", "last", "close", "end", "dead"}
         /\ pc'["client"] \in {"none", "prompt", "read", "print", "gone"}
         /\ buf' \in [Sides -> Seq(Bytes)]
         /\ pc'[s] = to /\ buf'[s] = m /\ pc'[Peer(s)] = pc[Peer(s)] /\ buf'[Peer(s)] = buf[Peer(s)]
<1> QED
  BY DEF Goes, EchoTypes, Sides, Peer

\* What fgets on a FILE does to it.
LEMMA FillsType ==
  ASSUME EchoTypes, NEW s \in Sides, Fills(s)
  PROVE  \E n \in Pieces(s, Len(stream[s])) :
           /\ stream' = Without(s, n) /\ file' = [file EXCEPT ![s] = @ \o Piece(s, n)]
           /\ stream' \in [Sides -> Seq(Bytes)] /\ file' \in [Sides -> Seq(Bytes)]
           /\ UNCHANGED <<pc, buf, fin, closed, reset>>
<1>1. PICK n \in Pieces(s, Len(stream[s])) :
        stream' = Without(s, n) /\ file' = [file EXCEPT ![s] = @ \o Piece(s, n)]
  BY DEF Fills
<1>2. Len(stream[s]) \in Nat
  BY DEF EchoTypes
<1>3. Piece(s, n) \in Seq(Bytes) /\ SubSeq(stream[s], n + 1, Len(stream[s])) \in Seq(Bytes)
  BY <1>2, Moving
<1>4. file[s] \o Piece(s, n) \in Seq(Bytes)
  <2>1. file[s] \in Seq(Bytes)
    BY DEF EchoTypes
  <2> QED
    BY <1>3, <2>1, ConcatProperties
<1> QED
  BY <1>1, <1>3, <1>4 DEF Fills, Without, EchoTypes

LEMMA GetsType ==
  ASSUME EchoTypes, NEW s \in Sides, NEW to, Gets(s, to), to = (IF s = "server" THEN "write" ELSE "print")
  PROVE  \E k \in LineEnd(file[s]) :
           /\ Goes(s, to, SubSeq(file[s], 1, k))
           /\ file' = [file EXCEPT ![s] = SubSeq(@, k + 1, Len(@))]
           /\ SubSeq(file[s], 1, k) \in Seq(Bytes) /\ file' \in [Sides -> Seq(Bytes)]
           /\ UNCHANGED netVars
<1>1. PICK k \in LineEnd(file[s]) :
        Goes(s, to, SubSeq(file[s], 1, k)) /\ file' = [file EXCEPT ![s] = SubSeq(@, k + 1, Len(@))]
  BY DEF Gets
<1>2. SubSeq(file[s], 1, k) \in Seq(Bytes) /\ SubSeq(file[s], k + 1, Len(file[s])) \in Seq(Bytes)
  BY Moving
<1> QED
  BY <1>1, <1>2 DEF Gets, EchoTypes

\* One line from the terminal.
LEMMA TypedType ==
  ASSUME NEW m \in Typed
  PROVE  m \in Seq(Bytes) /\ m # <<>> /\ IsLine(m)
<1>1. PICK n \in 1..(BUF_SIZE - 1) : m \in [1..n -> Chars \cup {Newline}]
  BY DEF Typed
<1>2. m \in Seq(Bytes) /\ Len(m) = n
  BY <1>1, EchoAssumption DEF Bytes
<1>3. m # <<>>
  BY <1>2, EmptySeq
<1> QED
  BY <1>1, <1>2, <1>3 DEF Typed, IsLine

LEMMA ServerTypes ==
  ASSUME EchoTypes, ServerStep
  PROVE  EchoTypes'
<1>0. /\ UNCHANGED <<text, printed>> /\ buf["server"] \in Seq(Bytes) /\ "server" \in Sides
      /\ BUF_SIZE \in Nat
  BY EchoAssumption DEF ServerStep, EchoTypes, Sides
<1>1. ASSUME NEW n \in 1..BUF_SIZE, ReadsBytes(n) PROVE EchoTypes'
  <2>1. Piece("server", n) \in Seq(Bytes) /\ SubSeq(stream["server"], n + 1, Len(stream["server"])) \in Seq(Bytes)
    BY <1>0, <1>1, Moving DEF ReadsBytes
  <2>2. stream' \in [Sides -> Seq(Bytes)]
    BY <1>1, <2>1 DEF ReadsBytes, Without, EchoTypes
  <2>3. Goes("server", "write", Piece("server", n))
    BY <1>1 DEF ReadsBytes
  <2> QED
    BY <1>0, <1>1, <2>1, <2>2, <2>3, GoesType DEF ReadsBytes, EchoTypes
<1>2. CASE ReadsError
  BY <1>0, <1>2 DEF ReadsError, EchoTypes
<1>3. CASE ReadsEof \/ StdClose
  <2>1. Goes("server", "accept", buf["server"]) /\ Closes("server") /\ UNCHANGED file
    BY <1>3 DEF ReadsEof, StdClose
  <2> QED
    BY <1>0, <2>1, GoesType, ClosesType DEF EchoTypes
<1>4. CASE Fills("server")
  BY <1>0, <1>4, FillsType DEF EchoTypes
<1>5. CASE Gets("server", "write")
  <2>1. PICK k \in LineEnd(file["server"]) :
          /\ Goes("server", "write", SubSeq(file["server"], 1, k))
          /\ SubSeq(file["server"], 1, k) \in Seq(Bytes) /\ file' \in [Sides -> Seq(Bytes)]
          /\ UNCHANGED netVars
    BY <1>0, <1>5, GetsType
  <2> QED
    BY <1>0, <2>1, GoesType DEF EchoTypes, netVars
<1>6. CASE GetsNull("server", IF AtEof("server") THEN "last" ELSE "write")
  <2>1. \E to \in {"last", "write"} : Goes("server", to, buf["server"])
    BY <1>6 DEF GetsNull
  <2> QED
    BY <1>0, <1>6, <2>1, GoesType DEF GetsNull, EchoTypes
<1>7. CASE WriteBack
  <2>1. Writes("server", buf["server"])
    BY <1>7 DEF WriteBack, WritesBack
  <2> QED
    BY <1>0, <1>7, <2>1, WritesType DEF WriteBack, WritesBack, EchoTypes
<1>8. CASE Dies
  BY <1>0, <1>8 DEF Dies, EchoTypes, netVars
<1> QED
  BY <1>1, <1>2, <1>3, <1>4, <1>5, <1>6, <1>7, <1>8 DEF ServerStep, StdServer, ReadServer

LEMMA ClientTypes ==
  ASSUME EchoTypes, Type \/ Read \/ Show \/ Quit \/ Interrupted
  PROVE  EchoTypes'
<1>0. /\ "client" \in Sides /\ Peer("client") = "server" /\ BUF_SIZE - 1 \in Nat
      /\ buf["client"] \in Seq(Bytes) /\ text \in Seq(Bytes) /\ printed["client"] \in Seq(Bytes)
      /\ <<>> \in Seq(Bytes)
  BY EchoAssumption DEF EchoTypes, Sides, Peer
<1>1. CASE Type
  <2>1. PICK m \in Typed : Writes("client", m) /\ text' = text \o m /\ Goes("client", "read", m)
    BY <1>1 DEF Type
  <2>2. m \in Seq(Bytes)
    BY TypedType
  <2>3. text' \in Seq(Bytes)
    BY <1>0, <2>1, <2>2, ConcatProperties
  <2> QED
    BY <1>0, <1>1, <2>1, <2>2, <2>3, GoesType, WritesType DEF Type, EchoTypes
<1>2. CASE Read /\ program = "stdio" /\ Fills("client")
  BY <1>0, <1>2, FillsType DEF Read, EchoTypes
<1>3. CASE Read /\ program = "stdio" /\ Gets("client", "print")
  <2>1. PICK k \in LineEnd(file["client"]) :
          /\ Goes("client", "print", SubSeq(file["client"], 1, k))
          /\ SubSeq(file["client"], 1, k) \in Seq(Bytes) /\ file' \in [Sides -> Seq(Bytes)]
          /\ UNCHANGED netVars
    BY <1>0, <1>3, GetsType
  <2> QED
    BY <1>0, <1>3, <2>1, GoesType DEF Read, EchoTypes, netVars
<1>4. ASSUME Read, NEW n \in Pieces("client", BUF_SIZE - 1),
             Goes("client", "print", Piece("client", n)), stream' = Without("client", n),
             UNCHANGED <<fin, closed, reset, file>>
      PROVE  EchoTypes'
  <2>1. Piece("client", n) \in Seq(Bytes) /\ SubSeq(stream["client"], n + 1, Len(stream["client"])) \in Seq(Bytes)
    BY <1>0, Moving
  <2>2. stream' \in [Sides -> Seq(Bytes)]
    BY <1>4, <2>1 DEF Without, EchoTypes
  <2> QED
    BY <1>0, <1>4, <2>1, <2>2, GoesType DEF Read, EchoTypes
<1>5. CASE Show
  <2>1. printed["client"] \o buf["client"] \in Seq(Bytes)
    BY <1>0, ConcatProperties
  <2>2. Goes("client", "prompt", <<>>)
    BY <1>5 DEF Show
  <2> QED
    BY <1>0, <1>5, <2>1, <2>2, GoesType DEF Show, EchoTypes, netVars, echoVars
<1>6. CASE Quit \/ Interrupted
  <2>1. /\ pc' = [pc EXCEPT !["client"] = "gone"] /\ UNCHANGED <<buf, text, printed, file>>
        /\ Closes("client")
    BY <1>6 DEF Quit, Interrupted, Gone, echoVars
  <2>2. /\ stream' \in [Sides -> Seq(Bytes)] /\ fin' \subseteq Sides /\ closed' \subseteq Sides
        /\ reset' \in {"no", "coming", "here", "told"}
    BY <1>0, <2>1, ClosesType
  <2> QED
    BY <2>1, <2>2 DEF EchoTypes, Sides
<1> QED
  BY <1>1, <1>2, <1>3, <1>4, <1>5, <1>6 DEF Read, ClientReads

LEMMA PartsSeqs ==
  ASSUME EchoTypes, NEW x \in Seq(Bytes), NEW p \in Seq(Bytes)
  PROVE  /\ Seqs(Bytes, x, file["client"], stream["client"], Writing, file["server"], stream["server"], p)
         /\ Showing \in Seq(Bytes) /\ printed["client"] \o Showing \in Seq(Bytes) /\ Behind(x) \in Seq(Bytes)
<1>1. /\ file["client"] \in Seq(Bytes) /\ stream["client"] \in Seq(Bytes) /\ Writing \in Seq(Bytes)
      /\ file["server"] \in Seq(Bytes) /\ stream["server"] \in Seq(Bytes) /\ Showing \in Seq(Bytes)
      /\ printed["client"] \in Seq(Bytes)
  BY DEF EchoTypes, Sides, Writing, Showing
<1>2. Seqs(Bytes, x, file["client"], stream["client"], Writing, file["server"], stream["server"], p)
  BY <1>1 DEF Seqs
<1>3. printed["client"] \o Showing \in Seq(Bytes)
  BY <1>1, ConcatProperties
<1>4. Behind(x) \in Seq(Bytes)
  BY <1>2, ChainParts DEF Behind
<1> QED
  BY <1>1, <1>2, <1>3, <1>4

\* A step of the server that leaves the bytes in their order.
LEMMA UpKept ==
  ASSUME EchoTypes, UpInv, UNCHANGED <<program, text, printed>>, pc'["client"] = pc["client"],
         Showing' = Showing, fin' = {}, closed' = {}, reset' = "no",
         pc'["server"] \in {"read", "write"}, pc'["server"] = "write" => buf'["server"] # <<>>,
         program # "stdio" => file'["server"] = <<>> /\ file'["client"] = <<>>,
         \A x \in Seq(Bytes) :
           Chain(x, file'["client"], stream'["client"], Writing', file'["server"], stream'["server"]) = Behind(x)
  PROVE  UpInv'
<1>1. <<>> \in Seq(Bytes)
  OBVIOUS
<1>2. printed["client"] \o Showing \in Seq(Bytes)
  BY <1>1, PartsSeqs
<1>3. Coming' = Coming
  BY <1>1 DEF Coming, Behind
<1>4. text' = Behind(printed["client"] \o Showing)'
  BY <1>2 DEF UpInv, Behind
<1>5. IsLine(Coming)' = IsLine(Coming)
  BY <1>3 DEF IsLine
<1> QED
  BY <1>3, <1>4, <1>5 DEF UpInv

LEMMA ServerUp ==
  ASSUME program \in EchoPrograms, EchoTypes, UpInv, ServerStep
  PROVE  UpInv' /\ pc'["client"] = pc["client"]
<1>0. /\ UNCHANGED <<program, text, printed>> /\ "server" \in Sides /\ "client" \in Sides /\ BUF_SIZE \in Nat
      /\ Peer("server") = "client" /\ Peer("client") = "server" /\ <<>> \in Seq(Bytes)
  BY EchoAssumption DEF ServerStep, Sides, Peer
<1>1. /\ fin = {} /\ closed = {} /\ reset = "no" /\ pc["server"] \in {"read", "write"}
      /\ program # "stdio" => file["server"] = <<>> /\ file["client"] = <<>>
      /\ pc["server"] = "write" => buf["server"] # <<>>
  BY DEF UpInv
<1>2. ~AtEof("server") /\ ~AtError("server") /\ \A m : ~Sigpipe(m)
  BY <1>0, <1>1 DEF AtEof, AtError, Sigpipe
<1> DEFINE a == file["client"]  b == stream["client"]  d == file["server"]  e == stream["server"]
<1>3. ASSUME program # "stdio", pc["server"] = "read", NEW n \in 1..BUF_SIZE, ReadsBytes(n)
      PROVE  UpInv' /\ pc'["client"] = pc["client"]
  <2> DEFINE m == Piece("server", n)  r == SubSeq(e, n + 1, Len(e))
  <2>1. m \in Seq(Bytes) /\ m # <<>> /\ r \in Seq(Bytes) /\ e = m \o r
    BY <1>0, <1>3, Moving DEF ReadsBytes
  <2>2. /\ pc'["server"] = "write" /\ buf'["server"] = m /\ pc'["client"] = pc["client"]
        /\ buf'["client"] = buf["client"]
    <3>1. Goes("server", "write", m)
      BY <1>3 DEF ReadsBytes
    <3> QED
      BY <1>0, <2>1, <3>1, GoesType
  <2>3. /\ file' = file /\ stream'["server"] = r /\ stream'["client"] = b
        /\ UNCHANGED <<fin, closed, reset>>
    BY <1>0, <1>3 DEF ReadsBytes, Without, EchoTypes
  <2>4. Writing = <<>> /\ Writing' = m /\ d = <<>> /\ Showing' = Showing
    BY <1>1, <1>3, <2>2 DEF Writing, Showing
  <2> HIDE DEF m, r
  <2>5. ASSUME NEW x \in Seq(Bytes)
        PROVE  Chain(x, file'["client"], stream'["client"], Writing', file'["server"], stream'["server"])
               = Behind(x)
    <3>1. Seqs(Bytes, x, a, b, Writing, d, r, m)
      <4>1. Seqs(Bytes, x, a, b, Writing, d, e, m)
        BY <2>1, PartsSeqs
      <4> QED
        BY <2>1, <4>1 DEF Seqs
    <3>2. m \o d = m /\ d \o m = m
      BY <2>1, <2>4, Neutral
    <3>3. Chain(x, a, b, Writing, d, m \o r) = Chain(x, a, b, Writing, d \o m, r)
      BY <3>1, ChainMoves
    <3>4. Chain(x, a, b, m, d, r) = Chain(x, a, b, <<>>, m \o d, r)
      BY <3>1, ChainMoves
    <3> QED
      BY <2>1, <2>3, <2>4, <3>2, <3>3, <3>4 DEF Behind
  <2> QED
    BY <1>0, <1>1, <2>1, <2>2, <2>3, <2>4, <2>5, UpKept
<1>4. ASSUME program = "stdio", pc["server"] = "read", Fills("server")
      PROVE  UpInv' /\ pc'["client"] = pc["client"]
  <2>1. Len(e) \in Nat
    BY <1>0 DEF EchoTypes
  <2>2. PICK n \in Pieces("server", Len(e)) :
          /\ stream' = Without("server", n) /\ file' = [file EXCEPT !["server"] = @ \o Piece("server", n)]
          /\ UNCHANGED <<pc, buf, fin, closed, reset>>
    BY <1>0, <1>4, FillsType
  <2> DEFINE m == Piece("server", n)  r == SubSeq(e, n + 1, Len(e))
  <2>3. m \in Seq(Bytes) /\ r \in Seq(Bytes) /\ e = m \o r
    BY <1>0, <2>1, Moving
  <2>4. /\ file'["client"] = a /\ file'["server"] = d \o m
        /\ stream'["server"] = r /\ stream'["client"] = b
    BY <1>0, <2>2 DEF Without, EchoTypes, Sides
  <2>5. Writing' = Writing /\ Showing' = Showing
    BY <2>2 DEF Writing, Showing
  <2> HIDE DEF m, r
  <2>6. ASSUME NEW x \in Seq(Bytes)
        PROVE  Chain(x, file'["client"], stream'["client"], Writing', file'["server"], stream'["server"])
               = Behind(x)
    <3>1. Seqs(Bytes, x, a, b, Writing, d, r, m)
      <4>1. Seqs(Bytes, x, a, b, Writing, d, e, m)
        BY <2>3, PartsSeqs
      <4> QED
        BY <2>3, <4>1 DEF Seqs
    <3>2. Chain(x, a, b, Writing, d \o m, r) = Chain(x, a, b, Writing, d, m \o r)
      BY <3>1, ChainMoves
    <3> QED
      BY <2>3, <2>4, <2>5, <3>2 DEF Behind
  <2> QED
    BY <1>0, <1>1, <1>4, <2>2, <2>5, <2>6, UpKept
<1>5. ASSUME program = "stdio", pc["server"] = "read", Gets("server", "write")
      PROVE  UpInv' /\ pc'["client"] = pc["client"]
  <2>1. PICK k \in LineEnd(d) :
          /\ Goes("server", "write", SubSeq(d, 1, k)) /\ SubSeq(d, 1, k) \in Seq(Bytes)
          /\ file' = [file EXCEPT !["server"] = SubSeq(@, k + 1, Len(@))] /\ UNCHANGED netVars
    BY <1>0, <1>5, GetsType
  <2> DEFINE m == SubSeq(d, 1, k)  r == SubSeq(d, k + 1, Len(d))
  <2>2. m \in Seq(Bytes) /\ m # <<>> /\ r \in Seq(Bytes) /\ d = m \o r
    BY <1>0, Moving
  <2>3. /\ pc'["server"] = "write" /\ buf'["server"] = m /\ pc'["client"] = pc["client"]
        /\ buf'["client"] = buf["client"]
    <3>1. Goes("server", "write", m)
      BY <2>1
    <3> HIDE DEF m
    <3> QED
      BY <1>0, <2>2, <3>1, GoesType
  <2>4. file'["client"] = a /\ file'["server"] = r /\ UNCHANGED <<stream, fin, closed, reset>>
    BY <1>0, <2>1 DEF EchoTypes, Sides, netVars
  <2>5. Writing = <<>> /\ Writing' = m /\ Showing' = Showing
    BY <1>5, <2>3 DEF Writing, Showing
  <2> HIDE DEF m, r
  <2>6. ASSUME NEW x \in Seq(Bytes)
        PROVE  Chain(x, file'["client"], stream'["client"], Writing', file'["server"], stream'["server"])
               = Behind(x)
    <3>1. Seqs(Bytes, x, a, b, <<>>, r, e, m)
      <4>1. Seqs(Bytes, x, a, b, Writing, d, e, m)
        BY <2>2, PartsSeqs
      <4> QED
        BY <1>0, <2>2, <4>1 DEF Seqs
    <3>2. Chain(x, a, b, m, r, e) = Chain(x, a, b, <<>>, m \o r, e)
      BY <3>1, ChainMoves
    <3> QED
      BY <2>2, <2>4, <2>5, <3>2 DEF Behind
  <2> QED
    BY <1>0, <1>1, <1>5, <2>2, <2>3, <2>4, <2>5, <2>6, UpKept
<1>6. ASSUME pc["server"] = "write", WriteBack
      PROVE  UpInv' /\ pc'["client"] = pc["client"]
  <2> DEFINE m == buf["server"]
  <2>1. /\ Writes("server", m) /\ UNCHANGED <<buf, file>>
        /\ pc' = [pc EXCEPT !["server"] = "read"]
    BY <1>6 DEF WriteBack, WritesBack
  <2>2. stream' = [stream EXCEPT !["client"] = @ \o m] /\ UNCHANGED <<fin, closed, reset>>
    BY <1>0, <1>1, <1>6, <2>1 DEF Writes
  <2>3. stream'["client"] = b \o m /\ stream'["server"] = e /\ m \in Seq(Bytes)
    BY <1>0, <2>2 DEF EchoTypes, Sides
  <2>4. pc'["client"] = pc["client"] /\ pc'["server"] = "read"
    BY <1>0, <2>1 DEF EchoTypes, Sides
  <2>5. Writing = m /\ Writing' = <<>> /\ Showing' = Showing
    BY <1>6, <2>1, <2>4 DEF Writing, Showing
  <2> HIDE DEF m
  <2>6. ASSUME NEW x \in Seq(Bytes)
        PROVE  Chain(x, file'["client"], stream'["client"], Writing', file'["server"], stream'["server"])
               = Behind(x)
    <3>1. Seqs(Bytes, x, a, b, <<>>, d, e, m)
      <4>1. Seqs(Bytes, x, a, b, Writing, d, e, m)
        BY <2>3, PartsSeqs
      <4> QED
        BY <1>0, <4>1 DEF Seqs
    <3>2. Chain(x, a, b \o m, <<>>, d, e) = Chain(x, a, b, m, d, e)
      BY <3>1, ChainMoves
    <3> QED
      BY <2>1, <2>3, <2>5, <3>2 DEF Behind
  <2> QED
    BY <1>0, <1>1, <2>1, <2>2, <2>4, <2>5, <2>6, UpKept
<1>7. CASE pc["server"] = "read"
  <2>1. IF program = "stdio" THEN StdServer ELSE ReadServer
    BY <1>7 DEF ServerStep, WriteBack, WritesBack, Dies, StdClose
  <2> QED
    BY <1>2, <1>3, <1>4, <1>5, <1>7, <2>1 DEF StdServer, ReadServer, GetsNull, ReadsError, ReadsEof
<1>8. CASE pc["server"] = "write"
  BY <1>2, <1>6, <1>8 DEF ServerStep, Dies, StdClose
<1> QED
  BY <1>1, <1>7, <1>8

LEMMA ClientUp ==
  ASSUME program \in EchoPrograms, EchoTypes, UpInv, Type \/ Read \/ Show
  PROVE  UpInv' /\ Connected'
<1> DEFINE a == file["client"]  b == stream["client"]  d == file["server"]  e == stream["server"]
           h == printed["client"]
<1>0. /\ "server" \in Sides /\ "client" \in Sides /\ BUF_SIZE - 1 \in Nat
      /\ Peer("server") = "client" /\ Peer("client") = "server" /\ <<>> \in Seq(Bytes)
      /\ h \in Seq(Bytes) /\ h \o <<>> = h /\ buf["client"] \in Seq(Bytes)
  <2>1. h \in Seq(Bytes) /\ buf["client"] \in Seq(Bytes)
    BY DEF EchoTypes, Sides
  <2> QED
    BY <2>1, Neutral, EchoAssumption DEF Sides, Peer
<1>1. /\ fin = {} /\ closed = {} /\ reset = "no" /\ pc["server"] \in {"read", "write"}
      /\ program # "stdio" => d = <<>> /\ a = <<>>
      /\ pc["server"] = "write" => buf["server"] # <<>>
      /\ text = Behind(h \o Showing)
  BY DEF UpInv
<1>2. CASE Type
  <2>1. PICK m \in Typed : Writes("client", m) /\ text' = text \o m /\ Goes("client", "read", m)
    BY <1>2 DEF Type
  <2>2. m \in Seq(Bytes) /\ m # <<>> /\ IsLine(m)
    BY TypedType
  <2>3. /\ pc'["client"] = "read" /\ buf'["client"] = m /\ pc'["server"] = pc["server"]
        /\ buf'["server"] = buf["server"]
    BY <1>0, <2>1, <2>2, GoesType
  <2>4. stream' = [stream EXCEPT !["server"] = @ \o m] /\ UNCHANGED <<fin, closed, reset, file, printed, program>>
    BY <1>0, <1>1, <1>2, <2>1, <2>2 DEF Writes, Type
  <2>5. stream'["server"] = e \o m /\ stream'["client"] = b
    BY <1>0, <2>4 DEF EchoTypes, Sides
  <2>6. Writing' = Writing /\ Showing = <<>> /\ Showing' = <<>> /\ pc["client"] = "prompt"
    BY <1>2, <2>3 DEF Writing, Showing, Type
  <2>7. ASSUME NEW x \in Seq(Bytes)
        PROVE  Chain(x, file'["client"], stream'["client"], Writing', file'["server"], stream'["server"])
               = Behind(x) \o m
    <3>1. Seqs(Bytes, x, a, b, Writing, d, e, m)
      BY <2>2, PartsSeqs
    <3>2. Chain(x, a, b, Writing, d, e \o m) = Chain(x, a, b, Writing, d, e) \o m
      BY <3>1, ChainMoves
    <3> QED
      BY <2>4, <2>5, <2>6, <3>2 DEF Behind
  <2>8. text' = Behind(h \o Showing)'
    BY <1>0, <1>1, <2>1, <2>4, <2>6, <2>7 DEF Behind
  <2>9. program = "stdio" => IsLine(Coming)'
    <3>1. Coming' = Coming \o m
      BY <1>0, <2>7 DEF Coming, Behind
    <3>2. program = "stdio" => Coming' = m
      BY <2>2, <2>6, <3>1, Neutral DEF UpInv
    <3> QED
      BY <2>2, <3>2 DEF IsLine
  <2> QED
    BY <1>1, <2>3, <2>4, <2>8, <2>9 DEF UpInv, Connected
<1>3. CASE Read
  <2>0. /\ pc["client"] = "read" /\ UNCHANGED <<program, text, printed>> /\ Showing = <<>>
        /\ text = Behind(h)
    BY <1>0, <1>1, <1>3 DEF Read, Showing
  <2>1. CASE program # "stdio"
    <3>1. PICK n \in Pieces("client", BUF_SIZE - 1) :
            /\ Goes("client", "print", Piece("client", n)) /\ stream' = Without("client", n)
            /\ UNCHANGED <<fin, closed, reset, file>>
      BY <1>3, <2>1 DEF Read, ClientReads
    <3> DEFINE m == Piece("client", n)  r == SubSeq(b, n + 1, Len(b))
    <3>2. m \in Seq(Bytes) /\ r \in Seq(Bytes) /\ b = m \o r
      BY <1>0, Moving
    <3>3. Goes("client", "print", m) /\ stream'["client"] = r /\ stream'["server"] = e
      BY <1>0, <3>1 DEF Without, EchoTypes, Sides
    <3> HIDE DEF m, r
    <3>4. /\ pc'["client"] = "print" /\ buf'["client"] = m /\ pc'["server"] = pc["server"]
          /\ buf'["server"] = buf["server"]
      BY <1>0, <3>2, <3>3, GoesType
    <3>5. Writing' = Writing /\ Showing' = m
      BY <3>4 DEF Writing, Showing
    <3>6. Seqs(Bytes, h, a, r, Writing, d, e, m)
      <4>1. Seqs(Bytes, h, a, b, Writing, d, e, m)
        BY <1>0, <3>2, PartsSeqs
      <4> QED
        BY <3>2, <4>1 DEF Seqs
    <3>7. Chain(h \o m, a, r, Writing, d, e) = Chain(h, m \o a, r, Writing, d, e)
      BY <3>6, ChainMoves
    <3>8. Chain(h, a \o m, r, Writing, d, e) = Chain(h, a, m \o r, Writing, d, e)
      BY <3>6, ChainMoves
    <3>9. m \o a = m /\ a \o m = m
      BY <1>1, <2>1, <3>2, Neutral
    <3>10. text' = Behind(h \o Showing)'
      BY <2>0, <3>1, <3>2, <3>3, <3>5, <3>7, <3>8, <3>9 DEF Behind
    <3> QED
      BY <1>1, <2>0, <2>1, <3>1, <3>4, <3>10 DEF UpInv, Connected
  <2>2. CASE program = "stdio" /\ Fills("client")
    <3>1. Len(b) \in Nat
      BY <1>0 DEF EchoTypes
    <3>2. PICK n \in Pieces("client", Len(b)) :
            /\ stream' = Without("client", n) /\ file' = [file EXCEPT !["client"] = @ \o Piece("client", n)]
            /\ UNCHANGED <<pc, buf, fin, closed, reset>>
      BY <1>0, <2>2, FillsType
    <3> DEFINE m == Piece("client", n)  r == SubSeq(b, n + 1, Len(b))
    <3>3. m \in Seq(Bytes) /\ r \in Seq(Bytes) /\ b = m \o r
      BY <1>0, <3>1, Moving
    <3>4. /\ file'["client"] = a \o m /\ file'["server"] = d
          /\ stream'["client"] = r /\ stream'["server"] = e
      BY <1>0, <3>2 DEF Without, EchoTypes, Sides
    <3>5. Writing' = Writing /\ Showing' = Showing
      BY <3>2 DEF Writing, Showing
    <3> HIDE DEF m, r
    <3>6. ASSUME NEW x \in Seq(Bytes)
          PROVE  Chain(x, file'["client"], stream'["client"], Writing', file'["server"], stream'["server"])
                 = Behind(x)
      <4>1. Seqs(Bytes, x, a, r, Writing, d, e, m)
        <5>1. Seqs(Bytes, x, a, b, Writing, d, e, m)
          BY <3>3, PartsSeqs
        <5> QED
          BY <3>3, <5>1 DEF Seqs
      <4>2. Chain(x, a \o m, r, Writing, d, e) = Chain(x, a, m \o r, Writing, d, e)
        BY <4>1, ChainMoves
      <4> QED
        BY <3>3, <3>4, <3>5, <4>2 DEF Behind
    <3> QED
      BY <1>0, <1>1, <2>0, <2>2, <3>2, <3>5, <3>6, UpKept DEF Connected
  <2>3. CASE program = "stdio" /\ Gets("client", "print")
    <3>1. PICK k \in LineEnd(a) :
            /\ Goes("client", "print", SubSeq(a, 1, k)) /\ SubSeq(a, 1, k) \in Seq(Bytes)
            /\ file' = [file EXCEPT !["client"] = SubSeq(@, k + 1, Len(@))] /\ UNCHANGED netVars
      BY <1>0, <2>3, GetsType
    <3> DEFINE m == SubSeq(a, 1, k)  r == SubSeq(a, k + 1, Len(a))
    <3>2. m \in Seq(Bytes) /\ r \in Seq(Bytes) /\ a = m \o r
      BY <1>0, Moving
    <3>3. Len(m) = k /\ k \in Nat \ {0} /\ (m[k] = Newline \/ k = BUF_SIZE - 1)
      <4>1. a \in Seq(Bytes)
        BY <1>0 DEF EchoTypes
      <4>2. k \in 1..Len(a) /\ (a[k] = Newline \/ k = BUF_SIZE - 1)
        BY <4>1, LineEnds
      <4> QED
        BY <4>1, <4>2, PieceFacts, LenProperties
    <3>4. Goes("client", "print", m) /\ file'["client"] = r /\ file'["server"] = d
      BY <1>0, <3>1 DEF EchoTypes, Sides
    <3>5. UNCHANGED <<stream, fin, closed, reset>>
      BY <3>1 DEF netVars
    <3> HIDE DEF m, r
    <3>6. /\ pc'["client"] = "print" /\ buf'["client"] = m /\ pc'["server"] = pc["server"]
          /\ buf'["server"] = buf["server"]
      BY <1>0, <3>2, <3>4, GoesType
    <3>7. Writing' = Writing /\ Showing' = m
      BY <3>6 DEF Writing, Showing
    <3>8. ASSUME NEW x \in Seq(Bytes)
          PROVE  Chain(x \o m, file'["client"], stream'["client"], Writing', file'["server"], stream'["server"])
                 = Behind(x)
      <4>1. Seqs(Bytes, x, r, b, Writing, d, e, m)
        <5>1. Seqs(Bytes, x, a, b, Writing, d, e, m)
          BY <3>2, PartsSeqs
        <5> QED
          BY <3>2, <5>1 DEF Seqs
      <4>2. Chain(x \o m, r, b, Writing, d, e) = Chain(x, m \o r, b, Writing, d, e)
        BY <4>1, ChainMoves
      <4> QED
        BY <3>2, <3>4, <3>5, <3>7, <4>2 DEF Behind
    <3>9. text' = Behind(h \o Showing)'
      BY <1>0, <2>0, <3>7, <3>8 DEF Behind
    <3>10. Coming = m \o Coming' /\ Coming' \in Seq(Bytes)
      <4>1. Chain(<<>> \o m, r, b, Writing, d, e) = Coming
        BY <1>0, <3>4, <3>5, <3>7, <3>8 DEF Coming
      <4>2. <<>> \o m = m
        BY <3>2, Neutral
      <4>3. Seqs(Bytes, m, r, b, Writing, d, e, <<>>)
        <5>1. Seqs(Bytes, m, a, b, Writing, d, e, <<>>)
          BY <1>0, <3>2, PartsSeqs
        <5> QED
          BY <3>2, <5>1 DEF Seqs
      <4>4. Chain(m, r, b, Writing, d, e) = m \o Chain(<<>>, r, b, Writing, d, e)
        BY <4>3, ChainFirst
      <4>5. Coming' = Chain(<<>>, r, b, Writing, d, e)
        BY <3>4, <3>5, <3>7 DEF Coming, Behind
      <4>6. Seqs(Bytes, <<>>, r, b, Writing, d, e, <<>>)
        BY <1>0, <4>3 DEF Seqs
      <4>7. Chain(<<>>, r, b, Writing, d, e) \in Seq(Bytes)
        BY <4>6, ChainParts
      <4> QED
        BY <4>1, <4>2, <4>4, <4>5, <4>7
    <3>11. Coming' = <<>>
      <4>1. IsLine(Coming)
        BY <2>0, <2>3 DEF UpInv
      <4>2. Len(Coming) = k + Len(Coming') /\ Coming[k] = m[k] /\ Len(Coming') \in Nat
        <5>1. \A c \in Seq(Bytes) : /\ Len(m \o c) = Len(m) + Len(c) /\ Len(c) \in Nat
                                   /\ \A i \in 1..Len(m) : (m \o c)[i] = m[i]
          BY <3>2
        <5>2. k \in 1..Len(m)
          BY <3>3
        <5> QED
          BY <3>3, <3>10, <5>1, <5>2
      <4>3. Len(Coming') = 0
        BY <1>0, <3>3, <4>1, <4>2 DEF IsLine
      <4> QED
        BY <3>10, <4>3, EmptySeq
    <3> QED
      BY <1>1, <2>0, <2>3, <3>5, <3>6, <3>9, <3>11 DEF UpInv, Connected
  <2> QED
    BY <1>3, <2>1, <2>2, <2>3 DEF Read, ClientReads
<1>4. CASE Show
  <2> DEFINE m == buf["client"]
  <2>1. /\ pc["client"] = "print" /\ Goes("client", "prompt", <<>>)
        /\ printed' = [printed EXCEPT !["client"] = @ \o m]
        /\ UNCHANGED <<program, text, stream, fin, closed, reset, file>>
    BY <1>4 DEF Show, netVars, echoVars
  <2>2. /\ pc'["client"] = "prompt" /\ pc'["server"] = pc["server"] /\ buf'["server"] = buf["server"]
    BY <1>0, <2>1, GoesType
  <2>3. Writing' = Writing /\ Showing = m /\ Showing' = <<>> /\ printed'["client"] = h \o m
    BY <1>0, <2>1, <2>2 DEF Writing, Showing, EchoTypes, Sides
  <2>4. (h \o m) \o <<>> = h \o m
    <3>1. h \o m \in Seq(Bytes)
      BY <1>0, ConcatProperties
    <3> QED
      BY <3>1, Neutral
  <2>5. text' = Behind(printed["client"] \o Showing)'
    BY <1>1, <2>1, <2>3, <2>4 DEF Behind
  <2>6. program = "stdio" => Coming' = <<>>
    BY <2>1, <2>3 DEF UpInv, Coming, Behind
  <2> QED
    BY <1>1, <2>1, <2>2, <2>5, <2>6 DEF UpInv, Connected
<1> QED
  BY <1>2, <1>3, <1>4

\* A client that goes with its whole echo leaves nothing on the way.
LEMMA ClientGone ==
  ASSUME program \in EchoPrograms, EchoTypes, UpInv, Quit \/ Interrupted
  PROVE  GoneInv' /\ ~Connected'
<1> DEFINE a == file["client"]  b == stream["client"]  d == file["server"]  e == stream["server"]
           h == printed["client"]
<1>0. /\ "server" \in Sides /\ "client" \in Sides /\ <<>> \in Seq(Bytes) /\ h \in Seq(Bytes)
      /\ h \o <<>> = h
  <2>1. h \in Seq(Bytes)
    BY DEF EchoTypes, Sides
  <2> QED
    BY <2>1, Neutral DEF Sides
<1>1. /\ pc["client"] \in {"prompt", "read"} /\ pc' = [pc EXCEPT !["client"] = "gone"]
      /\ Closes("client") /\ UNCHANGED <<buf, text, printed, file>>
  BY DEF Quit, Interrupted, Gone, echoVars
<1>2. pc'["client"] = "gone" /\ pc'["server"] = pc["server"]
  BY <1>0, <1>1 DEF EchoTypes, Sides
<1>3. ASSUME h = text
      PROVE  /\ b = <<>> /\ d = <<>> /\ e = <<>> /\ pc["server"] = "read"
  <2>1. h = Behind(h)
    BY <1>0, <1>1, <1>3 DEF UpInv, Showing
  <2>2. Seqs(Bytes, h, a, b, Writing, d, e, <<>>)
    BY <1>0, PartsSeqs
  <2>3. Len(Behind(h)) = Len(h) + Len(a) + Len(b) + Len(Writing) + Len(d) + Len(e)
    <3>1. Len(Chain(h, a, b, Writing, d, e)) = Len(h) + Len(a) + Len(b) + Len(Writing) + Len(d) + Len(e)
      <4> HIDE DEF a, b, d, e, h
      <4> QED
        BY <2>2, ChainParts
    <3> QED
      BY <3>1 DEF Behind
  <2>4. /\ a \in Seq(Bytes) /\ b \in Seq(Bytes) /\ Writing \in Seq(Bytes) /\ d \in Seq(Bytes)
        /\ e \in Seq(Bytes)
    BY <2>2 DEF Seqs
  <2>5. \A q \in Seq(Bytes) : Len(q) \in Nat /\ (Len(q) = 0 => q = <<>>)
    BY EmptySeq, LenProperties
  <2>6. b = <<>> /\ Writing = <<>> /\ d = <<>> /\ e = <<>>
    <3>1. /\ Len(h) \in Nat /\ Len(a) \in Nat /\ Len(b) \in Nat /\ Len(Writing) \in Nat
          /\ Len(d) \in Nat /\ Len(e) \in Nat
      BY <1>0, <2>4, <2>5
    <3>2. Len(Behind(h)) = Len(h)
      BY <2>1
    <3> HIDE DEF a, b, d, e, h
    <3>3. Len(b) = 0 /\ Len(Writing) = 0 /\ Len(d) = 0 /\ Len(e) = 0
      BY <2>3, <3>1, <3>2
    <3> QED
      BY <2>4, <2>5, <3>3
  <2> QED
    BY <2>6 DEF UpInv, Writing
<1>4. ASSUME h = text
      PROVE  reset' = "no" /\ "client" \in fin' /\ stream'["server"] = <<>> /\ file'["server"] = <<>>
  <2>1. b = <<>> /\ d = <<>> /\ e = <<>> /\ reset = "no"
    BY <1>3, <1>4 DEF UpInv
  <2>2. fin' = fin \cup {"client"} /\ reset' = reset /\ stream' = [stream EXCEPT !["client"] = <<>>]
    BY <1>1, <2>1 DEF Closes
  <2> QED
    BY <1>0, <1>1, <2>1, <2>2 DEF EchoTypes, Sides
<1> QED
  BY <1>1, <1>2, <1>3, <1>4 DEF GoneInv, Connected

LEMMA ServerAlone ==
  ASSUME program \in EchoPrograms, EchoTypes, GoneInv, ServerStep
  PROVE  GoneInv' /\ pc'["client"] = pc["client"]
<1>0. /\ "server" \in Sides /\ "client" \in Sides /\ UNCHANGED <<text, printed>>
      /\ Peer("server") = "client" /\ BUF_SIZE \in Nat
  BY EchoAssumption DEF ServerStep, Sides, Peer
<1>1. pc'["client"] = pc["client"]
  BY <1>0 DEF ServerStep, StdServer, ReadServer, ReadsBytes, ReadsError, ReadsEof, Fills, Gets,
     GetsNull, WriteBack, WritesBack, Dies, StdClose, Goes, EchoTypes, Sides
<1>2. ASSUME printed["client"] = text
      PROVE  \/ pc'["server"] \in {"accept", "close"}
             \/ /\ pc'["server"] = "last" /\ reset' = "no" /\ "client" \in fin'
                /\ stream'["server"] = <<>> /\ file'["server"] = <<>>
  <2>1. CASE pc["server"] \in {"accept", "end", "close"}
    <3>1. StdClose
      BY <2>1 DEF ServerStep, WriteBack, WritesBack, Dies
    <3> QED
      BY <1>0, <3>1 DEF StdClose, Goes, EchoTypes, Sides
  <2>2. CASE /\ pc["server"] \in {"read", "last"} /\ reset = "no" /\ "client" \in fin
             /\ stream["server"] = <<>> /\ file["server"] = <<>>
    <3>1. AtEof("server") /\ ~AtError("server") /\ \A m : ~Sigpipe(m)
      BY <1>0, <2>2 DEF AtEof, AtError, Sigpipe
    <3>2. \A most \in Nat : Pieces("server", most) = {}
      <4>1. \A most \in Nat : \A n \in Pieces("server", most) : n \in 1..0
        BY <1>0, <2>2, EchoPieces
      <4> QED
        BY <4>1
    <3>3. LineEnd(file["server"]) = {}
      <4>1. \A k \in LineEnd(file["server"]) : k \in 1..0
        <5>1. file["server"] \in Seq(Bytes) /\ Len(file["server"]) = 0
          BY <1>0, <2>2 DEF EchoTypes
        <5> QED
          BY <5>1, LineEnds
      <4> QED
        BY <4>1
    <3>4. CASE pc["server"] = "read" /\ program = "stdio"
      <4>1. GetsNull("server", "last")
        <5>1. StdServer
          BY <3>4 DEF ServerStep, WriteBack, WritesBack, Dies, StdClose
        <5>2. ~Fills("server")
          <6>1. Len(stream["server"]) \in Nat
            BY <2>2
          <6> QED
            BY <3>2, <6>1 DEF Fills
        <5>3. ~Gets("server", "write")
          BY <3>3 DEF Gets
        <5> QED
          BY <3>1, <5>1, <5>2, <5>3 DEF StdServer
      <4> QED
        BY <1>0, <2>2, <3>1, <4>1 DEF GetsNull, Goes, EchoTypes, Sides
    <3>5. CASE pc["server"] = "read" /\ program # "stdio"
      <4>1. ReadServer
        BY <3>5 DEF ServerStep, WriteBack, WritesBack, Dies, StdClose
      <4>2. ReadsEof
        BY <1>0, <3>1, <3>2, <4>1 DEF ReadServer, ReadsBytes, ReadsError
      <4> QED
        BY <1>0, <4>2 DEF ReadsEof, Goes, EchoTypes, Sides
    <3>6. CASE pc["server"] = "last"
      <4>1. WriteBack
        BY <3>1, <3>6 DEF ServerStep, Dies, StdClose
      <4> QED
        BY <1>0, <3>6, <4>1 DEF WriteBack, WritesBack, EchoTypes, Sides
    <3> QED
      BY <2>2, <3>4, <3>5, <3>6
  <2> QED
    BY <1>2, <2>1, <2>2 DEF GoneInv
<1> QED
  BY <1>0, <1>1, <1>2 DEF GoneInv

LEMMA StepEcho == EchoInv /\ [Next]_vars => EchoInv'
<1> SUFFICES ASSUME EchoInv, [Next]_vars, program' \in EchoPrograms PROVE EchoInv'
  BY DEF EchoInv
<1>0. program' = program /\ program \in EchoPrograms
  BY OwnSteps
<1>t. EchoTypes /\ "server" \in Sides /\ "client" \in Sides /\ <<>> \in Seq(Bytes)
  BY <1>0 DEF EchoInv, Sides
<1>1. CASE UNCHANGED vars
  BY <1>0, <1>1 DEF EchoInv, EchoTypes, Connected, UpInv, GoneInv, Showing, Writing, Coming, Behind,
     IsLine, vars, progVars, netVars, echoVars
<1>2. CASE Accept
  <2>1. /\ pc' = [server |-> "read", client |-> "prompt"] /\ buf' = buf /\ text' = <<>>
        /\ stream' = [s \in Sides |-> <<>>] /\ fin' = {} /\ closed' = {} /\ reset' = "no"
        /\ printed' = [s \in Sides |-> <<>>] /\ file' = [s \in Sides |-> <<>>]
    BY <1>2 DEF Accept
  <2>2. EchoTypes'
    <3>1. DOMAIN pc' = Sides /\ pc'["server"] = "read" /\ pc'["client"] = "prompt"
      BY <2>1 DEF Sides
    <3> QED
      BY <1>t, <2>1, <3>1 DEF EchoTypes
  <2>3. /\ pc'["server"] = "read" /\ pc'["client"] = "prompt" /\ Showing' = <<>> /\ Writing' = <<>>
        /\ printed'["client"] = <<>> /\ file'["client"] = <<>> /\ file'["server"] = <<>>
        /\ stream'["client"] = <<>> /\ stream'["server"] = <<>>
    BY <1>t, <2>1 DEF Showing, Writing
  <2>4. Chain(<<>>, <<>>, <<>>, <<>>, <<>>, <<>>) = <<>> /\ <<>> \o <<>> = <<>>
    BY DEF Chain
  <2>5. Coming' = <<>> /\ text' = Behind(printed["client"] \o Showing)'
    BY <2>1, <2>3, <2>4 DEF Coming, Behind
  <2>6. UpInv' /\ Connected'
    BY <2>1, <2>3, <2>5 DEF UpInv, Connected
  <2> QED
    BY <2>2, <2>6 DEF EchoInv
<1>3. CASE ServerEnds
  <2>1. /\ pc["server"] = "accept" /\ pc' = [pc EXCEPT !["server"] = "end"]
        /\ UNCHANGED <<buf, text, printed, file, stream, fin, closed, reset>>
    BY <1>3 DEF ServerEnds, netVars, echoVars
  <2>2. EchoTypes' /\ pc'["server"] = "end" /\ pc'["client"] = pc["client"]
    BY <1>t, <2>1 DEF EchoTypes
  <2>3. ~Connected /\ GoneInv'
    BY <1>0, <2>1, <2>2 DEF EchoInv, UpInv, GoneInv
  <2> QED
    BY <2>2, <2>3 DEF EchoInv, Connected
<1>4. CASE ServerStep
  <2>1. EchoTypes'
    BY <1>4, <1>t, ServerTypes
  <2>2. CASE Connected
    BY <1>0, <1>4, <1>t, <2>1, <2>2, ServerUp DEF EchoInv, Connected
  <2>3. CASE ~Connected
    BY <1>0, <1>4, <1>t, <2>1, <2>3, ServerAlone DEF EchoInv, Connected
  <2> QED
    BY <2>2, <2>3
<1>5. CASE Type \/ Read \/ Show
  <2>1. EchoTypes'
    BY <1>5, <1>t, ClientTypes
  <2>2. Connected
    BY <1>5 DEF Type, Read, Show, Connected
  <2>3. UpInv' /\ Connected'
    BY <1>0, <1>5, <1>t, <2>2, ClientUp DEF EchoInv
  <2> QED
    BY <2>1, <2>3 DEF EchoInv
<1>6. CASE Quit \/ Interrupted
  <2>1. EchoTypes'
    BY <1>6, <1>t, ClientTypes
  <2>2. Connected
    BY <1>6 DEF Quit, Interrupted, Connected
  <2>3. GoneInv' /\ ~Connected'
    BY <1>0, <1>6, <1>t, <2>2, ClientGone DEF EchoInv
  <2> QED
    BY <2>1, <2>3 DEF EchoInv
<1>7. CASE RstArrives /\ UNCHANGED echoVars
  <2>1. /\ reset = "coming" /\ reset' = "here"
        /\ UNCHANGED <<pc, buf, text, printed, file, stream, fin, closed>>
    BY <1>7 DEF RstArrives, progVars, echoVars
  <2>2. EchoTypes'
    BY <1>t, <2>1 DEF EchoTypes
  <2>3. ~Connected /\ GoneInv'
    BY <1>0, <2>1 DEF EchoInv, UpInv, GoneInv
  <2> QED
    BY <2>1, <2>2, <2>3 DEF EchoInv, Connected
<1> QED
  BY <1>0, <1>1, <1>2, <1>3, <1>4, <1>5, <1>6, <1>7, OwnSteps DEF EchoNext

LEMMA EchoAlways == Spec => []EchoInv
BY InitEcho, StepEcho, PTL DEF Spec

\* While a client is connected, what it typed is what it has printed and what
\* is on its way, in that order.
THEOREM NothingLostOrReordered == Spec => []Conserved
<1>1. EchoInv => Conserved
  <2> SUFFICES ASSUME EchoInv, program \in EchoPrograms, Connected PROVE Conserved
    BY DEF Conserved
  <2> DEFINE h == printed["client"]
  <2>1. EchoTypes /\ UpInv /\ <<>> \in Seq(Bytes)
    BY DEF EchoInv
  <2>2. h \in Seq(Bytes)
    BY <2>1 DEF EchoTypes, Sides
  <2>3. UnderWay = Behind(Showing)
    BY DEF UnderWay, Behind, Chain, Showing, Writing
  <2>4. /\ Showing \in Seq(Bytes) /\ h \o Showing \in Seq(Bytes) /\ Coming \in Seq(Bytes)
    BY <2>1, PartsSeqs DEF Coming
  <2>5. ASSUME NEW x \in Seq(Bytes) PROVE Behind(x) = x \o Coming
    <3>1. Seqs(Bytes, x, file["client"], stream["client"], Writing, file["server"], stream["server"], <<>>)
      BY <2>1, <2>5, PartsSeqs
    <3> QED
      BY <3>1, ChainFirst DEF Behind, Coming
  <2>6. (h \o Showing) \o Coming = h \o (Showing \o Coming)
    <3>1. \A q, r \in Seq(Bytes) : (h \o q) \o r = h \o (q \o r)
      <4> HIDE DEF h
      <4> QED
        BY <2>2, Assoc
    <3> QED
      BY <2>4, <3>1
  <2>7. text = h \o UnderWay
    BY <2>1, <2>3, <2>4, <2>5, <2>6 DEF UpInv
  <2>8. program = "stdio" /\ pc["client"] = "prompt" => UnderWay = <<>>
    BY <2>1, <2>3 DEF UpInv, Showing, Coming
  <2> QED
    BY <2>7, <2>8 DEF Conserved
<1> QED
  BY <1>1, EchoAlways, PTL

\* SIGPIPE never ends the server because of a client that waited for its
\* whole echo.
THEOREM PatientClientsDoNoHarm == Spec => []OutlivesPatientClients
<1>1. EchoInv => OutlivesPatientClients
  BY DEF EchoInv, OutlivesPatientClients, UpInv, GoneInv
<1> QED
  BY <1>1, EchoAlways, PTL

(***************************************************************************)
(* Texts that are transferred to their end.                                *)
(***************************************************************************)
Words == {"thank", "you"}
TransferTypes ==
  /\ DOMAIN pc = Sides /\ pc["client"] \in {"read", "thank", "close", "end"}
  /\ pc["server"] \in {"send", "sent", "end"} \cup (IF program \in Thanking THEN {"read", "close"} ELSE {})
  /\ DOMAIN buf = Sides /\ DOMAIN printed = Sides /\ DOMAIN stream = Sides /\ text \in Seq(Nat)
  /\ \A q \in {buf["server"], buf["client"], printed["client"], stream["client"]} : q \in Seq(Nat)
  /\ stream["server"] \in Seq(Words) /\ fin \subseteq Sides

\* What a client that reads to the end has read so far.
Got == IF program = "tcp" THEN buf["client"] ELSE printed["client"]

\* While the client reads, the text is what it has, what is on its way and what
\* is not sent yet; the stream ends after the last of it.
TransferInv == program \in TransferPrograms =>
  /\ TransferTypes
  /\ pc["client"] = "read" => "client" \notin closed
  /\ pc["server"] # "send" => buf["server"] = <<>>
  /\ "server" \in fin => pc["server"] \notin {"send", "sent"}
  /\ pc["client"] = "read" /\ program # "hello" => text = (Got \o stream["client"]) \o buf["server"]
  /\ pc["client"] = "read" /\ program = "tcp" => printed["client"] = <<>>
  /\ pc["client"] # "read" =>
       CASE program \in Thanking -> printed["client"] = text
         [] program = "tcp" -> printed["client"] \in {text, <<>>}
         [] OTHER -> printed["client"] # <<>>
  /\ IF pc["server"] \notin {"close", "end"} THEN printed["server"] = <<>>
     ELSE CASE program = "sep2" -> printed["server"] = Thanks
            [] program = "file" -> printed["server"] # <<>>
            [] OTHER -> printed["server"] = <<>>

LEMMA Regrouped ==
  ASSUME NEW S, NEW g, NEW s, NEW q, NEW r, Seqs(S, g, s, q, r, r, r, r)
  PROVE  /\ s \o q \in Seq(S) /\ (g \o (s \o q)) \o r = (g \o s) \o (q \o r)
         /\ g \o q \in Seq(S) /\ (g \o q) \o r = g \o (q \o r)
<1>g. g \in Seq(S)
  BY DEF Seqs
<1>s. s \in Seq(S)
  BY DEF Seqs
<1>q. q \in Seq(S)
  BY DEF Seqs
<1>r. r \in Seq(S)
  BY DEF Seqs
<1>1. g \o s \in Seq(S) /\ s \o q \in Seq(S)
  BY <1>g, <1>s, <1>q, ConcatProperties
<1>2. (g \o s) \o q = g \o (s \o q)
  BY <1>g, <1>s, <1>q, Assoc
<1>3. ((g \o s) \o q) \o r = (g \o s) \o (q \o r)
  <2>1. \A p \in Seq(S) : (p \o q) \o r = p \o (q \o r)
    BY <1>q, <1>r, Assoc
  <2> QED
    BY <1>1, <2>1
<1>4. g \o q \in Seq(S) /\ (g \o q) \o r = g \o (q \o r)
  BY <1>g, <1>q, <1>r, Assoc
<1> QED
  BY <1>1, <1>2, <1>3, <1>4

\* A piece of what is there, or nothing, and the rest of it.
LEMMA Cut ==
  ASSUME NEW S, NEW b \in Seq(S), NEW n \in 0..Len(b)
  PROVE  /\ SubSeq(b, 1, n) \in Seq(S) /\ SubSeq(b, n + 1, Len(b)) \in Seq(S)
         /\ b = SubSeq(b, 1, n) \o SubSeq(b, n + 1, Len(b))
         /\ n = Len(b) => SubSeq(b, n + 1, Len(b)) = <<>>
<1>0. Len(b) \in Nat
  BY LenProperties
<1>1. CASE n = 0
  <2>1. SubSeq(b, 1, n) = <<>> /\ SubSeq(b, n + 1, Len(b)) = b
    BY <1>0, <1>1, SubSeqFull
  <2> QED
    BY <1>0, <1>1, <2>1, Neutral, EmptySeq
<1>2. CASE n # 0
  <2>1. n \in 1..Len(b)
    BY <1>0, <1>2
  <2>2. n = Len(b) => SubSeq(b, n + 1, Len(b)) = <<>>
    BY <1>0
  <2> QED
    BY <2>1, <2>2, PieceFacts
<1> QED
  BY <1>1, <1>2

LEMMA InitTransfer == Init => TransferInv
<1> SUFFICES ASSUME Init, program \in TransferPrograms PROVE TransferInv
  BY DEF TransferInv
<1>1. TransferInit
  BY OwnStart
<1>2. PICK n \in 0..MaxText : text = [k \in 1..n |-> k]
  <2>1. \A n \in (IF program = "file" THEN 0 ELSE 1)..MaxText : n \in 0..MaxText
    BY TransferAssumption
  <2> QED
    BY <1>1, <2>1 DEF TransferInit
<1>3. text \in Seq(Nat) /\ <<>> \in Seq(Nat) /\ <<>> \in Seq(Words)
  BY <1>2
<1>4. (<<>> \o <<>>) \o text = text
  BY <1>3, Neutral
<1> QED
  BY <1>1, <1>3, <1>4 DEF TransferInit, NoConnection, TransferInv, TransferTypes, Got, Sides,
     TransferPrograms, Thanking, HalfClosing

LEMMA StepTransfer == TransferInv /\ [Next]_vars => TransferInv'
<1> SUFFICES ASSUME TransferInv, [Next]_vars, program' \in TransferPrograms PROVE TransferInv'
  BY DEF TransferInv
<1> DEFINE b == buf["server"]  g == Got  s == stream["client"]
<1>0. program' = program /\ program \in TransferPrograms
  BY OwnSteps
<1>t. /\ TransferTypes /\ "server" \in Sides /\ "client" \in Sides
      /\ Peer("server") = "client" /\ Peer("client") = "server"
      /\ Thanks \in Seq(Words) /\ <<>> \in Seq(Words) /\ <<>> \in Seq(Nat)
  <2>1. Thanks \in Seq(Words) /\ <<>> \in Seq(Words) /\ <<>> \in Seq(Nat)
    BY DEF Thanks, Words
  <2> QED
    BY <1>0, <2>1 DEF TransferInv, Sides, Peer
<1>s. /\ b \in Seq(Nat) /\ g \in Seq(Nat) /\ s \in Seq(Nat) /\ stream["server"] \in Seq(Words)
      /\ buf["client"] \in Seq(Nat) /\ printed["client"] \in Seq(Nat) /\ text \in Seq(Nat)
  BY <1>t DEF TransferTypes, Got
<1>p. /\ program = "file" => program \in Thanking /\ program \in HalfClosing
      /\ program = "sep2" => program \in Thanking /\ program \in HalfClosing
      /\ program = "sep" => program \in Thanking
      /\ program \in {"hello", "tcp"} => program \notin Thanking
      /\ program \in Thanking => program \in {"file", "sep", "sep2"}
      /\ program \in Thanking \cup {"hello", "tcp"}
  BY <1>0 DEF TransferPrograms, Thanking, HalfClosing
<1>1. CASE UNCHANGED vars
  BY <1>0, <1>1 DEF TransferInv, TransferTypes, Got, vars, progVars, netVars
<1>2. CASE SendText
  <2> DEFINE n == Chunk  q == SubSeq(b, 1, n)  r == SubSeq(b, n + 1, Len(b))
  <2>1. n \in 0..Len(b) /\ (LastChunk(n) => n = Len(b))
    <3>1. Len(b) \in Nat /\ FileBuf \in Nat
      BY <1>s, TransferAssumption
    <3>2. Min({FileBuf, Len(b)}) = IF FileBuf <= Len(b) THEN FileBuf ELSE Len(b)
      BY <3>1, MinPair
    <3> QED
      BY <3>1, <3>2 DEF Chunk, LastChunk
  <2>2. /\ s \o q \in Seq(Nat) /\ q \in Seq(Nat) /\ r \in Seq(Nat) /\ (n = Len(b) => r = <<>>)
        /\ (g \o (s \o q)) \o r = (g \o s) \o b
    <3>1. q \in Seq(Nat) /\ r \in Seq(Nat) /\ b = q \o r /\ (n = Len(b) => r = <<>>)
      <4> HIDE DEF b, n
      <4> QED
        BY <1>s, <2>1, Cut
    <3> HIDE DEF g, s, q, r
    <3>2. Seqs(Nat, g, s, q, r, r, r, r)
      BY <1>s, <3>1 DEF Seqs
    <3>3. s \o q \in Seq(Nat) /\ (g \o (s \o q)) \o r = (g \o s) \o (q \o r)
      BY ONLY <3>2, Regrouped, SMTT(30)
    <3> QED
      BY <3>1, <3>3
  <2>3. /\ pc["server"] = "send" /\ Writes("server", q)
        /\ buf' = [buf EXCEPT !["server"] = r]
        /\ pc' = [pc EXCEPT !["server"] = IF LastChunk(n) THEN "sent" ELSE "send"]
        /\ UNCHANGED <<text, printed>>
    BY <1>2, <1>t DEF SendText, TransferTypes
  <2> HIDE DEF n, q, r
  <2>4. /\ UNCHANGED <<fin, closed>> /\ stream'["server"] = stream["server"] /\ DOMAIN stream' = Sides
        /\ stream'["client"] = IF "client" \in closed THEN s ELSE s \o q
    <3>1. s \o <<>> = s
      BY <1>s, Neutral
    <3> QED
      BY <1>t, <2>3, <3>1 DEF Writes, netVars, TransferTypes
  <2>5. /\ buf'["server"] = r /\ buf'["client"] = buf["client"] /\ DOMAIN buf' = Sides
        /\ pc'["client"] = pc["client"] /\ pc'["server"] \in {"send", "sent"} /\ DOMAIN pc' = Sides
        /\ pc'["server"] = "sent" => r = <<>>
    BY <1>t, <2>1, <2>2, <2>3 DEF TransferTypes
  <2>6. TransferTypes'
    BY <1>0, <1>s, <1>t, <2>2, <2>3, <2>4, <2>5 DEF TransferTypes
  <2>7. Got' = g
    BY <1>0, <2>3, <2>5 DEF Got
  <2>8. pc["client"] = "read" /\ program # "hello" => text' = (Got' \o stream'["client"]) \o buf'["server"]
    BY <1>0, <2>2, <2>3, <2>4, <2>5, <2>7 DEF TransferInv
  <2> QED
    BY <1>0, <2>3, <2>4, <2>5, <2>6, <2>8 DEF TransferInv
<1>3. CASE EndStream
  <2>1. /\ pc["server"] = "sent" /\ UNCHANGED <<buf, text, printed>>
        /\ pc' = [pc EXCEPT !["server"] = IF program \in Thanking THEN "read" ELSE "end"]
    BY <1>3 DEF EndStream
  <2>2. /\ stream'["client"] = s /\ stream'["server"] \in Seq(Words) /\ DOMAIN stream' = Sides
        /\ fin' \subseteq fin \cup {"server"} /\ closed' \subseteq closed \cup {"server"}
    BY <1>3, <1>t, <1>s DEF EndStream, EndsStream, Shuts, Closes, TransferTypes
  <2>3. /\ DOMAIN pc' = Sides /\ pc'["client"] = pc["client"]
        /\ pc'["server"] = IF program \in Thanking THEN "read" ELSE "end"
    BY <1>t, <2>1 DEF TransferTypes
  <2>4. TransferTypes' /\ Got' = g
    BY <1>0, <1>t, <2>1, <2>2, <2>3 DEF TransferTypes, Got
  <2>5. /\ printed["server"] = <<>> /\ b = <<>>
        /\ pc["client"] = "read" => "client" \notin closed
        /\ pc["client"] = "read" /\ program # "hello" => text = (g \o s) \o b
        /\ pc["client"] = "read" /\ program = "tcp" => printed["client"] = <<>>
        /\ pc["client"] # "read" =>
             CASE program \in Thanking -> printed["client"] = text
               [] program = "tcp" -> printed["client"] \in {text, <<>>}
               [] OTHER -> printed["client"] # <<>>
    BY <1>0, <2>1 DEF TransferInv
  <2>6. pc'["server"] \in {"close", "end"} => program \notin {"file", "sep2"}
    BY <1>p, <2>3
  <2> HIDE DEF b, g, s
  <2>7. /\ pc'["server"] \notin {"send", "sent"} /\ ("client" \in closed' => "client" \in closed)
        /\ printed'["server"] = <<>> /\ printed'["client"] = printed["client"] /\ text' = text
        /\ buf'["server"] = b
    BY <2>1, <2>2, <2>3, <2>5 DEF b
  <2> QED
    BY <1>0, <2>2, <2>3, <2>4, <2>5, <2>6, <2>7 DEF TransferInv
<1>4. CASE ReadThanks
  <2>1. PICK n \in 0..Len(Thanks) :
          /\ Heard(n) /\ printed' = [printed EXCEPT !["server"] = Piece("server", n)]
          /\ stream' = Without("server", n)
    BY <1>4 DEF ReadThanks
  <2>2. /\ pc["server"] = "read" /\ pc' = [pc EXCEPT !["server"] = "close"]
        /\ UNCHANGED <<fin, closed, reset, buf, text>> /\ program \in Thanking
    BY <1>4, <1>t DEF ReadThanks, TransferTypes
  <2>3. /\ DOMAIN pc' = Sides /\ pc'["client"] = pc["client"] /\ pc'["server"] = "close"
        /\ DOMAIN printed' = Sides /\ printed'["client"] = printed["client"]
        /\ printed'["server"] = Piece("server", n) /\ DOMAIN stream' = Sides /\ stream'["client"] = s
        /\ stream'["server"] = SubSeq(stream["server"], n + 1, Len(stream["server"]))
    BY <1>t, <2>1, <2>2 DEF TransferTypes, Without
  <2>4. /\ stream'["server"] \in Seq(Words)
        /\ program = "sep2" => printed'["server"] = Thanks
        /\ program = "file" => printed'["server"] # <<>>
        /\ program = "sep" => printed'["server"] = <<>>
    <3> DEFINE w == stream["server"]
    <3>1. Len(w) \in Nat /\ FileBuf \in Nat
      BY <1>s, TransferAssumption
    <3>2. CASE program = "file"
      <4>1. n \in 1..Len(w)
        <5>1. Min({FileBuf, Len(w)}) = IF FileBuf <= Len(w) THEN FileBuf ELSE Len(w)
          BY <3>1, MinPair
        <5> QED
          BY <2>1, <3>1, <3>2, <5>1 DEF Heard, Pieces
      <4>2. w \in Seq(Words)
        BY <1>s
      <4> QED
        <5> HIDE DEF w
        <5>1. /\ SubSeq(w, 1, n) # <<>> /\ SubSeq(w, n + 1, Len(w)) \in Seq(Words)
          BY <4>1, <4>2, PieceFacts
        <5> QED
          BY <1>p, <2>3, <3>2, <5>1 DEF Piece, w
    <3>3. CASE program = "sep2"
      <4>1. n = 2 /\ w = Thanks /\ Len(Thanks) = 2
        BY <2>1, <3>3 DEF Heard, Thanks
      <4>2. SubSeq(Thanks, 1, 2) = Thanks /\ SubSeq(Thanks, 3, 2) = <<>>
        <5>1. Len(Thanks) = 2
          BY DEF Thanks
        <5> QED
          BY <1>t, <5>1, SubSeqFull, SubSeqEmpty
      <4> QED
        BY <1>t, <2>3, <3>3, <4>1, <4>2 DEF Piece
    <3>4. CASE program = "sep"
      <4>1. n = 0
        BY <2>1, <3>4 DEF Heard
      <4>2. SubSeq(w, 1, 0) = <<>> /\ SubSeq(w, 1, Len(w)) = w
        BY <1>s, SubSeqFull
      <4> QED
        BY <1>s, <2>3, <3>4, <4>1, <4>2 DEF Piece
    <3> QED
      BY <1>p, <2>2, <3>2, <3>3, <3>4
  <2>5. TransferTypes' /\ Got' = g
    BY <1>0, <1>t, <2>2, <2>3, <2>4 DEF TransferTypes, Got
  <2> QED
    BY <1>0, <1>p, <2>2, <2>3, <2>4, <2>5 DEF TransferInv
<1>5. CASE ServerCloses
  <2>1. /\ pc["server"] = "close" /\ UNCHANGED <<buf, text, printed>> /\ Closes("server")
        /\ pc' = [pc EXCEPT !["server"] = "end"]
    BY <1>5 DEF ServerCloses
  <2>2. /\ stream'["client"] = s /\ stream'["server"] = <<>> /\ DOMAIN stream' = Sides
        /\ fin' \subseteq fin \cup {"server"} /\ closed' \subseteq closed \cup {"server"}
    BY <1>t, <2>1 DEF Closes, TransferTypes
  <2>3. DOMAIN pc' = Sides /\ pc'["client"] = pc["client"] /\ pc'["server"] = "end"
    BY <1>t, <2>1 DEF TransferTypes
  <2>4. TransferTypes' /\ Got' = g
    BY <1>0, <1>t, <2>1, <2>2, <2>3 DEF TransferTypes, Got
  <2> QED
    BY <1>0, <1>p, <2>1, <2>2, <2>3, <2>4 DEF TransferInv
\* A read of the client that takes n bytes and puts them behind what it has.
<1>6. ASSUME NEW n, n \in Pieces("client", 1) \cup Pieces("client", MaxText)
      PROVE  /\ SubSeq(s, 1, n) \in Seq(Nat) /\ SubSeq(s, 1, n) # <<>> /\ SubSeq(s, n + 1, Len(s)) \in Seq(Nat)
             /\ g \o SubSeq(s, 1, n) \in Seq(Nat)
             /\ ((g \o SubSeq(s, 1, n)) \o SubSeq(s, n + 1, Len(s))) \o b = (g \o s) \o b
  <2>1. n \in 1..Len(s)
    <3>1. Len(s) \in Nat /\ MaxText \in Nat
      BY <1>s, TransferAssumption
    <3>2. \A most \in Nat : Min({most, Len(s)}) \in Nat /\ Min({most, Len(s)}) <= Len(s)
      BY <3>1, MinPair
    <3> QED
      BY <1>6, <3>1, <3>2 DEF Pieces
  <2> DEFINE q == SubSeq(s, 1, n)  r == SubSeq(s, n + 1, Len(s))
  <2>2. q \in Seq(Nat) /\ q # <<>> /\ r \in Seq(Nat) /\ s = q \o r
    <3> HIDE DEF s
    <3> QED
      BY <1>s, <2>1, PieceFacts
  <2> HIDE DEF g, q, r
  <2>3. g \in Seq(Nat)
    BY <1>s
  <2>4. g \o q \in Seq(Nat) /\ (g \o q) \o r = g \o (q \o r)
    <3>1. Seqs(Nat, g, g, q, r, r, r, r)
      BY <2>2, <2>3 DEF Seqs
    <3> QED
      BY ONLY <3>1, Regrouped
  <2> QED
    BY <2>2, <2>4 DEF q, r
\* At the end of the stream it has everything.
<1>7. AtEof("client") /\ pc["client"] = "read" /\ program # "hello" => g = text
  <2> SUFFICES ASSUME AtEof("client"), pc["client"] = "read", program # "hello" PROVE g = text
    OBVIOUS
  <2>1. s = <<>> /\ "server" \in fin
    BY <1>t DEF AtEof
  <2>2. b = <<>> /\ text = (g \o s) \o b
    BY <1>0, <2>1 DEF TransferInv
  <2>3. g \o <<>> = g
    BY <1>s, Neutral
  <2> QED
    BY <2>1, <2>2, <2>3
<1>8. CASE ClientReadsText
  <2>0. pc["client"] = "read" /\ UNCHANGED text
    BY <1>8 DEF ClientReadsText
  <2>1. CASE ReadOnce
    <3>1. PICK n \in Pieces("client", MaxText) :
            /\ printed' = [printed EXCEPT !["client"] = Piece("client", n)]
            /\ stream' = Without("client", n)
      BY <2>1 DEF ReadOnce
    <3>2. /\ program = "hello" /\ pc' = [pc EXCEPT !["client"] = "close"]
          /\ UNCHANGED <<fin, closed, buf>>
      BY <2>1 DEF ReadOnce
    <3>3. /\ pc'["client"] = "close" /\ pc'["server"] = pc["server"] /\ DOMAIN pc' = Sides
          /\ printed'["client"] # <<>> /\ printed'["client"] \in Seq(Nat) /\ DOMAIN printed' = Sides
          /\ printed'["server"] = printed["server"] /\ DOMAIN stream' = Sides
          /\ stream'["client"] \in Seq(Nat) /\ stream'["server"] = stream["server"]
      BY <1>t, <1>6, <3>1, <3>2 DEF TransferTypes, Without, Piece
    <3>4. TransferTypes'
      BY <1>0, <1>t, <2>0, <3>2, <3>3 DEF TransferTypes
    <3> QED
      BY <1>0, <1>p, <2>0, <3>2, <3>3, <3>4 DEF TransferInv
  <2>2. CASE ReadByte \/ Copy
    <3>1. PICK n : /\ n \in Pieces("client", 1) \cup Pieces("client", MaxText)
                   /\ stream' = Without("client", n) /\ UNCHANGED <<pc, fin, closed>>
                   /\ IF program = "tcp"
                      THEN buf' = [buf EXCEPT !["client"] = @ \o Piece("client", n)] /\ printed' = printed
                      ELSE printed' = [printed EXCEPT !["client"] = @ \o Piece("client", n)] /\ buf' = buf
      <4>1. CASE ReadByte
        <5>1. 1 \in Pieces("client", 1)
          <6>1. Len(s) \in Nat /\ Len(s) # 0
            BY <1>s, <4>1, EmptySeq DEF ReadByte
          <6>2. Min({1, Len(s)}) = 1
            BY <6>1, MinPair
          <6> QED
            BY <6>2 DEF Pieces
        <5> QED
          BY <4>1, <5>1 DEF ReadByte
      <4>2. CASE Copy
        BY <1>p, <4>2 DEF Copy
      <4> QED
        BY <2>2, <4>1, <4>2
    <3> DEFINE q == SubSeq(s, 1, n)  r == SubSeq(s, n + 1, Len(s))
    <3>2. /\ q \in Seq(Nat) /\ r \in Seq(Nat) /\ g \o q \in Seq(Nat)
          /\ ((g \o q) \o r) \o b = (g \o s) \o b
      BY <1>6, <3>1
    <3>3. stream'["client"] = r /\ stream'["server"] = stream["server"] /\ DOMAIN stream' = Sides
      BY <1>t, <3>1 DEF Without, TransferTypes
    <3>4. /\ Got' = g \o q /\ DOMAIN buf' = Sides /\ DOMAIN printed' = Sides /\ buf'["server"] = b
          /\ printed'["server"] = printed["server"]
          /\ IF program = "tcp" THEN buf'["client"] = g \o q /\ printed' = printed
             ELSE printed'["client"] = g \o q /\ buf' = buf
      BY <1>0, <1>t, <3>1 DEF Got, Piece, TransferTypes
    <3> HIDE DEF q, r
    <3>5. TransferTypes'
      BY <1>0, <1>t, <1>s, <2>0, <3>1, <3>2, <3>3, <3>4 DEF TransferTypes
    <3> QED
      BY <1>0, <2>0, <3>1, <3>2, <3>3, <3>4, <3>5 DEF TransferInv
  <2>3. CASE ReadExit
    <3>1. /\ program = "tcp" /\ stream' = Without("client", 1) /\ pc' = [pc EXCEPT !["client"] = "close"]
          /\ UNCHANGED <<fin, closed, buf, printed>> /\ s # <<>>
      BY <2>3 DEF ReadExit
    <3>2. 1 \in Pieces("client", 1)
      <4>1. Len(s) \in Nat /\ Len(s) # 0
        BY <1>s, <3>1, EmptySeq
      <4>2. Min({1, Len(s)}) = 1
        BY <4>1, MinPair
      <4> QED
        BY <4>2 DEF Pieces
    <3>3. /\ pc'["client"] = "close" /\ pc'["server"] = pc["server"] /\ DOMAIN pc' = Sides
          /\ DOMAIN stream' = Sides /\ stream'["server"] = stream["server"]
          /\ stream'["client"] = SubSeq(s, 1 + 1, Len(s))
      BY <1>t, <3>1 DEF TransferTypes, Without
    <3>4. SubSeq(s, 1 + 1, Len(s)) \in Seq(Nat)
      BY <1>6, <3>2
    <3>5. TransferTypes'
      BY <1>0, <1>t, <2>0, <3>1, <3>3, <3>4 DEF TransferTypes
    <3> QED
      BY <1>0, <1>p, <2>0, <3>1, <3>3, <3>5 DEF TransferInv
  <2>4. CASE ReadAllOver
    <3>1. /\ program = "tcp" /\ AtEof("client") /\ printed' = [printed EXCEPT !["client"] = buf["client"]]
          /\ pc' = [pc EXCEPT !["client"] = "close"] /\ UNCHANGED <<stream, fin, closed, buf>>
      BY <2>4 DEF ReadAllOver, netVars
    <3>2. /\ pc'["client"] = "close" /\ pc'["server"] = pc["server"] /\ DOMAIN pc' = Sides
          /\ printed'["client"] = buf["client"] /\ printed'["server"] = printed["server"]
          /\ DOMAIN printed' = Sides
      BY <1>t, <3>1 DEF TransferTypes
    <3>3. buf["client"] = text
      BY <1>7, <2>0, <3>1 DEF Got
    <3>4. TransferTypes'
      BY <1>0, <1>s, <1>t, <2>0, <3>1, <3>2 DEF TransferTypes
    <3> QED
      BY <1>0, <1>p, <2>0, <3>1, <3>2, <3>3, <3>4 DEF TransferInv
  <2>5. CASE CopyEnds
    <3>1. /\ program \in Thanking /\ AtEof("client") /\ pc' = [pc EXCEPT !["client"] = "thank"]
          /\ UNCHANGED <<stream, fin, closed, buf, printed>>
      BY <2>5 DEF CopyEnds, netVars
    <3>2. pc'["client"] = "thank" /\ pc'["server"] = pc["server"] /\ DOMAIN pc' = Sides
      BY <1>t, <3>1 DEF TransferTypes
    <3>3. printed["client"] = text
      BY <1>7, <1>p, <2>0, <3>1 DEF Got
    <3>4. TransferTypes'
      BY <1>0, <1>t, <2>0, <3>1, <3>2 DEF TransferTypes
    <3> QED
      BY <1>0, <1>p, <2>0, <3>1, <3>2, <3>3, <3>4 DEF TransferInv
  <2> QED
    BY <1>8, <2>1, <2>2, <2>3, <2>4, <2>5 DEF ClientReadsText
<1>9. CASE Thank
  <2>1. /\ pc["client"] = "thank" /\ Writes("client", Thanks) /\ pc' = [pc EXCEPT !["client"] = "close"]
        /\ UNCHANGED <<buf, text, printed>>
    BY <1>9 DEF Thank
  <2>2. stream["server"] \o Thanks \in Seq(Words)
    BY <1>s, <1>t, ConcatProperties
  <2>3. /\ UNCHANGED <<fin, closed>> /\ stream'["server"] \in Seq(Words) /\ stream'["client"] = s
        /\ DOMAIN stream' = Sides
    BY <1>s, <1>t, <2>1, <2>2 DEF Writes, netVars, TransferTypes
  <2>4. pc'["client"] = "close" /\ pc'["server"] = pc["server"] /\ DOMAIN pc' = Sides
    BY <1>t, <2>1 DEF TransferTypes
  <2>5. TransferTypes'
    BY <1>0, <1>t, <2>1, <2>3, <2>4 DEF TransferTypes
  <2> QED
    BY <1>0, <1>p, <2>1, <2>3, <2>4, <2>5 DEF TransferInv
<1>10. CASE ClientCloses
  <2>1. /\ pc["client"] = "close" /\ Closes("client") /\ pc' = [pc EXCEPT !["client"] = "end"]
        /\ UNCHANGED <<buf, text, printed>>
    BY <1>10 DEF ClientCloses
  <2>2. /\ fin' \subseteq fin \cup {"client"} /\ stream'["server"] = stream["server"]
        /\ stream'["client"] = <<>> /\ DOMAIN stream' = Sides
    BY <1>t, <2>1 DEF Closes, TransferTypes
  <2>3. pc'["client"] = "end" /\ pc'["server"] = pc["server"] /\ DOMAIN pc' = Sides
    BY <1>t, <2>1 DEF TransferTypes
  <2>4. TransferTypes'
    BY <1>0, <1>t, <2>1, <2>2, <2>3 DEF TransferTypes
  <2> QED
    BY <1>0, <1>p, <2>1, <2>2, <2>3, <2>4 DEF TransferInv
<1> QED
  BY <1>0, <1>1, <1>2, <1>3, <1>4, <1>5, <1>8, <1>9, <1>10, OwnSteps DEF TransferNext, TransferServer, TransferClient

\* Reading to the end gives the client the whole text, however it is cut into
\* pieces, and the server that has closed its half only hears the thanks.
THEOREM BothSidesHeard == Spec => []BothHeard
<1>1. Spec => []TransferInv
  BY InitTransfer, StepTransfer, PTL DEF Spec
<1>2. TransferInv => BothHeard
  BY DEF TransferInv, BothHeard
<1> QED
  BY <1>1, <1>2, PTL

(***************************************************************************)
(* Datagrams that are lost, copied and reordered.                          *)
(***************************************************************************)
Flying(d) == IF d \in DOMAIN net THEN net[d] ELSE 0

PalTypes ==
  /\ DOMAIN pc = {"server"} \cup Pals /\ DOMAIN buf = DOMAIN pc /\ DOMAIN printed = DOMAIN pc
  /\ pc["server"] \in {"recv", "send"} /\ \A c \in Pals : pc[c] \in {"prompt", "recv", "end"}
  /\ printed["server"] = <<>> /\ \A c \in Pals : printed[c] \in Seq(Pals \X Nat)
  /\ text \in Seq(Pals \X Nat)

Mine(c) == 1..Count(c)
Ask(c, j) == Datagram(c, "server", <<c, j>>)
Answered(c, j) == Datagram("server", c, <<c, j>>)
Held(c, j) == IF pc["server"] = "send" /\ buf["server"].message = <<c, j>> THEN 1 ELSE 0

Alive(c, j) == Flying(Ask(c, j)) + Held(c, j) + Flying(Answered(c, j)) + Times(c, <<c, j>>)

\* Every message is with its client or on its way there and back, once for
\* every time it was sent or copied; a client waits for one answer at a time.
PalsInv == program = "uecho" =>
  /\ PalTypes /\ IsABag(net) /\ copied \in Nat
  /\ \A c \in Pals : Count(c) = Len(printed[c]) + (IF pc[c] = "recv" THEN 1 ELSE 0)
  /\ \A d \in DOMAIN net : \E c \in Pals : \E j \in Mine(c) : d \in {Ask(c, j), Answered(c, j)}
  /\ pc["server"] = "send" =>
       \E c \in Pals : \E j \in Mine(c) : buf["server"] = [message |-> <<c, j>>, clnt_adr |-> c]
  /\ \A c \in Pals : \A k \in 1..Len(printed[c]) :
       \E j \in 1..k : printed[c][k] = <<c, j>> /\ (copied = 0 => j = k)
  /\ \A c \in Pals : \A j \in Mine(c) :
       Alive(c, j) <= 1 + copied

Bound(j) == Datagram("host2", "host1", <<"host2", j>>)
HostInv == program = "bound" =>
  /\ DOMAIN pc = {"host1", "host2"} /\ DOMAIN printed = DOMAIN pc /\ IsABag(net) /\ copied \in Nat
  /\ pc["host2"] \in {"send", "end"} /\ text \in Seq({"host2"} \X Nat)
  /\ Len(text) <= IF pc["host2"] = "send" THEN 2 ELSE 3
  /\ printed["host1"] \in Seq({"host2"} \X Nat) /\ printed["host2"] = <<>>
  /\ \A d \in DOMAIN net : \E j \in 1..Len(text) : d = Bound(j)
  /\ \A k \in 1..Len(printed["host1"]) : \E j \in 1..Len(text) : printed["host1"][k] = <<"host2", j>>
  /\ \A j \in 1..Len(text) : Flying(Bound(j)) + Times("host1", <<"host2", j>>) <= 1 + copied

\* The lines that were sent: of an empty file what the buffer held before.
LinesSent == IF buf["sender"] = <<>> THEN {} ELSE (IF text[1] = 0 THEN 0 ELSE 1)..buf["sender"][2]
Line(r, j) == Datagram("sender", r, <<"news", j>>)
Again(j) == IF text[1] = j /\ text[2] # "end" /\ pc["sender"] = "end" THEN 1 ELSE 0
NewsInv == program = "news" =>
  /\ DOMAIN pc = {"sender"} \cup Pals /\ DOMAIN buf = DOMAIN pc /\ DOMAIN printed = DOMAIN pc
  /\ pc["sender"] \in {"send", "end"} /\ IsABag(net) /\ copied \in Nat /\ text \in Nat \X Stops
  /\ buf["sender"] = <<>> \/ \E j \in 0..text[1] : buf["sender"] = <<"news", j>> /\ (j = 0 => text[1] = 0)
  /\ pc["sender"] = "send" /\ buf["sender"] # <<>> =>
       buf["sender"][2] > 0 /\ (buf["sender"][2] = text[1] => text[2] # "end")
  /\ printed["sender"] = <<>> /\ \A r \in Pals : printed[r] \in Seq({"news"} \X Nat)
  /\ \A d \in DOMAIN net : \E r \in Pals : \E j \in LinesSent : d = Line(r, j)
  /\ \A r \in Pals : \A k \in 1..Len(printed[r]) : \E j \in LinesSent : printed[r][k] = <<"news", j>>
  /\ \A r \in Pals : \A j \in LinesSent : Flying(Line(r, j)) + Times(r, <<"news", j>>) <= 1 + copied + Again(j)

LEMMA Bagged ==
  ASSUME IsABag(net), NEW e
  PROVE  Flying(e) \in Nat /\ (e \in DOMAIN net <=> Flying(e) > 0)
<1>1. net \in [DOMAIN net -> {n \in Nat : n > 0}]
  BY DEF IsABag
<1> QED
  BY <1>1 DEF Flying

LEMMA BagPlus ==
  ASSUME IsABag(net), NEW ds, net' = net (+) SetToBag(ds)
  PROVE  /\ IsABag(net') /\ DOMAIN net' = DOMAIN net \cup ds /\ \A e : Flying(e)' \in Nat
         /\ \A e : Flying(e)' = Flying(e) + (IF e \in ds THEN 1 ELSE 0)
<1> DEFINE g == [e \in DOMAIN net \cup ds |->
                   (IF e \in DOMAIN net THEN net[e] ELSE 0) + (IF e \in ds THEN 1 ELSE 0)]
<1>0. net \in [DOMAIN net -> {n \in Nat : n > 0}]
  BY DEF IsABag
<1>1. net' = g
  BY DEF SetToBag, (+)
<1>2. /\ DOMAIN net' = DOMAIN net \cup ds
      /\ \A e \in DOMAIN net \cup ds :
           net'[e] = (IF e \in DOMAIN net THEN net[e] ELSE 0) + (IF e \in ds THEN 1 ELSE 0)
  BY <1>1
<1>3. IsABag(net')
  <2>1. net' = [e \in DOMAIN net' |-> net'[e]]
    BY <1>1
  <2>2. \A e \in DOMAIN net' : net'[e] \in {n \in Nat : n > 0}
    BY <1>0, <1>2
  <2> QED
    BY <2>1, <2>2 DEF IsABag
<1> HIDE DEF g
<1>4. ASSUME NEW e PROVE Flying(e)' = Flying(e) + (IF e \in ds THEN 1 ELSE 0) /\ Flying(e)' \in Nat
  BY <1>0, <1>2 DEF Flying
<1> QED
  BY <1>2, <1>3, <1>4

LEMMA BagMinus ==
  ASSUME IsABag(net), NEW d \in BagToSet(net), net' = net (-) SetToBag({d})
  PROVE  /\ IsABag(net') /\ DOMAIN net' \subseteq DOMAIN net /\ Flying(d) > 0
         /\ \A e : Flying(e)' \in Nat
         /\ \A e : Flying(e)' = Flying(e) - (IF e = d THEN 1 ELSE 0)
<1>0. net \in [DOMAIN net -> {n \in Nat : n > 0}] /\ d \in DOMAIN net
  BY DEF IsABag, BagToSet
<1> DEFINE f == [e \in DOMAIN net |-> IF e = d THEN net[e] - 1 ELSE net[e]]
           g == [e \in {x \in DOMAIN net : f[x] > 0} |-> f[e]]
<1>1. net' = g
  BY DEF SetToBag, (-)
<1>2. \A e \in DOMAIN net : f[e] = (IF e = d THEN net[e] - 1 ELSE net[e]) /\ f[e] \in Nat
  BY <1>0
<1> HIDE DEF f
<1>3. IsABag(net')
  <2>1. net' = [e \in DOMAIN net' |-> net'[e]]
    BY <1>1
  <2>2. \A e \in DOMAIN net' : net'[e] \in {n \in Nat : n > 0}
    BY <1>1, <1>2
  <2> QED
    BY <2>1, <2>2 DEF IsABag
<1>4. DOMAIN net' = {x \in DOMAIN net : f[x] > 0} /\ \A e \in DOMAIN net' : net'[e] = f[e]
  BY <1>1
<1> HIDE DEF g
<1>5. ASSUME NEW e
      PROVE  Flying(e)' = Flying(e) - (IF e = d THEN 1 ELSE 0) /\ Flying(e)' \in Nat
  <2>1. CASE e \in DOMAIN net
    <3>1. net[e] \in Nat /\ f[e] \in Nat /\ f[e] = (IF e = d THEN net[e] - 1 ELSE net[e])
      BY <1>0, <1>2, <2>1
    <3>2. Flying(e)' = f[e]
      BY <1>4, <2>1, <3>1 DEF Flying
    <3> QED
      BY <2>1, <3>1, <3>2 DEF Flying
  <2>2. CASE e \notin DOMAIN net
    BY <1>0, <1>4, <2>2 DEF Flying
  <2> QED
    BY <2>1, <2>2
<1> QED
  BY <1>0, <1>3, <1>4, <1>5 DEF Flying

\* A fault adds a copy of one datagram, and counts it, or takes one away.
LEMMA Faults ==
  ASSUME IsABag(net), copied \in Nat, Network
  PROVE  /\ IsABag(net') /\ DOMAIN net' \subseteq DOMAIN net /\ copied' \in Nat /\ copied <= copied'
         /\ UNCHANGED <<pc, buf, text, printed>> /\ \A e : Flying(e)' \in Nat
         /\ \E d : \A e : Flying(e)' <= Flying(e) + (IF e = d THEN copied' - copied ELSE 0)
<1>1. PICK d \in BagToSet(net) : Loses(d) \/ Copies(d)
  BY DEF Network
<1>2. \A e : Flying(e) \in Nat
  BY Bagged
<1>3. CASE Loses(d)
  <2>1. copied' = copied /\ IsABag(net') /\ DOMAIN net' \subseteq DOMAIN net
        /\ \A e : Flying(e)' \in Nat /\ Flying(e)' = Flying(e) - (IF e = d THEN 1 ELSE 0)
    BY <1>3, BagMinus DEF Loses
  <2>2. \A e : Flying(e)' <= Flying(e) + (IF e = d THEN copied' - copied ELSE 0)
    BY <1>2, <2>1
  <2> QED
    BY <2>1, <2>2 DEF Network
<1>4. CASE Copies(d)
  <2>1. copied' = copied + 1 /\ IsABag(net') /\ DOMAIN net' = DOMAIN net \cup {d}
        /\ \A e : Flying(e)' \in Nat /\ Flying(e)' = Flying(e) + (IF e \in {d} THEN 1 ELSE 0)
    BY <1>4, BagPlus DEF Copies
  <2>2. \A e : Flying(e)' <= Flying(e) + (IF e = d THEN copied' - copied ELSE 0)
    BY <1>2, <2>1
  <2> QED
    BY <2>1, <2>2 DEF Network, BagToSet
<1> QED
  BY <1>1, <1>3, <1>4

\* How many elements of q are in T.
Tally(q, T) == Cardinality({k \in DOMAIN q : q[k] \in T})

LEMMA TallyNat ==
  ASSUME NEW S, NEW q \in Seq(S), NEW T
  PROVE  Tally(q, T) \in Nat /\ (Tally(q, T) > 0 <=> \E k \in 1..Len(q) : q[k] \in T)
<1> DEFINE K == {k \in DOMAIN q : q[k] \in T}
<1>1. IsFiniteSet(1..Len(q)) /\ DOMAIN q = 1..Len(q)
  BY FS_Interval, LenProperties
<1>2. IsFiniteSet(K)
  BY <1>1, FS_Subset
<1>3. Cardinality(K) \in Nat /\ (Cardinality(K) = 0 <=> K = {})
  BY <1>2, FS_CardinalityType, FS_EmptySet
<1> QED
  BY <1>1, <1>3 DEF Tally

LEMMA TallyAppend ==
  ASSUME NEW S, NEW q \in Seq(S), NEW x \in S, NEW T
  PROVE  /\ Tally(q \o <<x>>, T) = Tally(q, T) + (IF x \in T THEN 1 ELSE 0)
         /\ q \o <<x>> \in Seq(S) /\ Len(q \o <<x>>) = Len(q) + 1 /\ Append(q, x) = q \o <<x>>
         /\ \A k \in 1..Len(q) : (q \o <<x>>)[k] = q[k]
         /\ (q \o <<x>>)[Len(q) + 1] = x
<1> DEFINE w == q \o <<x>>  K == {k \in DOMAIN q : q[k] \in T}  L == {k \in DOMAIN w : w[k] \in T}
<1>1. /\ w \in Seq(S) /\ Len(w) = Len(q) + 1 /\ \A k \in 1..Len(q) : w[k] = q[k]
      /\ w[Len(q) + 1] = x /\ DOMAIN w = 1..(Len(q) + 1) /\ DOMAIN q = 1..Len(q) /\ Len(q) \in Nat
      /\ Append(q, x) = w
  OBVIOUS
<1>2. IsFiniteSet(K)
  <2>1. IsFiniteSet(1..Len(q))
    BY <1>1, FS_Interval
  <2> QED
    BY <1>1, <2>1, FS_Subset
<1> HIDE DEF w
<1>3. CASE x \in T
  <2>1. L = K \cup {Len(q) + 1} /\ Len(q) + 1 \notin K
    BY <1>1, <1>3
  <2>2. Cardinality(K \cup {Len(q) + 1}) = Cardinality(K) + 1
    BY <1>2, <2>1, FS_AddElement
  <2>3. Tally(w, T) = Cardinality(L) /\ Tally(q, T) = Cardinality(K)
    BY DEF Tally
  <2>4. Tally(w, T) = Tally(q, T) + 1
    BY <2>1, <2>2, <2>3
  <2> QED
    BY <1>1, <1>3, <2>4 DEF w
<1>4. CASE x \notin T
  <2>1. L = K
    BY <1>1, <1>4
  <2>2. Cardinality(K) \in Nat
    BY <1>2, FS_CardinalityType
  <2>3. Tally(w, T) = Tally(q, T) /\ Tally(q, T) \in Nat
    BY <2>1, <2>2 DEF Tally
  <2>4. Tally(w, T) = Tally(q, T) + 0
    BY <2>3
  <2> QED
    BY <1>1, <1>4, <2>4 DEF w
<1> QED
  BY <1>3, <1>4

LEMMA PalsTallies ==
  ASSUME PalTypes
  PROVE  /\ \A c \in Pals : Count(c) = Tally(text, {c} \X Nat) /\ Count(c) \in Nat
         /\ \A c \in Pals : \A j \in Nat : /\ Times(c, <<c, j>>) = Tally(printed[c], {<<c, j>>})
                                           /\ Times(c, <<c, j>>) \in Nat
<1>1. ASSUME NEW c \in Pals PROVE Count(c) = Tally(text, {c} \X Nat) /\ Count(c) \in Nat
  <2>1. \A k \in DOMAIN text : text[k] \in Pals \X Nat
    BY DEF PalTypes
  <2>2. {k \in DOMAIN text : text[k][1] = c} = {k \in DOMAIN text : text[k] \in {c} \X Nat}
    BY <2>1
  <2>3. Tally(text, {c} \X Nat) \in Nat
    BY TallyNat DEF PalTypes
  <2> QED
    BY <2>2, <2>3 DEF Count, Tally
<1>2. ASSUME NEW c \in Pals, NEW j \in Nat
      PROVE  Times(c, <<c, j>>) = Tally(printed[c], {<<c, j>>}) /\ Times(c, <<c, j>>) \in Nat
  <2>1. Tally(printed[c], {<<c, j>>}) \in Nat
    BY TallyNat DEF PalTypes
  <2>2. {k \in DOMAIN printed[c] : printed[c][k] = <<c, j>>} = {k \in DOMAIN printed[c] : printed[c][k] \in {<<c, j>>}}
    OBVIOUS
  <2> QED
    BY <2>1, <2>2 DEF Times, Tally
<1> QED
  BY <1>1, <1>2

LEMMA MailApart ==
  ASSUME NEW c \in Pals, NEW j, NEW e \in Pals, NEW k
  PROVE  /\ Ask(c, j) # Answered(e, k)
         /\ (Ask(c, j) = Ask(e, k)) = (c = e /\ j = k)
         /\ (Answered(c, j) = Answered(e, k)) = (c = e /\ j = k)
         /\ (<<c, j>> = <<e, k>>) = (c = e /\ j = k)
         /\ Ask(c, j).to = "server" /\ Ask(c, j).from = c /\ Ask(c, j).msg = <<c, j>>
         /\ Answered(c, j).to = c /\ Answered(c, j).msg = <<c, j>>
         /\ "server" \notin Pals
BY DEF Ask, Answered, Datagram, Pals

LEMMA InitPals == Init => PalsInv
<1> SUFFICES ASSUME Init, program = "uecho" PROVE PalsInv
  BY DEF PalsInv
<1>1. DatagramInit
  BY OwnStart DEF DatagramPrograms
<1>2. /\ pc = [server |-> "recv", one |-> "prompt", two |-> "prompt"] /\ text = <<>>
      /\ buf = [h \in DOMAIN pc |-> <<>>] /\ printed = buf /\ net = EmptyBag /\ copied = 0
  BY <1>1 DEF DatagramInit, NoDatagrams
<1>3. DOMAIN pc = {"server"} \cup Pals /\ pc["server"] = "recv" /\ \A c \in Pals : pc[c] = "prompt"
  BY <1>2 DEF Pals
<1>4. DOMAIN net = {} /\ IsABag(net)
  BY <1>2 DEF EmptyBag, SetToBag, IsABag
<1>5. PalTypes
  BY <1>2, <1>3 DEF PalTypes
<1>6. \A c \in Pals : Count(c) = 0
  <2> SUFFICES ASSUME NEW c \in Pals PROVE Count(c) = 0
    OBVIOUS
  <2>1. {k \in DOMAIN text : text[k][1] = c} = {}
    BY <1>2
  <2> QED
    BY <2>1, FS_EmptySet DEF Count
<1>7. \A c \in Pals : printed[c] = <<>> /\ Len(printed[c]) = 0 /\ Mine(c) = {}
  <2>1. \A c \in Pals : printed[c] = <<>> /\ Mine(c) = 1..0
    BY <1>2, <1>3, <1>6 DEF Mine
  <2> QED
    BY <2>1
<1>8. copied \in Nat
  BY <1>2
<1>9. /\ \A c \in Pals : Count(c) = Len(printed[c]) + (IF pc[c] = "recv" THEN 1 ELSE 0)
      /\ \A c \in Pals : 1..Len(printed[c]) = {}
      /\ pc["server"] # "send"
  <2> SUFFICES ASSUME NEW c \in Pals
               PROVE  /\ Count(c) = Len(printed[c]) + (IF pc[c] = "recv" THEN 1 ELSE 0)
                      /\ 1..Len(printed[c]) = {}
    BY <1>3
  <2>1. Count(c) = 0 /\ Len(printed[c]) = 0 /\ pc[c] # "recv"
    BY <1>3, <1>6, <1>7
  <2> QED
    BY <2>1
<1> QED
  BY <1>4, <1>5, <1>7, <1>8, <1>9 DEF PalsInv

LEMMA StepPals == PalsInv /\ [Next]_vars => PalsInv'
<1> SUFFICES ASSUME PalsInv, [Next]_vars, program' = "uecho" PROVE PalsInv'
  BY DEF PalsInv
<1>0. program' = program /\ program = "uecho" /\ program \in DatagramPrograms
  BY OwnSteps DEF DatagramPrograms
<1>t. PalTypes /\ IsABag(net) /\ copied \in Nat
  BY <1>0 DEF PalsInv
<1>n. /\ \A e : Flying(e) \in Nat
      /\ \A c \in Pals : \A j \in Nat : Times(c, <<c, j>>) \in Nat /\ Held(c, j) \in {0, 1}
      /\ \A c \in Pals : Count(c) \in Nat
  BY <1>t, Bagged, PalsTallies DEF Held
<1>m. \A c \in Pals : \A j \in Mine(c) : j \in Nat
  BY <1>n DEF Mine
<1>1. CASE UNCHANGED vars
  <2>1. UNCHANGED <<pc, buf, text, printed, net, copied>>
    BY <1>1 DEF vars, progVars, netFaults
  <2>2. /\ PalTypes' /\ IsABag(net') /\ copied' \in Nat
        /\ \A c \in Pals : Count(c)' = Count(c) /\ Mine(c)' = Mine(c)
        /\ \A c \in Pals : \A j \in Nat : Alive(c, j)' = Alive(c, j)
    BY <1>t, <2>1 DEF PalTypes, Alive, Flying, Held, Times, Mine, Count
  <2>3. \A c \in Pals : \A j \in Mine(c)' : Alive(c, j)' <= 1 + copied'
    BY <1>0, <1>m, <2>1, <2>2 DEF PalsInv
  <2> QED
    BY <1>0, <2>1, <2>2, <2>3, ZenonT(30) DEF PalsInv
<1>2. CASE Network
  <2>1. /\ IsABag(net') /\ DOMAIN net' \subseteq DOMAIN net /\ copied' \in Nat /\ copied <= copied'
        /\ UNCHANGED <<pc, buf, text, printed>> /\ \A e : Flying(e)' \in Nat
    BY <1>2, <1>t, Faults
  <2>2. PICK d : \A e : Flying(e)' <= Flying(e) + (IF e = d THEN copied' - copied ELSE 0)
    BY <1>2, <1>t, Faults
  <2>3. /\ PalTypes' /\ \A c \in Pals : Count(c)' = Count(c) /\ Mine(c)' = Mine(c)
        /\ \A c \in Pals : \A j \in Nat : Held(c, j)' = Held(c, j) /\ Times(c, <<c, j>>)' = Times(c, <<c, j>>)
    BY <1>t, <2>1 DEF PalTypes, Count, Mine, Held, Times
  <2>4. ASSUME NEW c \in Pals, NEW j \in Mine(c) PROVE Alive(c, j)' <= 1 + copied'
    <3>1. /\ Flying(Ask(c, j))' <= Flying(Ask(c, j)) + (IF Ask(c, j) = d THEN copied' - copied ELSE 0)
          /\ Flying(Answered(c, j))' <= Flying(Answered(c, j)) + (IF Answered(c, j) = d THEN copied' - copied ELSE 0)
          /\ Ask(c, j) # Answered(c, j)
      BY <2>2, MailApart
    <3>2. Alive(c, j) <= 1 + copied /\ j \in Nat
      BY <1>0, <1>m DEF PalsInv
    <3>3. /\ Flying(Ask(c, j)) \in Nat /\ Flying(Answered(c, j)) \in Nat /\ Times(c, <<c, j>>) \in Nat
          /\ Held(c, j) \in Nat /\ Held(c, j)' = Held(c, j) /\ Times(c, <<c, j>>)' = Times(c, <<c, j>>)
          /\ Flying(Ask(c, j))' \in Nat /\ Flying(Answered(c, j))' \in Nat
      BY <1>n, <2>1, <2>3, <3>2
    <3>4. Alive(c, j)' = Flying(Ask(c, j))' + Held(c, j)' + Flying(Answered(c, j))' + Times(c, <<c, j>>)'
      BY DEF Alive
    <3>5. Flying(Ask(c, j))' + Flying(Answered(c, j))'
            <= Flying(Ask(c, j)) + Flying(Answered(c, j)) + (copied' - copied)
      BY <1>t, <2>1, <3>1, <3>3
    <3> QED
      BY <1>t, <2>1, <3>2, <3>3, <3>4, <3>5 DEF Alive
  <2>5. /\ \A e \in DOMAIN net' : \E c \in Pals : \E j \in Mine(c)' : e \in {Ask(c, j), Answered(c, j)}
        /\ \A c \in Pals : Count(c)' = Len(printed'[c]) + (IF pc'[c] = "recv" THEN 1 ELSE 0)
    BY <1>0, <2>1, <2>3 DEF PalsInv
  <2>6. pc'["server"] = "send" =>
           \E c \in Pals : \E j \in Mine(c)' : buf'["server"] = [message |-> <<c, j>>, clnt_adr |-> c]
    BY <1>0, <2>1, <2>3 DEF PalsInv
  <2>7. \A c \in Pals : \A k \in 1..Len(printed'[c]) :
          \E j \in 1..k : printed'[c][k] = <<c, j>> /\ (copied' = 0 => j = k)
    <3>1. copied' = 0 => copied = 0
      BY <1>t, <2>1
    <3> QED
      BY <1>0, <2>1, <3>1 DEF PalsInv
  <2> QED
    BY <1>0, <2>1, <2>3, <2>4, <2>5, <2>6, <2>7 DEF PalsInv
<1>3. ASSUME NEW d \in BagToSet(net), EchoRecv(d) PROVE PalsInv'
  <2>1. /\ d \in DOMAIN net /\ d.to = "server" /\ pc["server"] = "recv"
        /\ pc' = [pc EXCEPT !["server"] = "send"]
        /\ buf' = [buf EXCEPT !["server"] = [message |-> d.msg, clnt_adr |-> d.from]]
        /\ UNCHANGED <<text, printed, copied>>
    BY <1>3 DEF EchoRecv, RecvFrom, Goes, BagToSet, Adr
  <2>a. PICK c0 \in Pals : \E j \in Mine(c0) : d \in {Ask(c0, j), Answered(c0, j)}
    BY <1>0, <2>1 DEF PalsInv
  <2>2. PICK j0 \in Mine(c0) : d = Ask(c0, j0)
    BY <2>1, <2>a, MailApart
  <2>3. /\ IsABag(net') /\ DOMAIN net' \subseteq DOMAIN net
        /\ \A e : Flying(e)' = Flying(e) - (IF e = d THEN 1 ELSE 0)
    BY <1>3, <1>t, BagMinus DEF EchoRecv, RecvFrom
  <2>4. /\ PalTypes' /\ pc'["server"] = "send" /\ \A c \in Pals : pc'[c] = pc[c]
        /\ buf'["server"] = [message |-> <<c0, j0>>, clnt_adr |-> c0]
    <3>1. "server" \notin Pals /\ d.msg = <<c0, j0>> /\ d.from = c0
      BY <2>2, MailApart
    <3>2. pc'["server"] = "send" /\ \A c \in Pals : pc'[c] = pc[c]
      BY <1>t, <2>1, <3>1 DEF PalTypes
    <3>3. buf'["server"] = [message |-> <<c0, j0>>, clnt_adr |-> c0]
      BY <1>t, <2>1, <3>1 DEF PalTypes
    <3>4. PalTypes'
      BY <1>t, <2>1, <3>2 DEF PalTypes
    <3> QED
      BY <3>2, <3>3, <3>4
  <2>5. /\ \A c \in Pals : Count(c)' = Count(c) /\ Mine(c)' = Mine(c)
        /\ \A c \in Pals : \A j \in Nat : Times(c, <<c, j>>)' = Times(c, <<c, j>>)
    BY <2>1 DEF Count, Mine, Times
  <2>6. ASSUME NEW c \in Pals, NEW j \in Mine(c) PROVE Alive(c, j)' <= 1 + copied'
    <3>1. /\ Flying(Ask(c, j))' = Flying(Ask(c, j)) - (IF c = c0 /\ j = j0 THEN 1 ELSE 0)
          /\ Flying(Answered(c, j))' = Flying(Answered(c, j))
      BY <1>n, <2>2, <2>3, MailApart
    <3>2. Held(c, j) = 0 /\ Held(c, j)' = (IF c = c0 /\ j = j0 THEN 1 ELSE 0)
      BY <2>1, <2>4 DEF Held
    <3> QED
      BY <1>0, <1>m, <1>n, <1>t, <2>1, <2>5, <3>1, <3>2 DEF PalsInv, Alive
  <2> QED
    BY <1>0, <1>t, <2>1, <2>3, <2>4, <2>5, <2>6, ZenonT(30) DEF PalsInv
<1>4. CASE EchoSend
  <2>1. /\ pc["server"] = "send" /\ pc' = [pc EXCEPT !["server"] = "recv"]
        /\ Sends({Datagram("server", buf["server"].clnt_adr, buf["server"].message)})
        /\ UNCHANGED <<buf, text, printed, copied>>
    BY <1>4 DEF EchoSend, Moves, Sends
  <2>a. PICK c0 \in Pals : \E j \in Mine(c0) : buf["server"] = [message |-> <<c0, j>>, clnt_adr |-> c0]
    BY <1>0, <2>1 DEF PalsInv
  <2>2. PICK j0 \in Mine(c0) : buf["server"] = [message |-> <<c0, j0>>, clnt_adr |-> c0]
    BY <2>a
  <2>3. /\ IsABag(net') /\ DOMAIN net' = DOMAIN net \cup {Answered(c0, j0)}
        /\ \A e : Flying(e)' = Flying(e) + (IF e \in {Answered(c0, j0)} THEN 1 ELSE 0)
    <3>1. net' = net (+) SetToBag({Answered(c0, j0)})
      BY <2>1, <2>2 DEF Sends, Answered
    <3> QED
      BY <1>t, <3>1, BagPlus
  <2>4. PalTypes' /\ pc'["server"] = "recv" /\ \A c \in Pals : pc'[c] = pc[c]
    BY <1>t, <2>1, MailApart DEF PalTypes, Pals
  <2>5. /\ \A c \in Pals : Count(c)' = Count(c) /\ Mine(c)' = Mine(c)
        /\ \A c \in Pals : \A j \in Nat : Times(c, <<c, j>>)' = Times(c, <<c, j>>)
    BY <2>1 DEF Count, Mine, Times
  <2>6. ASSUME NEW c \in Pals, NEW j \in Mine(c) PROVE Alive(c, j)' <= 1 + copied'
    <3>1. /\ Flying(Ask(c, j))' = Flying(Ask(c, j))
          /\ Flying(Answered(c, j))' = Flying(Answered(c, j)) + (IF c = c0 /\ j = j0 THEN 1 ELSE 0)
      BY <1>n, <2>3, MailApart
    <3>2. Held(c, j)' = 0 /\ Held(c, j) = (IF c = c0 /\ j = j0 THEN 1 ELSE 0)
      BY <2>1, <2>2, <2>4 DEF Held
    <3> QED
      BY <1>0, <1>m, <1>n, <1>t, <2>1, <2>5, <3>1, <3>2 DEF PalsInv, Alive
  <2> QED
    BY <1>0, <1>t, <2>1, <2>3, <2>4, <2>5, <2>6, ZenonT(30) DEF PalsInv
<1>5. ASSUME NEW c0 \in Pals, ClientSends(c0) PROVE PalsInv'
  <2> DEFINE n == Count(c0) + 1
  <2>1. /\ pc[c0] = "prompt" /\ pc' = [pc EXCEPT ![c0] = "recv"] /\ Sends({Ask(c0, n)})
        /\ text' = Append(text, <<c0, n>>) /\ UNCHANGED <<buf, printed, copied>>
    BY <1>5 DEF ClientSends, Moves, Sends, Ask
  <2>2. n \in Nat /\ n \notin Mine(c0) /\ n - 1 = Count(c0) /\ Count(c0) = Len(printed[c0])
    BY <1>0, <1>n, <2>1, <1>t DEF PalsInv, Mine, PalTypes
  <2> HIDE DEF n
  <2>3. /\ IsABag(net') /\ DOMAIN net' = DOMAIN net \cup {Ask(c0, n)}
        /\ \A e : Flying(e)' = Flying(e) + (IF e \in {Ask(c0, n)} THEN 1 ELSE 0)
    BY <1>t, <2>1, BagPlus DEF Sends
  <2>4. text' = text \o <<<<c0, n>>>> /\ text' \in Seq(Pals \X Nat)
    <3>1. text \in Seq(Pals \X Nat) /\ <<c0, n>> \in Pals \X Nat
      BY <1>t, <2>2 DEF PalTypes
    <3>2. Append(text, <<c0, n>>) = text \o <<<<c0, n>>>> /\ text \o <<<<c0, n>>>> \in Seq(Pals \X Nat)
      BY ZenonT(30), <3>1, TallyAppend
    <3> QED
      BY <2>1, <3>2
  <2>5. /\ PalTypes' /\ pc'["server"] = pc["server"] /\ pc'[c0] = "recv"
        /\ \A c \in Pals : c # c0 => pc'[c] = pc[c]
    BY <1>t, <2>1, <2>4, MailApart DEF PalTypes
  <2>6. \A c \in Pals : Count(c)' = Count(c) + (IF c = c0 THEN 1 ELSE 0)
    <3> SUFFICES ASSUME NEW c \in Pals PROVE Count(c)' = Count(c) + (IF c = c0 THEN 1 ELSE 0)
      OBVIOUS
    <3>1. Count(c) = Tally(text, {c} \X Nat)
      BY <1>t, PalsTallies
    <3>2. Count(c)' = Tally(text', {c} \X Nat)
      <4>1. \A k \in DOMAIN text' : text'[k] \in Pals \X Nat
        BY <2>4
      <4>2. {k \in DOMAIN text' : text'[k][1] = c} = {k \in DOMAIN text' : text'[k] \in {c} \X Nat}
        BY <4>1
      <4> QED
        BY <4>2 DEF Count, Tally
    <3>3. Tally(text', {c} \X Nat) = Tally(text, {c} \X Nat) + (IF <<c0, n>> \in {c} \X Nat THEN 1 ELSE 0)
      <4>1. text \in Seq(Pals \X Nat) /\ <<c0, n>> \in Pals \X Nat
        BY <1>t, <2>2 DEF PalTypes
      <4>2. Tally(text \o <<<<c0, n>>>>, {c} \X Nat)
              = Tally(text, {c} \X Nat) + (IF <<c0, n>> \in {c} \X Nat THEN 1 ELSE 0)
        BY SMTT(30), <4>1, TallyAppend
      <4> QED
        BY <2>4, <4>2
    <3> QED
      BY <2>2, <3>1, <3>2, <3>3
  <2>7. /\ \A c \in Pals : Mine(c) \subseteq Mine(c)' /\ \A j \in Mine(c)' : j \in Mine(c) \/ (c = c0 /\ j = n)
        /\ n \in Mine(c0)' /\ \A c \in Pals : \A j \in Mine(c)' : j \in Nat
    BY <1>n, <2>2, <2>6 DEF Mine
  <2>8. ASSUME NEW c \in Pals, NEW j \in Mine(c)' PROVE Alive(c, j)' <= 1 + copied'
    <3>1. /\ Flying(Ask(c, j))' = Flying(Ask(c, j)) + (IF c = c0 /\ j = n THEN 1 ELSE 0)
          /\ Flying(Answered(c, j))' = Flying(Answered(c, j))
      BY <1>n, <2>3, MailApart
    <3>2. Held(c, j)' = Held(c, j) /\ Times(c, <<c, j>>)' = Times(c, <<c, j>>)
      BY <2>1, <2>5 DEF Held, Times
    <3>3. CASE j \in Mine(c)
      <4>1. ~(c = c0 /\ j = n)
        BY <2>2, <3>3
      <4> QED
        BY <1>0, <1>m, <1>n, <1>t, <2>1, <3>1, <3>2, <3>3, <4>1 DEF PalsInv, Alive
    <3>4. CASE c = c0 /\ j = n
      <4>1. Flying(Ask(c0, n)) = 0 /\ Flying(Answered(c0, n)) = 0
        <5>1. ASSUME NEW e \in DOMAIN net PROVE e # Ask(c0, n) /\ e # Answered(c0, n)
          <6>1. PICK c1 \in Pals : \E j1 \in Mine(c1) : e \in {Ask(c1, j1), Answered(c1, j1)}
            BY <1>0 DEF PalsInv
          <6>2. PICK j1 \in Mine(c1) : e \in {Ask(c1, j1), Answered(c1, j1)}
            BY <6>1
          <6>3. ~(c0 = c1 /\ n = j1)
            BY <2>2, <6>2
          <6> QED
            BY <6>2, <6>3, MailApart
        <5> QED
          BY <5>1 DEF Flying
      <4>2. Held(c0, n) = 0
        <5>1. ASSUME pc["server"] = "send" PROVE buf["server"].message # <<c0, n>>
          <6>1. PICK c1 \in Pals : \E j1 \in Mine(c1) : buf["server"] = [message |-> <<c1, j1>>, clnt_adr |-> c1]
            BY <1>0, <5>1 DEF PalsInv
          <6>2. PICK j1 \in Mine(c1) : buf["server"] = [message |-> <<c1, j1>>, clnt_adr |-> c1]
            BY <6>1
          <6>3. ~(c0 = c1 /\ n = j1)
            BY <2>2, <6>2
          <6> QED
            BY <6>2, <6>3, MailApart
        <5> QED
          BY <5>1 DEF Held
      <4>3. Times(c0, <<c0, n>>) = 0
        <5>1. \A k \in 1..Len(printed[c0]) : printed[c0][k] \notin {<<c0, n>>}
          <6> SUFFICES ASSUME NEW k \in 1..Len(printed[c0]) PROVE printed[c0][k] \notin {<<c0, n>>}
            OBVIOUS
          <6>1. PICK i \in 1..k : printed[c0][k] = <<c0, i>>
            BY <1>0 DEF PalsInv
          <6>2. i # n
            BY <2>2, <6>1
          <6> QED
            BY <6>1, <6>2
        <5>2. printed[c0] \in Seq(Pals \X Nat)
          BY <1>t DEF PalTypes
        <5>3. Tally(printed[c0], {<<c0, n>>}) \in Nat /\ ~(Tally(printed[c0], {<<c0, n>>}) > 0)
          BY <5>1, <5>2, TallyNat
        <5>4. Times(c0, <<c0, n>>) = Tally(printed[c0], {<<c0, n>>})
          BY <1>t, <2>2, PalsTallies
        <5> QED
          BY <5>3, <5>4
      <4> QED
        BY <1>t, <2>1, <3>1, <3>2, <3>4, <4>1, <4>2, <4>3 DEF Alive
    <3> QED
      BY <2>7, <3>3, <3>4
  <2>9. \A c \in Pals : Count(c)' = Len(printed'[c]) + (IF pc'[c] = "recv" THEN 1 ELSE 0)
    <3> SUFFICES ASSUME NEW c \in Pals PROVE Count(c)' = Len(printed'[c]) + (IF pc'[c] = "recv" THEN 1 ELSE 0)
      OBVIOUS
    <3>1. /\ Count(c) = Len(printed[c]) + (IF pc[c] = "recv" THEN 1 ELSE 0)
          /\ Count(c)' = Count(c) + (IF c = c0 THEN 1 ELSE 0) /\ printed'[c] = printed[c]
      BY <1>0, <2>1, <2>6 DEF PalsInv
    <3>2. Len(printed[c]) \in Nat
      BY <1>t, LenProperties DEF PalTypes
    <3>3. CASE c = c0
      <4>1. pc[c] = "prompt" /\ pc'[c] = "recv"
        BY <2>1, <2>5, <3>3
      <4>2. Count(c) = Len(printed[c]) + 0
        BY <3>1, <4>1
      <4>a. Count(c) = Len(printed[c])
        BY <3>2, <4>2
      <4>b. printed'[c] = printed[c]
        BY <3>1
      <4>3. Count(c) = Len(printed'[c])
        BY <4>a, <4>b
      <4>4. Count(c)' = Count(c) + 1
        BY <3>1, <3>3
      <4> QED
        BY <4>1, <4>3, <4>4
    <3>4. CASE c # c0
      <4>1. pc[c] = pc'[c]
        BY <2>5, <3>4
      <4>2. Count(c)' = Count(c) + 0 /\ Count(c) \in Nat
        BY <1>n, <3>1, <3>4
      <4>3. Count(c)' = Count(c)
        BY <4>2
      <4> QED
        BY <3>1, <4>1, <4>3
    <3> QED
      BY <3>3, <3>4
  <2>10. \A d \in DOMAIN net' : \E c \in Pals : \E j \in Mine(c)' : d \in {Ask(c, j), Answered(c, j)}
    BY <1>0, <2>3, <2>7 DEF PalsInv
  <2>11. pc'["server"] = "send" =>
           \E c \in Pals : \E j \in Mine(c)' : buf'["server"] = [message |-> <<c, j>>, clnt_adr |-> c]
    BY <1>0, <2>1, <2>5, <2>7 DEF PalsInv
  <2> QED
    BY <1>0, <1>t, <2>1, <2>3, <2>5, <2>8, <2>9, <2>10, <2>11, ZenonT(30) DEF PalsInv
<1>6. ASSUME NEW c0 \in Pals, NEW d \in BagToSet(net), ClientRecv(c0, d) PROVE PalsInv'
  <2>1. /\ d \in DOMAIN net /\ d.to = c0 /\ pc[c0] = "recv" /\ pc' = [pc EXCEPT ![c0] = "prompt"]
        /\ printed' = [printed EXCEPT ![c0] = @ \o <<d.msg>>]
        /\ UNCHANGED <<buf, text, copied>>
    BY <1>6 DEF ClientRecv, RecvFrom, Moves, Prints, BagToSet
  <2>2. PICK j0 \in Mine(c0) : d = Answered(c0, j0)
    <3>1. PICK c \in Pals : \E j \in Mine(c) : d \in {Ask(c, j), Answered(c, j)}
      BY <1>0, <2>1 DEF PalsInv
    <3> QED
      BY <2>1, <3>1, MailApart
  <2>3. /\ IsABag(net') /\ DOMAIN net' \subseteq DOMAIN net /\ Flying(d) > 0
        /\ \A e : Flying(e)' = Flying(e) - (IF e = d THEN 1 ELSE 0)
    BY <1>6, <1>t, BagMinus DEF ClientRecv, RecvFrom
  <2> DEFINE q == printed[c0]
  <2>4. q \in Seq(Pals \X Nat) /\ Len(q) \in Nat /\ <<c0, j0>> \in Pals \X Nat /\ j0 \in 1..(Len(q) + 1)
    <3>1. q \in Seq(Pals \X Nat)
      BY <1>t DEF PalTypes
    <3>2. Len(q) \in Nat /\ Count(c0) = Len(q) + 1
      BY <1>0, <2>1, <3>1, LenProperties DEF PalsInv
    <3> QED
      BY <1>m, <2>2, <3>1, <3>2 DEF Mine
  <2>5. /\ printed'[c0] = q \o <<<<c0, j0>>>> /\ \A c \in Pals : c # c0 => printed'[c] = printed[c]
        /\ printed'["server"] = <<>> /\ DOMAIN printed' = DOMAIN printed
    <3>1. "server" \notin Pals /\ d.msg = <<c0, j0>> /\ DOMAIN printed = {"server"} \cup Pals
      <4>1. DOMAIN printed = {"server"} \cup Pals
        BY <1>t DEF PalTypes
      <4>2. Answered(c0, j0).msg = <<c0, j0>> /\ "server" \notin Pals
        BY MailApart
      <4> QED
        BY <2>2, <4>1, <4>2
    <3>2. printed'[c0] = q \o <<<<c0, j0>>>> /\ DOMAIN printed' = DOMAIN printed
      BY <2>1, <3>1
    <3>3. \A c \in {"server"} \cup Pals : c # c0 => printed'[c] = printed[c]
      BY <2>1, <3>1
    <3>4. printed["server"] = <<>>
      BY <1>t DEF PalTypes
    <3> QED
      BY <3>1, <3>2, <3>3, <3>4
  <2>6. /\ q \o <<<<c0, j0>>>> \in Seq(Pals \X Nat) /\ Len(q \o <<<<c0, j0>>>>) = Len(q) + 1
        /\ \A k \in 1..Len(q) : (q \o <<<<c0, j0>>>>)[k] = q[k]
        /\ (q \o <<<<c0, j0>>>>)[Len(q) + 1] = <<c0, j0>>
        /\ \A T : Tally(q \o <<<<c0, j0>>>>, T) = Tally(q, T) + (IF <<c0, j0>> \in T THEN 1 ELSE 0)
    <3> DEFINE x == <<c0, j0>>
    <3>1. q \in Seq(Pals \X Nat) /\ x \in Pals \X Nat
      BY <2>4
    <3> HIDE DEF q, x
    <3>2. ASSUME NEW T PROVE Tally(q \o <<x>>, T) = Tally(q, T) + (IF x \in T THEN 1 ELSE 0)
      BY <3>1, TallyAppend
    <3>3. /\ q \o <<x>> \in Seq(Pals \X Nat) /\ Len(q \o <<x>>) = Len(q) + 1
          /\ \A k \in 1..Len(q) : (q \o <<x>>)[k] = q[k]
          /\ (q \o <<x>>)[Len(q) + 1] = x
      BY <3>1, TallyAppend
    <3> QED
      BY <3>2, <3>3 DEF x
  <2>7. /\ PalTypes' /\ pc'["server"] = pc["server"] /\ pc'[c0] = "prompt"
        /\ \A c \in Pals : c # c0 => pc'[c] = pc[c]
    <3>1. pc'["server"] = pc["server"] /\ pc'[c0] = "prompt" /\ \A c \in Pals : c # c0 => pc'[c] = pc[c]
      <4>1. "server" \notin Pals /\ DOMAIN pc = {"server"} \cup Pals
        BY <1>t, MailApart DEF PalTypes
      <4> QED
        BY <2>1, <4>1
    <3>2. \A c \in Pals : printed'[c] \in Seq(Pals \X Nat)
      BY <1>t, <2>5, <2>6 DEF PalTypes
    <3> QED
      BY <1>t, <2>1, <2>5, <3>1, <3>2 DEF PalTypes
  <2>8. /\ \A c \in Pals : Count(c)' = Count(c) /\ Mine(c)' = Mine(c)
        /\ \A c \in Pals : \A j \in Nat : Held(c, j)' = Held(c, j)
    BY <2>1, <2>7 DEF Count, Mine, Held
  <2>9. \A c \in Pals : \A j \in Nat :
          Times(c, <<c, j>>)' = Times(c, <<c, j>>) + (IF c = c0 /\ j = j0 THEN 1 ELSE 0)
    <3> SUFFICES ASSUME NEW c \in Pals, NEW j \in Nat
                 PROVE  Times(c, <<c, j>>)' = Times(c, <<c, j>>) + (IF c = c0 /\ j = j0 THEN 1 ELSE 0)
      OBVIOUS
    <3>1. Times(c, <<c, j>>) = Tally(printed[c], {<<c, j>>}) /\ Times(c, <<c, j>>) \in Nat
      BY <1>t, PalsTallies
    <3>2. Times(c, <<c, j>>)' = Tally(printed'[c], {<<c, j>>})
      <4>1. {k \in DOMAIN printed'[c] : printed'[c][k] = <<c, j>>}
              = {k \in DOMAIN printed'[c] : printed'[c][k] \in {<<c, j>>}}
        OBVIOUS
      <4> QED
        BY <4>1 DEF Times, Tally
    <3>3. CASE c = c0
      BY <2>5, <2>6, <3>1, <3>2, <3>3
    <3>4. CASE c # c0
      BY <2>5, <3>1, <3>2, <3>4
    <3> QED
      BY <3>3, <3>4
  <2>10. ASSUME NEW c \in Pals, NEW j \in Mine(c) PROVE Alive(c, j)' <= 1 + copied'
    <3>1. Ask(c, j) # d /\ (Answered(c, j) = d <=> c = c0 /\ j = j0)
      BY <2>2, MailApart
    <3>2. /\ Flying(Ask(c, j))' = Flying(Ask(c, j))
          /\ Flying(Answered(c, j))' = Flying(Answered(c, j)) - (IF c = c0 /\ j = j0 THEN 1 ELSE 0)
      BY <1>n, <2>3, <3>1
    <3>3. /\ Flying(Ask(c, j)) \in Nat /\ Flying(Answered(c, j)) \in Nat /\ Times(c, <<c, j>>) \in Nat
          /\ Held(c, j) \in Nat /\ Held(c, j)' = Held(c, j)
          /\ Times(c, <<c, j>>)' = Times(c, <<c, j>>) + (IF c = c0 /\ j = j0 THEN 1 ELSE 0)
          /\ Alive(c, j) <= 1 + copied /\ copied' = copied
      BY <1>0, <1>m, <1>n, <2>1, <2>8, <2>9 DEF PalsInv
    <3> QED
      BY <1>t, <3>2, <3>3 DEF Alive
  <2>11. \A c \in Pals : Count(c)' = Len(printed'[c]) + (IF pc'[c] = "recv" THEN 1 ELSE 0)
    <3> SUFFICES ASSUME NEW c \in Pals PROVE Count(c)' = Len(printed'[c]) + (IF pc'[c] = "recv" THEN 1 ELSE 0)
      OBVIOUS
    <3>1. Count(c) = Len(printed[c]) + (IF pc[c] = "recv" THEN 1 ELSE 0) /\ Count(c)' = Count(c)
      BY <1>0, <2>8 DEF PalsInv
    <3>2. CASE c = c0
      <4>1. Len(printed'[c]) = Len(printed[c]) + 1 /\ Len(printed[c]) \in Nat
        BY <2>4, <2>5, <2>6, <3>2
      <4>2. pc[c] = "recv" /\ pc'[c] = "prompt"
        BY <2>1, <2>7, <3>2
      <4>3. Count(c)' = Len(printed[c]) + 1
        BY <3>1, <4>2
      <4> QED
        BY <4>1, <4>2, <4>3
    <3>3. CASE c # c0
      BY <2>5, <2>7, <3>1, <3>3
    <3> QED
      BY <3>2, <3>3
  \* Without copies an older answer, which was printed before, is not under way.
  <2>12. copied = 0 => j0 = Len(q) + 1
    <3> SUFFICES ASSUME copied = 0, j0 \in 1..Len(q) PROVE FALSE
      BY <2>4
    <3>1. q[j0] = <<c0, j0>>
      BY <1>0 DEF PalsInv
    <3>2. Times(c0, <<c0, j0>>) > 0
      <4>1. Tally(q, {<<c0, j0>>}) > 0
        BY <2>4, <3>1, TallyNat
      <4>2. j0 \in Nat
        BY <1>m
      <4>3. Times(c0, <<c0, j0>>) = Tally(q, {<<c0, j0>>})
        BY <1>t, <4>2, PalsTallies
      <4> QED
        BY <4>1, <4>3
    <3>3. Alive(c0, j0) <= 1
      BY <1>0 DEF PalsInv
    <3> QED
      BY <1>m, <1>n, <2>2, <2>3, <3>2, <3>3 DEF Alive
  <2>13. ASSUME NEW c \in Pals, NEW k \in 1..Len(printed'[c])
         PROVE  \E j \in 1..k : printed'[c][k] = <<c, j>> /\ (copied' = 0 => j = k)
    <3>1. CASE c = c0 /\ k = Len(q) + 1
      BY <2>1, <2>4, <2>5, <2>6, <2>12, <3>1
    <3>2. CASE c = c0 /\ k # Len(q) + 1
      <4>1. k \in 1..Len(q) /\ printed'[c][k] = printed[c][k]
        BY SMTT(30), <2>4, <2>5, <2>6, <3>2
      <4> QED
        BY <1>0, <2>1, <3>2, <4>1, SMTT(30) DEF PalsInv
    <3>3. CASE c # c0
      <4>1. printed'[c] = printed[c] /\ k \in 1..Len(printed[c]) /\ copied' = copied
        BY <2>1, <2>5, <3>3
      <4> QED
        BY <1>0, <4>1 DEF PalsInv
    <3> QED
      BY <3>1, <3>2, <3>3
  <2>14. \A e \in DOMAIN net' : \E c \in Pals : \E j \in Mine(c)' : e \in {Ask(c, j), Answered(c, j)}
    BY <1>0, <2>3, <2>8 DEF PalsInv
  <2>15. pc'["server"] = "send" =>
           \E c \in Pals : \E j \in Mine(c)' : buf'["server"] = [message |-> <<c, j>>, clnt_adr |-> c]
    BY <1>0, <2>1, <2>7, <2>8, ZenonT(30) DEF PalsInv
  <2> QED
    BY <1>0, <1>t, <2>1, <2>3, <2>7, <2>8, <2>10, <2>11, <2>13, <2>14, <2>15 DEF PalsInv
<1>7. ASSUME NEW c0 \in Pals, ClientQuits(c0) PROVE PalsInv'
  <2>1. /\ pc[c0] = "prompt" /\ pc' = [pc EXCEPT ![c0] = "end"]
        /\ UNCHANGED <<net, copied, buf, text, printed>>
    BY <1>7 DEF ClientQuits, Moves, netFaults
  <2>2. /\ PalTypes' /\ pc'["server"] = pc["server"]
        /\ \A c \in Pals : (pc'[c] = "recv") = (pc[c] = "recv")
    BY <1>t, <2>1, MailApart DEF PalTypes
  <2>3. /\ \A c \in Pals : Count(c)' = Count(c) /\ Mine(c)' = Mine(c)
        /\ \A c \in Pals : \A j \in Nat : Alive(c, j)' = Alive(c, j)
    BY <2>1, <2>2 DEF Count, Mine, Held, Times, Alive, Flying
  <2> QED
    <3>1. \A c \in Pals : \A j \in Mine(c)' : Alive(c, j)' <= 1 + copied'
      BY <1>0, <1>m, <2>1, <2>3 DEF PalsInv
    <3>2. \A c \in Pals : Count(c)' = Len(printed'[c]) + (IF pc'[c] = "recv" THEN 1 ELSE 0)
      BY <1>0, <2>1, <2>2, <2>3 DEF PalsInv
    <3>3. pc'["server"] = "send" =>
           \E c \in Pals : \E j \in Mine(c)' : buf'["server"] = [message |-> <<c, j>>, clnt_adr |-> c]
      BY <1>0, <2>1, <2>2, <2>3 DEF PalsInv
    <3> QED
      BY <1>0, <1>t, <2>1, <2>2, <2>3, <3>1, <3>2, <3>3 DEF PalsInv
<1>8. DatagramNext \/ UNCHANGED vars
  BY <1>0, OwnSteps
<1> QED
  BY <1>0, <1>1, <1>2, <1>3, <1>4, <1>5, <1>6, <1>7, <1>8
     DEF DatagramNext, DatagramStep, UechoServer, UechoClient

LEMMA BoundApart ==
  ASSUME NEW j, NEW k
  PROVE  /\ (Bound(j) = Bound(k)) <=> j = k
         /\ Bound(j).msg = <<"host2", j>> /\ ((<<"host2", j>> = <<"host2", k>>) <=> j = k)
BY DEF Bound, Datagram

LEMMA HostTallies ==
  ASSUME NEW h, NEW S, printed[h] \in Seq(S), NEW m
  PROVE  Times(h, m) = Tally(printed[h], {m}) /\ Times(h, m) \in Nat
<1>1. {k \in DOMAIN printed[h] : printed[h][k] = m} = {k \in DOMAIN printed[h] : printed[h][k] \in {m}}
  OBVIOUS
<1>2. Tally(printed[h], {m}) \in Nat
  BY TallyNat
<1> QED
  BY <1>1, <1>2 DEF Times, Tally

\* A receiver prints one more datagram.
LEMMA PrintsOne ==
  ASSUME NEW h \in DOMAIN printed, NEW S, printed[h] \in Seq(S), NEW x \in S, Prints(h, <<x>>)
  PROVE  /\ printed'[h] \in Seq(S) /\ DOMAIN printed' = DOMAIN printed
         /\ \A g \in DOMAIN printed : g # h => printed'[g] = printed[g]
         /\ Len(printed'[h]) = Len(printed[h]) + 1 /\ Len(printed[h]) \in Nat
         /\ \A k \in 1..Len(printed[h]) : printed'[h][k] = printed[h][k]
         /\ printed'[h][Len(printed[h]) + 1] = x
         /\ \A m : Times(h, m)' = Times(h, m) + (IF m = x THEN 1 ELSE 0)
<1> DEFINE q == printed[h]
<1>0. q \in Seq(S) /\ Len(q) \in Nat
  BY LenProperties
<1>1. /\ printed'[h] = q \o <<x>> /\ DOMAIN printed' = DOMAIN printed
      /\ \A g \in DOMAIN printed : g # h => printed'[g] = printed[g]
  BY DEF Prints
<1> HIDE DEF q
<1>2. /\ q \o <<x>> \in Seq(S) /\ Len(q \o <<x>>) = Len(q) + 1
      /\ \A k \in 1..Len(q) : (q \o <<x>>)[k] = q[k]
      /\ (q \o <<x>>)[Len(q) + 1] = x
  BY <1>0, TallyAppend
<1>3. ASSUME NEW m PROVE Times(h, m)' = Times(h, m) + (IF m = x THEN 1 ELSE 0)
  <2>1. Times(h, m) = Tally(q, {m})
    BY HostTallies DEF q
  <2>2. Times(h, m)' = Tally(printed'[h], {m})
    <3>1. {k \in DOMAIN printed'[h] : printed'[h][k] = m} = {k \in DOMAIN printed'[h] : printed'[h][k] \in {m}}
      OBVIOUS
    <3> QED
      BY <3>1 DEF Times, Tally
  <2>3. Tally(q \o <<x>>, {m}) = Tally(q, {m}) + (IF x \in {m} THEN 1 ELSE 0)
    BY <1>0, TallyAppend
  <2>4. (x \in {m}) <=> (m = x)
    OBVIOUS
  <2> QED
    BY <1>1, <2>1, <2>2, <2>3, <2>4
<1> QED
  BY <1>0, <1>1, <1>2, <1>3 DEF q

LEMMA InitHost == Init => HostInv
<1> SUFFICES ASSUME Init, program = "bound" PROVE HostInv
  BY DEF HostInv
<1>1. DatagramInit
  BY OwnStart DEF DatagramPrograms
<1>2. /\ pc = [host1 |-> "recv", host2 |-> "send"] /\ text = <<>>
      /\ buf = [h \in DOMAIN pc |-> <<>>] /\ printed = buf /\ net = EmptyBag /\ copied = 0
  BY <1>1 DEF DatagramInit, NoDatagrams
<1>3. DOMAIN pc = {"host1", "host2"} /\ pc["host2"] = "send" /\ printed["host1"] = <<>> /\ printed["host2"] = <<>>
  BY <1>2
<1>4. DOMAIN net = {} /\ IsABag(net)
  BY <1>2 DEF EmptyBag, SetToBag, IsABag
<1>5. DOMAIN printed = DOMAIN pc /\ copied \in Nat
  BY <1>2
<1>6. Len(text) = 0 /\ Len(printed["host1"]) = 0 /\ 1..0 = {}
  BY <1>2, <1>3
<1>7. text \in Seq({"host2"} \X Nat) /\ printed["host1"] \in Seq({"host2"} \X Nat)
  BY <1>2, <1>3
<1> QED
  BY <1>3, <1>4, <1>5, <1>6, <1>7 DEF HostInv

LEMMA StepHost == HostInv /\ [Next]_vars => HostInv'
<1> SUFFICES ASSUME HostInv, [Next]_vars, program' = "bound" PROVE HostInv'
  BY DEF HostInv
<1>0. program' = program /\ program = "bound" /\ program \in DatagramPrograms
  BY OwnSteps DEF DatagramPrograms
<1> DEFINE S == {"host2"} \X Nat  q == printed["host1"]
<1>t. /\ DOMAIN pc = {"host1", "host2"} /\ DOMAIN printed = DOMAIN pc /\ IsABag(net) /\ copied \in Nat
      /\ text \in Seq(S) /\ q \in Seq(S) /\ Len(text) \in Nat /\ printed["host2"] = <<>>
  BY <1>0, LenProperties DEF HostInv
<1>i. /\ pc["host2"] \in {"send", "end"} /\ Len(text) <= IF pc["host2"] = "send" THEN 2 ELSE 3
      /\ \A d \in DOMAIN net : \E j \in 1..Len(text) : d = Bound(j)
      /\ \A k \in 1..Len(q) : \E j \in 1..Len(text) : q[k] = <<"host2", j>>
      /\ \A j \in 1..Len(text) : Flying(Bound(j)) + Times("host1", <<"host2", j>>) <= 1 + copied
  BY <1>0 DEF HostInv
<1>n. \A j \in Nat : Flying(Bound(j)) \in Nat /\ Times("host1", <<"host2", j>>) \in Nat
  BY <1>t, Bagged, HostTallies
<1>1. CASE UNCHANGED vars
  <2>1. UNCHANGED <<pc, buf, text, printed, net, copied>>
    BY <1>1 DEF vars, progVars, netFaults
  <2>2. \A j : Flying(Bound(j))' = Flying(Bound(j)) /\ Times("host1", <<"host2", j>>)' = Times("host1", <<"host2", j>>)
    BY <2>1 DEF Flying, Times
  <2> QED
    BY <1>0, <1>t, <1>i, <2>1, <2>2 DEF HostInv
<1>2. CASE Network
  <2>1. /\ IsABag(net') /\ DOMAIN net' \subseteq DOMAIN net /\ copied' \in Nat /\ copied <= copied'
        /\ UNCHANGED <<pc, buf, text, printed>> /\ \A e : Flying(e)' \in Nat
    BY <1>2, <1>t, Faults
  <2>2. PICK d : \A e : Flying(e)' <= Flying(e) + (IF e = d THEN copied' - copied ELSE 0)
    BY <1>2, <1>t, Faults
  <2>3. ASSUME NEW j \in 1..Len(text) PROVE Flying(Bound(j))' + Times("host1", <<"host2", j>>)' <= 1 + copied'
    <3>1. Flying(Bound(j))' <= Flying(Bound(j)) + (copied' - copied) /\ Flying(Bound(j))' \in Nat
      <4>1. j \in Nat /\ Flying(Bound(j)) \in Nat
        <5>1. j \in Nat
          BY <1>t
        <5> QED
          BY <1>n, <5>1
      <4>2. Flying(Bound(j))' <= Flying(Bound(j)) + (IF Bound(j) = d THEN copied' - copied ELSE 0)
        BY <2>2
      <4> QED
        BY <1>t, <2>1, <4>1, <4>2
    <3>2. Times("host1", <<"host2", j>>)' = Times("host1", <<"host2", j>>)
      BY <2>1 DEF Times
    <3>3. Flying(Bound(j)) + Times("host1", <<"host2", j>>) <= 1 + copied /\ Flying(Bound(j)) \in Nat
          /\ Times("host1", <<"host2", j>>) \in Nat
      BY <1>i, <1>n
    <3> QED
      BY <1>t, <2>1, <3>1, <3>2, <3>3, SMTT(30)
  <2> QED
    BY <1>0, <1>t, <1>i, <2>1, <2>3 DEF HostInv
<1>3. CASE HostSends
  <2>n. PICK n : n = Len(text) + 1
    OBVIOUS
  <2>1. /\ pc["host2"] = "send" /\ pc' = [pc EXCEPT !["host2"] = IF Len(text) = 2 THEN "end" ELSE "send"]
        /\ net' = net (+) SetToBag({Bound(n)}) /\ text' = Append(text, <<"host2", n>>)
        /\ UNCHANGED <<buf, printed, copied>>
    BY <1>3, <2>n DEF HostSends, Moves, Sends, Bound
  <2>2. n \in Nat /\ <<"host2", n>> \in S /\ Len(text) <= 2 /\ 1..n = 1..Len(text) \cup {n} /\ n \notin 1..Len(text)
    BY <1>t, <1>i, <2>1, <2>n
  <2>3. text' \in Seq(S) /\ Len(text') = n
    BY <1>t, <2>1, <2>2, <2>n
  <2>4. /\ DOMAIN pc' = {"host1", "host2"} /\ pc'["host2"] \in {"send", "end"}
        /\ Len(text') <= IF pc'["host2"] = "send" THEN 2 ELSE 3
    <3>1. DOMAIN pc' = {"host1", "host2"} /\ pc'["host2"] = IF Len(text) = 2 THEN "end" ELSE "send"
      BY <1>t, <2>1
    <3>2. CASE Len(text) = 2
      BY <2>2, <2>3, <3>1, <3>2, <2>n
    <3>3. CASE Len(text) # 2
      <4>1. Len(text) \in Nat /\ Len(text) <= 2
        BY <1>t, <2>2
      <4>2. Len(text) <= 1
        BY <3>3, <4>1, SMTT(30)
      <4> QED
        BY <2>3, <2>n, <3>1, <3>3, <4>1, <4>2
    <3> QED
      BY <3>2, <3>3
  <2>5. /\ IsABag(net') /\ DOMAIN net' = DOMAIN net \cup {Bound(n)}
        /\ \A e : Flying(e)' = Flying(e) + (IF e \in {Bound(n)} THEN 1 ELSE 0)
    BY <1>t, <2>1, BagPlus
  <2>6. ASSUME NEW j \in 1..n PROVE Flying(Bound(j))' + Times("host1", <<"host2", j>>)' <= 1 + copied'
    <3>1. Times("host1", <<"host2", j>>)' = Times("host1", <<"host2", j>>)
      BY <2>1 DEF Times
    <3>2. CASE j = n
      <4>1. Flying(Bound(n)) = 0
        <5>1. Bound(n) \notin DOMAIN net
          BY <1>i, <2>2, BoundApart
        <5> QED
          BY <5>1 DEF Flying
      <4>2. Times("host1", <<"host2", n>>) = 0
        <5>1. \A k \in 1..Len(q) : q[k] \notin {<<"host2", n>>}
          BY <1>i, <2>2, BoundApart
        <5>2. Tally(q, {<<"host2", n>>}) \in Nat /\ ~(Tally(q, {<<"host2", n>>}) > 0)
          BY <1>t, <5>1, TallyNat
        <5>3. Times("host1", <<"host2", n>>) = Tally(q, {<<"host2", n>>})
          BY <1>t, HostTallies
        <5> QED
          BY <5>2, <5>3
      <4>3. Flying(Bound(n))' = 1
        <5> DEFINE e == Bound(n)
        <5>1. e \in {Bound(n)}
          OBVIOUS
        <5> HIDE DEF e
        <5>2. Flying(e)' = Flying(e) + (IF e \in {Bound(n)} THEN 1 ELSE 0)
          BY <2>5
        <5>3. Flying(e) = 0
          BY <4>1 DEF e
        <5>4. Flying(e)' = 1
          BY <5>1, <5>2, <5>3
        <5> QED
          BY <5>4 DEF e
      <4>a. Times("host1", <<"host2", j>>) = 0
        BY <3>2, <4>2
      <4>b. Flying(Bound(j))' = 1
        BY <3>2, <4>3
      <4>4. Times("host1", <<"host2", j>>)' = 0 /\ Flying(Bound(j))' = 1 /\ copied' = copied
        BY <2>1, <3>1, <4>a, <4>b
      <4> QED
        BY <1>t, <4>4
    <3>3. CASE j \in 1..Len(text)
      <4>1. Bound(j) \notin {Bound(n)}
        BY <2>2, <3>3, BoundApart
      <4>2. Flying(Bound(j))' = Flying(Bound(j))
        <5>1. j \in Nat
          OBVIOUS
        <5>2. Flying(Bound(j)) \in Nat
          BY <1>n, <5>1
        <5>3. Flying(Bound(j))' = Flying(Bound(j)) + 0
          BY <2>5, <4>1
        <5> QED
          BY <5>2, <5>3
      <4> QED
        BY <1>i, <2>1, <3>1, <3>3, <4>2
    <3> QED
      BY <2>2, <3>2, <3>3
  <2>7. \A d \in DOMAIN net' : \E j \in 1..Len(text') : d = Bound(j)
    BY <1>i, <2>2, <2>3, <2>5
  <2>8. \A k \in 1..Len(printed'["host1"]) : \E j \in 1..Len(text') : printed'["host1"][k] = <<"host2", j>>
    BY <1>i, <2>1, <2>2, <2>3
  <2> QED
    BY <1>0, <1>t, <2>1, <2>3, <2>4, <2>5, <2>6, <2>7, <2>8 DEF HostInv
<1>4. ASSUME NEW d \in BagToSet(net), HostRecv(d) PROVE HostInv'
  <2>1. /\ d \in DOMAIN net /\ DOMAIN pc' = DOMAIN pc /\ pc'["host2"] = pc["host2"]
        /\ Prints("host1", <<d.msg>>) /\ UNCHANGED <<buf, text, copied>>
        /\ net' = net (-) SetToBag({d})
    BY <1>4, <1>t DEF HostRecv, RecvFrom, Moves, BagToSet
  <2>2. PICK j0 \in 1..Len(text) : d = Bound(j0)
    BY <1>i, <2>1
  <2>3. d.msg = <<"host2", j0>> /\ d.msg \in S
    <3>1. j0 \in Nat
      BY <1>t
    <3>2. Bound(j0).msg = <<"host2", j0>>
      BY BoundApart
    <3> QED
      BY <2>2, <3>1, <3>2
  <2>4. /\ IsABag(net') /\ DOMAIN net' \subseteq DOMAIN net
        /\ \A e : Flying(e)' = Flying(e) - (IF e = d THEN 1 ELSE 0)
    BY <1>t, <2>1, BagMinus
  <2>5. /\ printed'["host1"] \in Seq(S) /\ DOMAIN printed' = DOMAIN printed
        /\ printed'["host2"] = printed["host2"]
        /\ Len(printed'["host1"]) = Len(q) + 1 /\ Len(q) \in Nat
        /\ \A k \in 1..Len(q) : printed'["host1"][k] = q[k]
        /\ printed'["host1"][Len(q) + 1] = d.msg
        /\ \A m : Times("host1", m)' = Times("host1", m) + (IF m = d.msg THEN 1 ELSE 0)
    <3> DEFINE x == d.msg
    <3>1. /\ "host1" \in DOMAIN printed /\ "host2" \in DOMAIN printed /\ printed["host1"] \in Seq(S) /\ x \in S
          /\ Prints("host1", <<x>>)
      BY <1>t, <2>1, <2>3
    <3> HIDE DEF S, q, x
    <3>2. /\ printed'["host1"] \in Seq(S) /\ DOMAIN printed' = DOMAIN printed
          /\ \A g \in DOMAIN printed : g # "host1" => printed'[g] = printed[g]
          /\ Len(printed'["host1"]) = Len(printed["host1"]) + 1 /\ Len(printed["host1"]) \in Nat
          /\ \A k \in 1..Len(printed["host1"]) : printed'["host1"][k] = printed["host1"][k]
          /\ printed'["host1"][Len(printed["host1"]) + 1] = x
          /\ \A m : Times("host1", m)' = Times("host1", m) + (IF m = x THEN 1 ELSE 0)
      BY <3>1, PrintsOne
    <3> QED
      BY <3>1, <3>2 DEF q, x
  <2>6. ASSUME NEW j \in 1..Len(text) PROVE Flying(Bound(j))' + Times("host1", <<"host2", j>>)' <= 1 + copied'
    <3>1. (Bound(j) = d <=> j = j0) /\ (<<"host2", j>> = d.msg <=> j = j0)
      BY <2>2, <2>3, BoundApart
    <3>2. /\ Flying(Bound(j))' = Flying(Bound(j)) - (IF j = j0 THEN 1 ELSE 0)
          /\ Times("host1", <<"host2", j>>)' = Times("host1", <<"host2", j>>) + (IF j = j0 THEN 1 ELSE 0)
      BY <2>4, <2>5, <3>1
    <3>3. Flying(Bound(j)) \in Nat /\ Times("host1", <<"host2", j>>) \in Nat
      BY <1>n
    <3> QED
      BY <1>i, <2>1, <3>2, <3>3
  <2>7. ASSUME NEW k \in 1..Len(printed'["host1"])
        PROVE  \E j \in 1..Len(text) : printed'["host1"][k] = <<"host2", j>>
    <3>1. CASE k = Len(q) + 1
      BY <2>3, <2>5, <3>1
    <3>2. CASE k \in 1..Len(q)
      BY <1>i, <2>5, <3>2
    <3> QED
      BY <2>5, <3>1, <3>2
  <2> QED
    BY <1>0, <1>t, <1>i, <2>1, <2>4, <2>5, <2>6, <2>7 DEF HostInv
<1>5. DatagramNext \/ UNCHANGED vars
  BY <1>0, OwnSteps
<1> QED
  BY <1>0, <1>1, <1>2, <1>3, <1>4, <1>5 DEF DatagramNext, DatagramStep

LEMMA LineApart ==
  ASSUME NEW r \in Pals, NEW j, NEW e \in Pals, NEW k
  PROVE  /\ (Line(r, j) = Line(e, k)) <=> (r = e /\ j = k)
         /\ Line(r, j).to = r /\ Line(r, j).msg = <<"news", j>>
         /\ ((<<"news", j>> = <<"news", k>>) <=> j = k)
         /\ "sender" \notin Pals
BY DEF Line, Datagram, Pals

LEMMA InitNews == Init => NewsInv
<1> SUFFICES ASSUME Init, program = "news" PROVE NewsInv
  BY DEF NewsInv
<1>1. DatagramInit
  BY OwnStart DEF DatagramPrograms
<1>2. /\ pc = [sender |-> "send", one |-> "off", two |-> "off"] /\ text \in (0..MaxMsgs) \X Stops
      /\ buf = [h \in DOMAIN pc |-> <<>>] /\ printed = buf /\ net = EmptyBag /\ copied = 0
  <2>1. /\ text \in {t \in (0..MaxMsgs) \X Stops : t[1] = 0 => t[2] = "end"}
        /\ pc = [sender |-> "send", one |-> "off", two |-> "off"]
    BY <1>1 DEF DatagramInit
  <2> QED
    BY <1>1, <2>1 DEF DatagramInit, NoDatagrams
<1>3. DOMAIN pc = {"sender"} \cup Pals /\ pc["sender"] = "send" /\ buf["sender"] = <<>> /\ printed["sender"] = <<>>
  BY <1>2 DEF Pals
<1>4. DOMAIN net = {} /\ IsABag(net)
  BY <1>2 DEF EmptyBag, SetToBag, IsABag
<1>5. DOMAIN printed = DOMAIN pc /\ DOMAIN buf = DOMAIN pc /\ copied \in Nat /\ text \in Nat \X Stops
  BY <1>2, DatagramAssumption
<1>6. \A r \in Pals : printed[r] = <<>> /\ Len(printed[r]) = 0 /\ 1..Len(printed[r]) = {}
  <2>1. \A r \in Pals : printed[r] = <<>>
    BY <1>2, <1>3
  <2>2. Len(<<>>) = 0 /\ 1..0 = {}
    OBVIOUS
  <2> QED
    BY <2>1, <2>2
<1>7. \A r \in Pals : printed[r] \in Seq({"news"} \X Nat)
  <2>1. <<>> \in Seq({"news"} \X Nat)
    OBVIOUS
  <2> QED
    BY <1>6, <2>1
<1>8. LinesSent = {}
  BY <1>3 DEF LinesSent
<1> QED
  BY <1>3, <1>4, <1>5, <1>6, <1>7, <1>8 DEF NewsInv

\* The lines that were sent are lines of the file, or what the buffer held.
LEMMA SentOf ==
  ASSUME program = "news", NewsInv, NEW j \in LinesSent
  PROVE  j \in Nat /\ j <= text[1] /\ text[1] \in Nat /\ (j = 0 => text[1] = 0)
<1>1. buf["sender"] # <<>>
  BY DEF LinesSent
<1>2. PICK i \in 0..text[1] : buf["sender"] = <<"news", i>> /\ (i = 0 => text[1] = 0)
  BY <1>1 DEF NewsInv
<1>3. text[1] \in Nat
  BY DEF NewsInv
<1>4. j \in (IF text[1] = 0 THEN 0 ELSE 1)..i
  BY <1>1, <1>2 DEF LinesSent
<1> QED
  BY <1>2, <1>3, <1>4

LEMMA StepNews == NewsInv /\ [Next]_vars => NewsInv'
<1> SUFFICES ASSUME NewsInv, [Next]_vars, program' = "news" PROVE NewsInv'
  BY DEF NewsInv
<1>0. program' = program /\ program = "news" /\ program \in DatagramPrograms
  BY OwnSteps DEF DatagramPrograms
<1> DEFINE S == {"news"} \X Nat
<1>t. /\ DOMAIN pc = {"sender"} \cup Pals /\ DOMAIN buf = DOMAIN pc /\ DOMAIN printed = DOMAIN pc
      /\ pc["sender"] \in {"send", "end"} /\ IsABag(net) /\ copied \in Nat /\ text \in Nat \X Stops
      /\ text[1] \in Nat
      /\ printed["sender"] = <<>> /\ \A r \in Pals : printed[r] \in Seq(S)
  BY <1>0 DEF NewsInv
<1>i. /\ buf["sender"] = <<>> \/ \E j \in 0..text[1] : buf["sender"] = <<"news", j>> /\ (j = 0 => text[1] = 0)
      /\ pc["sender"] = "send" /\ buf["sender"] # <<>> =>
           buf["sender"][2] > 0 /\ (buf["sender"][2] = text[1] => text[2] # "end")
      /\ \A d \in DOMAIN net : \E r \in Pals : \E j \in LinesSent : d = Line(r, j)
      /\ \A r \in Pals : \A k \in 1..Len(printed[r]) : \E j \in LinesSent : printed[r][k] = <<"news", j>>
      /\ \A r \in Pals : \A j \in LinesSent :
           Flying(Line(r, j)) + Times(r, <<"news", j>>) <= 1 + copied + Again(j)
  BY <1>0 DEF NewsInv
<1>n. /\ \A r \in Pals : \A j : Flying(Line(r, j)) \in Nat /\ Times(r, <<"news", j>>) \in Nat
      /\ \A j : Again(j) \in {0, 1}
  BY <1>t, Bagged, HostTallies DEF Again
<1>1. CASE UNCHANGED vars
  <2>1. UNCHANGED <<pc, buf, text, printed, net, copied>>
    BY <1>1 DEF vars, progVars, netFaults
  <2>2. /\ \A r, j : Flying(Line(r, j))' = Flying(Line(r, j)) /\ Times(r, <<"news", j>>)' = Times(r, <<"news", j>>)
        /\ LinesSent' = LinesSent /\ \A j : Again(j)' = Again(j)
    BY <2>1 DEF Flying, Times, LinesSent, Again
  <2> QED
    BY <1>0, <1>t, <1>i, <2>1, <2>2 DEF NewsInv
<1>2. CASE Network
  <2>1. /\ IsABag(net') /\ DOMAIN net' \subseteq DOMAIN net /\ copied' \in Nat /\ copied <= copied'
        /\ UNCHANGED <<pc, buf, text, printed>> /\ \A e : Flying(e)' \in Nat
    BY <1>2, <1>t, Faults
  <2>2. PICK d : \A e : Flying(e)' <= Flying(e) + (IF e = d THEN copied' - copied ELSE 0)
    BY <1>2, <1>t, Faults
  <2>3. /\ \A r, j : Times(r, <<"news", j>>)' = Times(r, <<"news", j>>)
        /\ LinesSent' = LinesSent /\ \A j : Again(j)' = Again(j)
    BY <2>1 DEF Times, LinesSent, Again
  <2>4. ASSUME NEW r \in Pals, NEW j \in LinesSent
        PROVE  Flying(Line(r, j))' + Times(r, <<"news", j>>)' <= 1 + copied' + Again(j)'
    <3>1. Flying(Line(r, j))' <= Flying(Line(r, j)) + (copied' - copied) /\ Flying(Line(r, j))' \in Nat
      <4>1. Flying(Line(r, j)) \in Nat
        BY <1>n
      <4>2. Flying(Line(r, j))' <= Flying(Line(r, j)) + (IF Line(r, j) = d THEN copied' - copied ELSE 0)
        BY <2>2
      <4> QED
        BY <1>t, <2>1, <4>1, <4>2
    <3>2. Times(r, <<"news", j>>)' = Times(r, <<"news", j>>) /\ Again(j)' = Again(j)
      BY <2>3
    <3>3. Flying(Line(r, j)) + Times(r, <<"news", j>>) <= 1 + copied + Again(j) /\ Flying(Line(r, j)) \in Nat
          /\ Times(r, <<"news", j>>) \in Nat /\ Again(j) \in Nat
      BY <1>i, <1>n
    <3>4. copied \in Nat /\ copied' \in Nat
      BY <1>t, <2>1
    <3>5. Flying(Line(r, j))' + Times(r, <<"news", j>>) <= 1 + copied' + Again(j)
      BY <3>1, <3>3, <3>4
    <3> QED
      BY <3>2, <3>5
  <2> QED
    BY <1>0, <1>t, <1>i, <2>1, <2>3, <2>4 DEF NewsInv
<1>3. CASE SendsLine
  <2>k. PICK k : k = IF buf["sender"] = <<>> THEN 1 ELSE buf["sender"][2] + 1
    OBVIOUS
  <2>m. PICK m : m = IF k <= text[1] THEN k ELSE IF buf["sender"] = <<>> THEN 0 ELSE buf["sender"][2]
    OBVIOUS
  <2>1. /\ pc["sender"] = "send" /\ pc' = [pc EXCEPT !["sender"] = IF Feof(k) THEN "end" ELSE "send"]
        /\ buf' = [buf EXCEPT !["sender"] = IF k <= text[1] THEN <<"news", k>>
                                             ELSE IF @ = <<>> THEN Garbage ELSE @]
        /\ net' = net (+) SetToBag({Datagram("sender", r, buf'["sender"]) : r \in {p \in Pals : pc[p] = "recv"}})
        /\ UNCHANGED <<text, printed, copied>>
    BY <1>3, <2>k DEF SendsLine, Moves, Sends
  \* Either a new line, or the first datagram of an empty file, or the last line again.
  <2>2. \/ m = k /\ k \in 1..text[1] /\ (buf["sender"] = <<>> => k = 1) /\ (buf["sender"] # <<>> => buf["sender"][2] = k - 1)
        \/ m = 0 /\ text[1] = 0 /\ k = 1 /\ buf["sender"] = <<>>
        \/ /\ buf["sender"] # <<>> /\ buf["sender"][2] = m /\ m = text[1] /\ m > 0 /\ text[2] # "end" /\ k = m + 1
    <3>1. CASE buf["sender"] = <<>>
      BY <1>t, <2>k, <2>m, <3>1
    <3>2. CASE buf["sender"] # <<>>
      <4>1. PICK i \in 0..text[1] : buf["sender"] = <<"news", i>> /\ (i = 0 => text[1] = 0)
        BY <1>i, <3>2
      <4>2. i > 0 /\ (i = text[1] => text[2] # "end") /\ buf["sender"][2] = i /\ k = i + 1
        BY <1>i, <2>1, <2>k, <3>2, <4>1
      <4>3. CASE i = text[1]
        BY <1>t, <2>m, <3>2, <4>2, <4>3
      <4>4. CASE i < text[1]
        BY <1>t, <2>m, <3>2, <4>2, <4>4
      <4> QED
        BY <1>t, <4>3, <4>4
    <3> QED
      BY <3>1, <3>2
  <2>3. buf'["sender"] = <<"news", m>> /\ DOMAIN buf' = DOMAIN buf
    <3>1. /\ DOMAIN buf' = DOMAIN buf
          /\ buf'["sender"] = IF k <= text[1] THEN <<"news", k>> ELSE IF buf["sender"] = <<>> THEN Garbage ELSE buf["sender"]
      BY <1>t, <2>1
    <3>2. buf["sender"] # <<>> => buf["sender"] = <<"news", buf["sender"][2]>>
      BY <1>i
    <3>3. CASE k <= text[1]
      BY <2>m, <3>1, <3>3
    <3>4. CASE ~(k <= text[1]) /\ buf["sender"] = <<>>
      BY <2>m, <3>1, <3>4 DEF Garbage
    <3>5. CASE ~(k <= text[1]) /\ buf["sender"] # <<>>
      BY <2>m, <3>1, <3>2, <3>5
    <3> QED
      BY <3>3, <3>4, <3>5
  <2>4. m \in 0..text[1] /\ (m = 0 => text[1] = 0) /\ m \in Nat
    BY <1>t, <2>2
  <2>5. /\ LinesSent' = LinesSent \cup {m}
        /\ m \in LinesSent => text[2] # "end" /\ m = text[1] /\ k = m + 1
    <3>1. LinesSent' = (IF text[1] = 0 THEN 0 ELSE 1)..m
      BY <2>1, <2>3 DEF LinesSent
    <3>2. CASE buf["sender"] = <<>>
      <4>1. LinesSent = {}
        BY <3>2 DEF LinesSent
      <4>2. (m = 1 /\ text[1] > 0) \/ (m = 0 /\ text[1] = 0)
        <5>1. \/ m = k /\ k \in 1..text[1] /\ k = 1
              \/ m = 0 /\ text[1] = 0
          BY <2>2, <3>2
        <5>2. CASE m = 0 /\ text[1] = 0
          BY <5>2
        <5>3. CASE m = k /\ k \in 1..text[1] /\ k = 1
          <6>1. PICK t \in Nat : t = text[1]
            BY <1>t
          <6>2. t > 0
            BY <5>3, <6>1
          <6>3. text[1] > 0 /\ m = 1
            BY <5>3, <6>1, <6>2
          <6> QED
            BY <6>3
        <5> QED
          BY <5>1, <5>2, <5>3
      <4>3. LinesSent' = m..m /\ m..m = {m}
        BY <1>t, <3>1, <4>2
      <4> QED
        BY <4>1, <4>3
    <3>3. CASE buf["sender"] # <<>>
      <4>1. LinesSent = (IF text[1] = 0 THEN 0 ELSE 1)..buf["sender"][2]
        BY <3>3 DEF LinesSent
      <4>2. CASE m = k /\ k \in 1..text[1] /\ buf["sender"][2] = k - 1
        <5>1. k \in Nat /\ k > 0 /\ text[1] # 0
          BY <1>t, <4>2
        <5>2. LinesSent = 1..(k - 1) /\ LinesSent' = 1..k
          BY <3>1, <4>1, <4>2, <5>1
        <5> QED
          BY <4>2, <5>1, <5>2
      <4>3. CASE buf["sender"][2] = m /\ m = text[1] /\ m > 0 /\ text[2] # "end" /\ k = m + 1
        <5>1. LinesSent = 1..m /\ LinesSent' = 1..m /\ m \in Nat
          BY <1>t, <3>1, <4>1, <4>3
        <5> QED
          BY <4>3, <5>1
      <4> QED
        BY <2>2, <3>3, <4>2, <4>3
    <3> QED
      BY <3>2, <3>3
  <2>6. /\ DOMAIN pc' = DOMAIN pc /\ pc'["sender"] \in {"send", "end"} /\ \A r \in Pals : pc'[r] = pc[r]
        /\ pc'["sender"] = "end" <=> Feof(k)
    BY <1>t, <2>1, LineApart
  <2>7. pc'["sender"] = "send" => m > 0 /\ (m = text[1] => text[2] # "end")
    BY <1>t, <2>2, <2>6 DEF Feof
  <2> DEFINE ds == {Datagram("sender", r, buf'["sender"]) : r \in {p \in Pals : pc[p] = "recv"}}
  <2>8. PICK D : D = ds /\ D \subseteq {Line(r, m) : r \in Pals}
    BY <2>3 DEF Line
  <2>9. /\ IsABag(net') /\ DOMAIN net' = DOMAIN net \cup D
        /\ \A e : Flying(e)' = Flying(e) + (IF e \in D THEN 1 ELSE 0)
    <3>1. net' = net (+) SetToBag(D)
      BY <2>1, <2>8
    <3> QED
      BY <1>t, <3>1, BagPlus
  <2>10. ASSUME NEW r \in Pals, NEW j \in LinesSent \cup {m}
         PROVE  Flying(Line(r, j))' + Times(r, <<"news", j>>)' <= 1 + copied' + Again(j)'
    <3>1. Times(r, <<"news", j>>)' = Times(r, <<"news", j>>) /\ copied' = copied /\ text' = text
      BY <2>1 DEF Times
    <3>2. Flying(Line(r, j)) \in Nat /\ Times(r, <<"news", j>>) \in Nat /\ Again(j)' \in {0, 1} /\ Again(j) = 0
      BY <1>n, <2>1 DEF Again
    <3>3. CASE j \notin LinesSent
      <4>1. Flying(Line(r, j)) = 0
        <5>1. Line(r, j) \notin DOMAIN net
          BY <1>i, <3>3, LineApart
        <5> QED
          BY <5>1 DEF Flying
      <4>2. Times(r, <<"news", j>>) = 0
        <5>1. \A i \in 1..Len(printed[r]) : printed[r][i] \notin {<<"news", j>>}
          BY <1>i, <3>3, LineApart
        <5>2. Tally(printed[r], {<<"news", j>>}) \in Nat /\ ~(Tally(printed[r], {<<"news", j>>}) > 0)
          BY <1>t, <5>1, TallyNat
        <5>3. Times(r, <<"news", j>>) = Tally(printed[r], {<<"news", j>>})
          BY <1>t, HostTallies
        <5> QED
          BY <5>2, <5>3
      <4>3. Flying(Line(r, j))' \in {0, 1}
        BY <2>9, <4>1
      <4> QED
        BY <1>t, <3>1, <3>2, <4>2, <4>3
    <3>4. CASE j \in LinesSent /\ j = m
      <4>1. Again(j)' = 1
        <5>1. text[2] # "end" /\ text[1] = j /\ k = j + 1 /\ j \in Nat
          BY <2>4, <2>5, <3>4
        <5>2. k > text[1]
          BY <5>1
        <5>3. Feof(k)
          BY <5>1, <5>2 DEF Feof
        <5> QED
          BY <2>6, <3>1, <5>1, <5>3 DEF Again
      <4>2. Flying(Line(r, j))' = Flying(Line(r, j)) \/ Flying(Line(r, j))' = Flying(Line(r, j)) + 1
        BY <2>9, <3>2
      <4>3. Flying(Line(r, j)) + Times(r, <<"news", j>>) <= 1 + copied + 0
        BY <1>i, <3>2, <3>4
      <4> QED
        BY <1>t, <3>1, <3>2, <4>1, <4>2, <4>3
    <3>5. CASE j \in LinesSent /\ j # m
      <4>1. Line(r, j) \notin D
        BY <2>8, <3>5, LineApart
      <4>2. Flying(Line(r, j))' = Flying(Line(r, j)) + 0
        BY <2>9, <4>1
      <4>3. Flying(Line(r, j)) + Times(r, <<"news", j>>) <= 1 + copied + 0
        BY <1>i, <3>2, <3>5
      <4> QED
        BY <1>t, <3>1, <3>2, <4>2, <4>3
    <3> QED
      BY <3>3, <3>4, <3>5
  <2>11. \A d \in DOMAIN net' : \E r \in Pals : \E j \in LinesSent' : d = Line(r, j)
    BY <1>i, <2>5, <2>8, <2>9
  <2>12. \A r \in Pals : \A i \in 1..Len(printed'[r]) : \E j \in LinesSent' : printed'[r][i] = <<"news", j>>
    BY <1>i, <2>1, <2>5
  <2>13. /\ buf'["sender"] = <<>> \/ \E j \in 0..text'[1] : buf'["sender"] = <<"news", j>> /\ (j = 0 => text'[1] = 0)
         /\ pc'["sender"] = "send" /\ buf'["sender"] # <<>> =>
              buf'["sender"][2] > 0 /\ (buf'["sender"][2] = text'[1] => text'[2] # "end")
    BY <2>1, <2>3, <2>4, <2>7
  <2>14. /\ DOMAIN pc' = {"sender"} \cup Pals /\ DOMAIN buf' = DOMAIN pc' /\ DOMAIN printed' = DOMAIN pc'
         /\ copied' \in Nat /\ text' \in Nat \X Stops /\ printed'["sender"] = <<>>
         /\ \A r \in Pals : printed'[r] \in Seq(S)
    BY <1>t, <2>1, <2>3, <2>6
  <2>15. \A r \in Pals : \A j \in LinesSent' :
           Flying(Line(r, j))' + Times(r, <<"news", j>>)' <= 1 + copied' + Again(j)'
    BY <2>5, <2>10
  <2> QED
    BY <1>0, <2>6, <2>9, <2>11, <2>12, <2>13, <2>14, <2>15 DEF NewsInv
<1>4. ASSUME NEW r0 \in Pals, Joins(r0) PROVE NewsInv'
  <2>1. DOMAIN pc' = DOMAIN pc /\ pc'["sender"] = pc["sender"] /\ UNCHANGED <<buf, text, printed, net, copied>>
    BY <1>4, <1>t, LineApart DEF Joins, Moves, netFaults
  <2>2. /\ \A r, j : Flying(Line(r, j))' = Flying(Line(r, j)) /\ Times(r, <<"news", j>>)' = Times(r, <<"news", j>>)
        /\ LinesSent' = LinesSent /\ \A j : Again(j)' = Again(j)
    BY <2>1 DEF Flying, Times, LinesSent, Again
  <2> QED
    BY <1>0, <1>t, <1>i, <2>1, <2>2 DEF NewsInv
<1>5. ASSUME NEW r0 \in Pals, NEW d \in BagToSet(net), HearsLine(r0, d) PROVE NewsInv'
  <2>1. /\ d \in DOMAIN net /\ d.to = r0 /\ Prints(r0, <<d.msg>>) /\ UNCHANGED <<pc, buf, text, copied>>
        /\ net' = net (-) SetToBag({d})
    BY <1>5 DEF HearsLine, RecvFrom, BagToSet
  <2>a. PICK r1 \in Pals : \E j \in LinesSent : d = Line(r1, j)
    BY <1>i, <2>1
  <2>2. PICK j0 \in LinesSent : d = Line(r0, j0)
    BY <2>1, <2>a, LineApart
  <2>3. d.msg = <<"news", j0>> /\ d.msg \in S
    <3>1. j0 \in Nat
      BY <1>0, SentOf
    <3>2. Line(r0, j0).msg = <<"news", j0>>
      BY LineApart
    <3> QED
      BY <2>2, <3>1, <3>2
  <2>4. /\ IsABag(net') /\ DOMAIN net' \subseteq DOMAIN net
        /\ \A e : Flying(e)' = Flying(e) - (IF e = d THEN 1 ELSE 0)
    BY <1>t, <2>1, BagMinus
  <2>5. /\ printed'[r0] \in Seq(S) /\ DOMAIN printed' = DOMAIN printed
        /\ \A g \in DOMAIN printed : g # r0 => printed'[g] = printed[g]
        /\ Len(printed'[r0]) = Len(printed[r0]) + 1 /\ Len(printed[r0]) \in Nat
        /\ \A k \in 1..Len(printed[r0]) : printed'[r0][k] = printed[r0][k]
        /\ printed'[r0][Len(printed[r0]) + 1] = d.msg
        /\ \A m : Times(r0, m)' = Times(r0, m) + (IF m = d.msg THEN 1 ELSE 0)
    <3>1. r0 \in DOMAIN printed /\ printed[r0] \in Seq(S) /\ d.msg \in S /\ Prints(r0, <<d.msg>>)
      BY <1>t, <2>1, <2>3
    <3> HIDE DEF S
    <3> QED
      BY <3>1, PrintsOne
  <2>6. /\ \A r \in Pals : r # r0 => \A m : Times(r, m)' = Times(r, m)
        /\ LinesSent' = LinesSent /\ \A j : Again(j)' = Again(j)
    <3>1. LinesSent' = LinesSent /\ \A j : Again(j)' = Again(j)
      BY <2>1 DEF LinesSent, Again
    <3>2. ASSUME NEW r \in Pals, r # r0, NEW m PROVE Times(r, m)' = Times(r, m)
      <4>1. printed'[r] = printed[r]
        BY <1>t, <2>5, <3>2
      <4> QED
        BY <4>1 DEF Times
    <3> QED
      BY <3>1, <3>2
  <2>7. ASSUME NEW r \in Pals, NEW j \in LinesSent
        PROVE  Flying(Line(r, j))' + Times(r, <<"news", j>>)' <= 1 + copied' + Again(j)'
    <3>1. (Line(r, j) = d <=> r = r0 /\ j = j0) /\ (<<"news", j>> = d.msg <=> j = j0)
      BY <2>2, <2>3, LineApart
    <3>2. Flying(Line(r, j))' = Flying(Line(r, j)) - (IF r = r0 /\ j = j0 THEN 1 ELSE 0)
      BY <2>4, <3>1
    <3>3. Times(r, <<"news", j>>)' = Times(r, <<"news", j>>) + (IF r = r0 /\ j = j0 THEN 1 ELSE 0)
      <4>1. CASE r = r0
        <5>1. Times(r0, <<"news", j>>)' = Times(r0, <<"news", j>>) + (IF j = j0 THEN 1 ELSE 0)
          BY <2>5, <3>1
        <5> QED
          BY <4>1, <5>1
      <4>2. CASE r # r0
        BY <1>n, <2>6, <4>2
      <4> QED
        BY <4>1, <4>2
    <3>4. /\ Flying(Line(r, j)) \in Nat /\ Times(r, <<"news", j>>) \in Nat /\ Again(j)' = Again(j) /\ Again(j) \in {0, 1}
          /\ Flying(Line(r, j)) + Times(r, <<"news", j>>) <= 1 + copied + Again(j) /\ copied' = copied
      BY <1>i, <1>n, <2>1, <2>6
    <3> QED
      BY <1>t, <3>2, <3>3, <3>4
  <2>8. ASSUME NEW r \in Pals, NEW k \in 1..Len(printed'[r])
        PROVE  \E j \in LinesSent : printed'[r][k] = <<"news", j>>
    <3>1. CASE r # r0
      <4>1. printed'[r] = printed[r]
        BY <1>t, <2>5, <3>1
      <4> QED
        BY <1>i, <4>1
    <3>2. CASE r = r0 /\ k = Len(printed[r0]) + 1
      BY <2>3, <2>5, <3>2
    <3>3. CASE r = r0 /\ k \in 1..Len(printed[r0])
      BY <1>i, <2>5, <3>3, SMTT(30)
    <3> QED
      BY <2>5, <3>1, <3>2, <3>3
  <2>9. printed'["sender"] = <<>> /\ \A r \in Pals : printed'[r] \in Seq(S)
    <3>1. "sender" \notin Pals
      BY LineApart
    <3> QED
      BY <1>t, <2>5, <3>1
  <2>10. /\ buf'["sender"] = <<>> \/ \E j \in 0..text'[1] : buf'["sender"] = <<"news", j>> /\ (j = 0 => text'[1] = 0)
         /\ pc'["sender"] = "send" /\ buf'["sender"] # <<>> =>
              buf'["sender"][2] > 0 /\ (buf'["sender"][2] = text'[1] => text'[2] # "end")
    BY <1>i, <2>1
  <2>11. /\ DOMAIN pc' = {"sender"} \cup Pals /\ DOMAIN buf' = DOMAIN pc' /\ DOMAIN printed' = DOMAIN pc'
         /\ copied' \in Nat /\ text' \in Nat \X Stops /\ pc'["sender"] \in {"send", "end"}
    BY <1>t, <2>1, <2>5
  <2>12. \A e \in DOMAIN net' : \E r \in Pals : \E j \in LinesSent' : e = Line(r, j)
    BY <1>i, <2>4, <2>6
  <2>13. \A r \in Pals : \A k \in 1..Len(printed'[r]) : \E j \in LinesSent' : printed'[r][k] = <<"news", j>>
    BY <2>6, <2>8
  <2>14. \A r \in Pals : \A j \in LinesSent' :
           Flying(Line(r, j))' + Times(r, <<"news", j>>)' <= 1 + copied' + Again(j)'
    BY <2>6, <2>7
  <2> QED
    BY <1>0, <2>4, <2>9, <2>10, <2>11, <2>12, <2>13, <2>14 DEF NewsInv
<1>6. DatagramNext \/ UNCHANGED vars
  BY <1>0, OwnSteps
<1> QED
  BY <1>0, <1>1, <1>2, <1>3, <1>4, <1>5, <1>6 DEF DatagramNext, DatagramStep

\* Whatever the network loses, copies and reorders, a client of uecho prints its
\* own messages, the one just sent unless something was copied, and nobody
\* prints anything more often than it was sent and copied; the news repeat only
\* the last line, and only one that fgets did not end because of the end of the
\* file: a newline ends it, or it just fills the buffer.
THEOREM DatagramsBelong == Spec => []AnswersBelong
<1>1. Spec => [](PalsInv /\ HostInv /\ NewsInv)
  BY InitPals, StepPals, InitHost, StepHost, InitNews, StepNews, PTL DEF Spec
<1>2. ASSUME PalsInv, HostInv, NewsInv PROVE AnswersBelong
  <2>1. CASE program = "uecho"
    <3>1. PalTypes /\ copied \in Nat
      BY <1>2, <2>1 DEF PalsInv
    <3>2. ASSUME NEW c \in Pals, NEW k \in DOMAIN printed[c]
          PROVE  /\ k \in 1..Len(printed[c])
                 /\ \E j \in 1..k : printed[c][k] = <<c, j>> /\ (copied = 0 => j = k)
      <4>1. DOMAIN printed[c] = 1..Len(printed[c])
        BY <3>1, LenProperties DEF PalTypes
      <4> QED
        BY <1>2, <2>1, <4>1 DEF PalsInv
    <3>3. ASSUME NEW c \in Pals, copied = 0
          PROVE  printed[c] = [k \in DOMAIN printed[c] |-> <<c, k>>]
      <4>1. \A k \in DOMAIN printed[c] : printed[c][k] = <<c, k>>
        BY <3>2, <3>3
      <4>2. printed[c] = [k \in DOMAIN printed[c] |-> printed[c][k]]
        <5>1. printed[c] \in [1..Len(printed[c]) -> Pals \X Nat] /\ DOMAIN printed[c] = 1..Len(printed[c])
          BY <3>1, LenProperties DEF PalTypes
        <5> QED
          BY <5>1
      <4> QED
        BY <4>1, <4>2
    <3>4. ASSUME NEW c \in Pals, NEW m \in Shown(c) PROVE Times(c, m) <= 1 + copied
      <4>1. PICK k \in DOMAIN printed[c] : m = printed[c][k]
        BY DEF Shown
      <4>2. PICK j \in 1..k : m = <<c, j>>
        BY <3>2, <4>1
      <4>3. j \in Mine(c)
        <5>1. Count(c) = Len(printed[c]) + (IF pc[c] = "recv" THEN 1 ELSE 0)
          BY <1>2, <2>1 DEF PalsInv
        <5>4. k \in 1..Len(printed[c])
          BY <3>2
        <5>2. Len(printed[c]) \in Nat
          BY <3>1, LenProperties DEF PalTypes
        <5>3. Count(c) \in Nat /\ Count(c) >= Len(printed[c])
          <6>1. CASE pc[c] = "recv"
            <7>1. Count(c) = Len(printed[c]) + 1
              BY <5>1, <6>1
            <7> QED
              BY <5>2, <7>1
          <6>2. CASE pc[c] # "recv"
            <7>1. Count(c) = Len(printed[c]) + 0
              BY <5>1, <6>2
            <7> QED
              BY <5>2, <7>1
          <6> QED
            BY <6>1, <6>2
        <5>5. j \in 1..Count(c)
          BY <5>2, <5>3, <5>4
        <5> QED
          BY <5>5 DEF Mine
      <4>4. Alive(c, j) <= 1 + copied
        BY <1>2, <2>1, <4>3 DEF PalsInv
      <4>5. /\ Flying(Ask(c, j)) \in Nat /\ Flying(Answered(c, j)) \in Nat /\ Held(c, j) \in Nat
            /\ Times(c, <<c, j>>) \in Nat
        <5>1. IsABag(net) /\ j \in Nat
          BY <1>2, <2>1 DEF PalsInv
        <5> QED
          BY <3>1, <5>1, Bagged, PalsTallies DEF Held
      <4> QED
        BY <3>1, <4>2, <4>4, <4>5 DEF Alive
    <3>5. printed["server"] = <<>> /\ DOMAIN printed = {"server"} \cup Pals
      BY <3>1 DEF PalTypes
    <3>6. Shown("server") = {}
      BY <3>5 DEF Shown
    <3>7. \A c \in Pals : \A k \in DOMAIN printed[c] : printed[c][k] \in {<<c, j>> : j \in 1..k}
      BY <3>2
    <3>8. "server" \notin Pals
      BY DEF Pals
    <3>9. ASSUME NEW h \in DOMAIN printed, NEW m \in Shown(h)
          PROVE  Times(h, m) <= 1 + copied + 0
      <4>1. h \in Pals
        BY <3>5, <3>6
      <4>2. Times(h, m) <= 1 + copied
        BY <3>4, <4>1
      <4> QED
        BY <3>1, <4>2
    <3> QED
      BY <2>1, <3>3, <3>7, <3>9 DEF AnswersBelong
  <2>2. CASE program = "bound"
    <3>1. /\ DOMAIN printed = {"host1", "host2"} /\ IsABag(net) /\ copied \in Nat
          /\ printed["host1"] \in Seq({"host2"} \X Nat) /\ printed["host2"] = <<>>
          /\ Len(text) \in Nat /\ Len(text) <= 3
          /\ \A k \in 1..Len(printed["host1"]) : \E j \in 1..Len(text) : printed["host1"][k] = <<"host2", j>>
          /\ \A j \in 1..Len(text) : Flying(Bound(j)) + Times("host1", <<"host2", j>>) <= 1 + copied
      <4>1. text \in Seq({"host2"} \X Nat) /\ Len(text) <= IF pc["host2"] = "send" THEN 2 ELSE 3
        BY <1>2, <2>2 DEF HostInv
      <4>2. Len(text) \in Nat
        BY <4>1, LenProperties
      <4>3. Len(text) <= 3
        BY <4>1, <4>2
      <4> QED
        BY <1>2, <2>2, <4>2, <4>3 DEF HostInv
    <3>2. Shown("host2") = {}
      BY <3>1 DEF Shown
    <3>3. ASSUME NEW m \in Shown("host1")
          PROVE  m \in {<<"host2", k>> : k \in 1..3} /\ Times("host1", m) <= 1 + copied + 0
      <4>1. PICK k \in 1..Len(printed["host1"]) : m = printed["host1"][k]
        BY <3>1 DEF Shown
      <4>2. PICK j \in 1..Len(text) : m = <<"host2", j>>
        BY <3>1, <4>1
      <4>a. j \in 1..3
        BY <3>1
      <4>b. Flying(Bound(j)) \in Nat
        BY <3>1, Bagged
      <4>c. Times("host1", m) \in Nat
        BY <3>1, HostTallies
      <4>3. j \in 1..3 /\ Flying(Bound(j)) \in Nat /\ Times("host1", m) \in Nat
        BY <4>a, <4>b, <4>c
      <4>4. Flying(Bound(j)) + Times("host1", m) <= 1 + copied
        BY <3>1, <4>2
      <4> QED
        BY <3>1, <4>2, <4>3, <4>4
    <3>4. \A h \in DOMAIN printed : \A m \in Shown(h) :
            m \in {<<"host2", k>> : k \in 1..3} /\ Times(h, m) <= 1 + copied + 0
      BY <3>1, <3>2, <3>3
    <3> QED
      BY <2>2, <3>4 DEF AnswersBelong
  <2>3. CASE program = "news"
    <3>1. /\ DOMAIN printed = {"sender"} \cup Pals /\ IsABag(net) /\ copied \in Nat
          /\ \A r \in Pals : printed[r] \in Seq({"news"} \X Nat)
          /\ printed["sender"] = <<>>
          /\ \A r \in Pals : \A k \in 1..Len(printed[r]) : \E j \in LinesSent : printed[r][k] = <<"news", j>>
          /\ \A r \in Pals : \A j \in LinesSent :
               Flying(Line(r, j)) + Times(r, <<"news", j>>) <= 1 + copied + Again(j)
      BY <1>2, <2>3 DEF NewsInv
    <3>2. Shown("sender") = {}
      BY <3>1 DEF Shown
    <3>3. ASSUME NEW r \in Pals, NEW m \in Shown(r)
          PROVE  /\ m \in {<<"news", k>> : k \in 1..text[1]} \cup (IF text[1] = 0 THEN {Garbage} ELSE {})
                 /\ Times(r, m) <= 1 + copied + (IF text[1] = m[2] /\ text[2] # "end" THEN 1 ELSE 0)
      <4>1. PICK i \in 1..Len(printed[r]) : m = printed[r][i]
        BY <3>1, LenProperties DEF Shown
      <4>2. PICK j \in LinesSent : m = <<"news", j>>
        BY <3>1, <4>1
      <4>3. j \in Nat /\ j <= text[1] /\ text[1] \in Nat /\ (j = 0 => text[1] = 0)
        BY <1>2, <2>3, SentOf
      <4>4. Flying(Line(r, j)) \in Nat /\ Times(r, m) \in Nat /\ m[2] = j
        BY <3>1, <4>2, Bagged, HostTallies
      <4>5. Flying(Line(r, j)) + Times(r, m) <= 1 + copied + Again(j)
        BY <3>1, <4>2
      <4>6. m \in {<<"news", k>> : k \in 1..text[1]} \cup (IF text[1] = 0 THEN {Garbage} ELSE {})
        BY <4>2, <4>3 DEF Garbage
      <4>7. CASE text[1] = m[2] /\ text[2] # "end"
        <5>1. Again(j) \in {0, 1}
          BY DEF Again
        <5>2. Times(r, m) <= 1 + copied + 1
          BY <3>1, <4>4, <4>5, <5>1
        <5> QED
          BY <4>6, <4>7, <5>2
      <4>8. CASE ~(text[1] = m[2] /\ text[2] # "end")
        <5>1. Again(j) = 0
          BY <4>4, <4>8 DEF Again
        <5>2. Times(r, m) <= 1 + copied + 0
          BY <3>1, <4>4, <4>5, <5>1
        <5> QED
          BY <4>6, <4>8, <5>2
      <4> QED
        BY <4>7, <4>8
    <3>4. \A h \in DOMAIN printed : \A m \in Shown(h) :
            /\ m \in {<<"news", k>> : k \in 1..text[1]} \cup (IF text[1] = 0 THEN {Garbage} ELSE {})
            /\ Times(h, m) <= 1 + copied + (IF text[1] = m[2] /\ text[2] # "end" THEN 1 ELSE 0)
      BY <3>1, <3>2, <3>3
    <3> QED
      BY <2>3, <3>4 DEF AnswersBelong
  <2> QED
    BY <2>1, <2>2, <2>3 DEF AnswersBelong, DatagramPrograms
<1> QED
  BY <1>1, <1>2, PTL

(***************************************************************************)
(* Threads behind the mutex and between the semaphores.  What they compute *)
(* is a sum over the rounds of their loops; here is what a sum rests on.   *)
(***************************************************************************)
LockInv == program = "mutex" =>
  /\ DOMAIN pc = Running /\ DOMAIN buf = Running /\ DOMAIN left = Running
  /\ \A t \in Running :
       /\ pc[t] \in {"lock", "loop", "store", "end"}
       /\ pc[t] \in {"loop", "store"} => lock = t
       /\ pc[t] = "store" => buf[t] = num
       /\ pc[t] = "end" => left[t] = 0

LEMMA RunningFacts ==
  /\ program \in {"sum", "semaphore"} => Running = {0, 1}
  /\ Running \subseteq Nat /\ NoThread \notin Running /\ reader = 0 /\ accu = 1
BY ThreadAssumption DEF Running, NoThread, reader, accu

LEMMA ThreadsStart == ASSUME Init, program \in ThreadPrograms PROVE ThreadInit
BY DEF Init, EchoInit, TransferInit, UrgentInit, DatagramInit, ProcessInit,
   EchoPrograms, TransferPrograms, UrgentPrograms, DatagramPrograms, ThreadPrograms, Adders,
   ProcessPrograms, PipePrograms, ForkPrograms, Thanking, HalfClosing

LEMMA ThreadsOwn ==
  ASSUME [Next]_vars, program' \in ThreadPrograms
  PROVE  /\ program' = program
         /\ (\E t \in Running : ThreadStep(t)) \/ UNCHANGED vars
<1>1. program' = program
  BY OwnSteps
<1> QED
  BY <1>1 DEF Next, EchoNext, TransferNext, UrgentNext, DatagramNext, ThreadNext, ProcessNext,
     EchoPrograms, TransferPrograms, UrgentPrograms, DatagramPrograms, ThreadPrograms, Adders,
     ProcessPrograms, PipePrograms, ForkPrograms, Thanking, HalfClosing

LEMMA InitLock == Init => LockInv
<1> SUFFICES ASSUME Init, program = "mutex" PROVE LockInv
  BY DEF LockInv
<1> QED
  BY ThreadsStart DEF ThreadPrograms, Adders, ThreadInit, LockInv

LEMMA StepLock == LockInv /\ [Next]_vars => LockInv'
<1> SUFFICES ASSUME LockInv, [Next]_vars, program' = "mutex" PROVE LockInv'
  BY DEF LockInv
<1>0. program = "mutex" /\ program' = program /\ Running' = Running
  BY ThreadsOwn DEF ThreadPrograms, Adders, Running
<1>1. CASE UNCHANGED vars
  BY <1>0, <1>1 DEF LockInv, vars, progVars, threadVars
<1>2. ASSUME NEW t \in Running, AdderStep(t) PROVE LockInv'
  <2>0. NoThread \notin Running
    BY RunningFacts
  <2>1. CASE Enter(t)
    BY <1>0, <1>2, <2>0, <2>1 DEF LockInv, Enter, Lock
  <2>2. CASE Load(t)
    BY <1>0, <1>2, <2>2 DEF LockInv, Load, Moves, threadVars
  <2>3. CASE Store(t)
    <3>1. pc[t] = "store" /\ pc' = [pc EXCEPT ![t] = "loop"] /\ buf' = buf /\ lock' = lock
          /\ DOMAIN left' = DOMAIN left /\ \A u \in DOMAIN left : u # t => left'[u] = left[u]
      BY <2>3 DEF Store, Moves
    <3> QED
      BY <1>0, <1>2, <3>1 DEF LockInv
  <2>4. CASE Return(t)
    BY <1>0, <1>2, <2>4 DEF LockInv, Return, Moves
  <2> QED
    BY <1>2, <2>1, <2>2, <2>3, <2>4 DEF AdderStep
<1> QED
  BY <1>0, <1>1, <1>2, ThreadsOwn DEF ThreadPrograms, Adders, ThreadStep

\* The number changes with the rounds that are left, and by what one thread
\* adds in just these.
LockedAdds == program = "mutex" =>
  \/ num' = num /\ left' = left
  \/ \E t \in Running : \E rounds \in 1..left[t] :
       num' = num + Added(t, rounds) /\ left' = [left EXCEPT ![t] = @ - rounds]
AllAdded == program = "mutex" /\ Joined => \A t \in Running : left[t] = 0

\* Behind the mutex no addition is lost, whatever the compiler keeps in a
\* register: every store adds a thread's next rounds to the number as it is,
\* and no round is left when all threads have been joined.
THEOREM NoAdditionLost == Spec => [][LockedAdds]_vars /\ []AllAdded
<1>1. Spec => []LockInv
  BY InitLock, StepLock, PTL DEF Spec
<1>2. LockInv => AllAdded
  BY DEF LockInv, AllAdded, Joined
<1>3. LockInv /\ [Next]_vars => [LockedAdds]_vars
  <2> SUFFICES ASSUME LockInv, [Next]_vars, program = "mutex", ~UNCHANGED vars PROVE LockedAdds
    BY DEF LockedAdds
  <2>1. PICK t \in Running : AdderStep(t)
    BY OwnSteps, ThreadsOwn DEF ThreadPrograms, Adders, ThreadStep
  <2>2. CASE Store(t)
    BY <2>1, <2>2 DEF LockInv, LockedAdds, Store, Moves
  <2>3. CASE Enter(t) \/ Load(t) \/ Return(t)
    BY <2>3 DEF Enter, Load, Return, LockedAdds, threadVars
  <2> QED
    BY <2>1, <2>2, <2>3 DEF AdderStep
<1> QED
  BY <1>1, <1>2, <1>3, PTL DEF Spec

SemTypes ==
  /\ DOMAIN pc = {reader, accu} /\ DOMAIN buf = {reader, accu} /\ DOMAIN printed = {reader, accu}
  /\ DOMAIN left = {reader, accu} /\ left[reader] \in 0..Reads /\ left[accu] \in 0..Reads
  /\ pc[reader] \in {"loop", "scan", "post", "end"} /\ pc[accu] \in {"loop", "add", "post", "end"}
  /\ sem_one \in Nat /\ sem_two \in Nat /\ num \in Int /\ text \in Seq(Int)

\* Whose turn it is: the reader's, accu's, or that of the one who takes the
\* semaphore that is 1.
SemCounts ==
  /\ \/ /\ pc[reader] \in {"scan", "post"} /\ pc[accu] = "loop" /\ sem_one = 0 /\ sem_two = 0
        /\ left[accu] = left[reader] /\ left[reader] > 0
     \/ /\ pc[reader] \in {"loop", "end"} /\ pc[accu] \in {"add", "post"} /\ sem_one = 0 /\ sem_two = 0
        /\ left[accu] = left[reader] + 1
     \/ /\ pc[reader] \in {"loop", "end"} /\ pc[accu] = "loop" /\ sem_one = 1 /\ sem_two = 0
        /\ left[accu] = left[reader] + 1
     \/ /\ pc[reader] \in {"loop", "end"} /\ pc[accu] \in {"loop", "end"} /\ sem_one = 0 /\ sem_two = 1
        /\ left[accu] = left[reader]
  /\ IF pc[reader] = "post" THEN Len(text) + left[reader] = Reads + 1
     ELSE Len(text) + left[reader] = Reads

SemInv == program = "semaphore" =>
  /\ SemTypes /\ SemCounts
  /\ text # <<>> => num = text[Len(text)]
  /\ IF pc[accu] = "end" THEN left[accu] = 0 /\ printed[accu] = <<buf[accu]>>
     ELSE printed[accu] = <<>>

LEMMA InitSem == Init => SemInv
<1> SUFFICES ASSUME Init, program = "semaphore" PROVE SemInv
  BY DEF SemInv
<1>1. ThreadInit /\ Running = {0, 1} /\ reader = 0 /\ accu = 1
  BY ThreadsStart, RunningFacts DEF ThreadPrograms, Adders
<1>2. left = [t \in Running |-> Reads] /\ <<>> \in Seq(Int) /\ Len(<<>>) = 0
  BY <1>1, ThreadAssumption DEF ThreadInit, Work
<1> QED
  BY <1>1, <1>2, ThreadAssumption DEF ThreadInit, SemInv, SemTypes, SemCounts

LEMMA StepSem == SemInv /\ [Next]_vars => SemInv'
<1> SUFFICES ASSUME SemInv, [Next]_vars, program' = "semaphore" PROVE SemInv'
  BY DEF SemInv
<1>0. program = "semaphore" /\ program' = program /\ reader = 0 /\ accu = 1
  BY ThreadsOwn DEF ThreadPrograms, Adders, reader, accu
<1>a. Reads \in Nat /\ Values \subseteq Int
  BY ThreadAssumption
<1>b. SemTypes /\ SemCounts
  BY <1>0 DEF SemInv
<1>c. Len(text) \in Nat /\ (text = <<>> <=> Len(text) = 0)
  BY <1>b, EmptySeq DEF SemTypes
<1>1. CASE UNCHANGED vars
  BY <1>0, <1>1 DEF SemInv, SemTypes, SemCounts, reader, accu, vars, progVars, threadVars
<1>2. CASE WaitToRead
  <2>1. /\ pc[reader] = "loop" /\ pc' = [pc EXCEPT ![reader] = "scan"] /\ left[reader] > 0
        /\ sem_two > 0 /\ sem_two' = sem_two - 1
        /\ UNCHANGED <<buf, text, printed, num, left, sem_one>>
    BY <1>2 DEF WaitToRead, WaitTwo, Moves
  <2> QED
    BY <1>0, <1>a, <1>b, <2>1 DEF SemInv, SemTypes, SemCounts, reader, accu
<1>3. CASE Scan
  <2>1. /\ num' \in Int /\ text' = Append(text, num') /\ text \in Seq(Int)
        /\ pc[reader] = "scan" /\ pc' = [pc EXCEPT ![reader] = "post"]
        /\ UNCHANGED <<buf, printed, left, lock, sem_one, sem_two>>
    BY <1>3, <1>a, <1>b DEF Scan, Moves, SemTypes
  <2>2. text' \in Seq(Int) /\ Len(text') = Len(text) + 1 /\ text'[Len(text')] = num'
    BY <2>1, AppendProperties
  <2>3. SemTypes'
    BY <1>0, <1>a, <1>b, <2>1, <2>2 DEF SemTypes, reader, accu
  <2>4. SemCounts'
    <3>1. /\ pc'[reader] = "post" /\ pc'[accu] = pc[accu]
          /\ left' = left /\ sem_one' = sem_one /\ sem_two' = sem_two
      BY <1>0, <1>b, <2>1 DEF SemTypes
    <3>2. Len(text') + left[reader] = Reads + 1
      <4>1. Len(text) + left[reader] = Reads /\ left[reader] \in 0..Reads
        BY <1>b, <2>1 DEF SemCounts, SemTypes
      <4> QED
        BY <1>a, <1>c, <2>2, <4>1
    <3> QED
      BY <1>b, <2>1, <3>1, <3>2 DEF SemCounts, reader, accu
  <2> QED
    BY <1>0, <1>b, <2>1, <2>2, <2>3, <2>4 DEF SemInv, SemTypes, reader, accu
<1>4. CASE PostOne
  <2>1. /\ pc[reader] = "post" /\ pc' = [pc EXCEPT ![reader] = "loop"]
        /\ sem_one' = sem_one + 1 /\ left' = [left EXCEPT ![reader] = @ - 1]
        /\ UNCHANGED <<buf, text, printed, num, sem_two>>
    BY <1>4 DEF PostOne, Moves
  <2>a. /\ pc'[reader] = "loop" /\ pc'[accu] = pc[accu]
        /\ left'[reader] = left[reader] - 1 /\ left'[accu] = left[accu]
    BY <1>0, <1>b, <2>1 DEF SemTypes
  <2>b. /\ pc[accu] = "loop" /\ sem_one = 0 /\ sem_two = 0 /\ left[accu] = left[reader]
        /\ left[reader] > 0 /\ Len(text) + left[reader] = Reads + 1 /\ left[reader] \in 0..Reads
    BY <1>b, <2>1 DEF SemCounts, SemTypes
  <2>2. SemTypes' /\ SemCounts'
    <3>1. SemTypes'
      BY <1>a, <1>b, <2>1, <2>a, <2>b DEF SemTypes, reader, accu
    <3>2. left[accu] = (left[reader] - 1) + 1 /\ Len(text) + (left[reader] - 1) = Reads
      BY <1>a, <1>c, <2>b
    <3> QED
      BY <2>1, <2>a, <2>b, <3>1, <3>2 DEF SemCounts, reader, accu
  <2> QED
    BY <1>0, <1>b, <2>1, <2>2 DEF SemInv, SemTypes, reader, accu
<1>5. CASE ReaderEnds
  BY <1>0, <1>5, <1>a DEF ReaderEnds, Moves, threadVars, SemInv, SemTypes, SemCounts, reader, accu
<1>6. CASE WaitToAdd
  <2>1. /\ pc[accu] = "loop" /\ pc' = [pc EXCEPT ![accu] = "add"] /\ left[accu] > 0
        /\ sem_one > 0 /\ sem_one' = sem_one - 1
        /\ UNCHANGED <<buf, text, printed, num, left, sem_two>>
    BY <1>6 DEF WaitToAdd, Moves
  <2>2. SemTypes' /\ SemCounts'
    BY <1>0, <1>a, <1>b, <1>c, <2>1 DEF SemTypes, SemCounts, reader, accu
  <2> QED
    BY <1>0, <1>b, <2>1, <2>2 DEF SemInv, SemTypes, reader, accu
<1>7. CASE Add
  BY <1>0, <1>7, <1>a DEF Add, Moves, threadVars, SemInv, SemTypes, SemCounts, reader, accu
<1>8. CASE PostTwo
  <2>1. /\ pc[accu] = "post" /\ pc' = [pc EXCEPT ![accu] = "loop"]
        /\ sem_two' = sem_two + 1 /\ left' = [left EXCEPT ![accu] = @ - 1]
        /\ UNCHANGED <<buf, text, printed, num, sem_one>>
    BY <1>8 DEF PostTwo, Moves
  <2>2. SemTypes' /\ SemCounts'
    BY <1>0, <1>a, <1>b, <1>c, <2>1 DEF SemTypes, SemCounts, reader, accu
  <2> QED
    BY <1>0, <1>b, <2>1, <2>2 DEF SemInv, SemTypes, reader, accu
<1>9. CASE AccuEnds
  <2>1. /\ left[accu] = 0 /\ pc[accu] = "loop" /\ pc' = [pc EXCEPT ![accu] = "end"]
        /\ printed' = [printed EXCEPT ![accu] = @ \o <<buf[accu]>>]
        /\ UNCHANGED <<buf, text, num, left, sem_one, sem_two>>
    BY <1>9 DEF AccuEnds, Prints, Moves, threadVars
  <2>2. /\ pc'[reader] = pc[reader] /\ pc'[accu] = "end" /\ printed'[accu] = <<buf[accu]>>
    <3>1. printed[accu] = <<>> /\ <<>> \o <<buf[accu]>> = <<buf[accu]>>
      BY <1>0, <2>1 DEF SemInv
    <3> QED
      BY <1>0, <1>b, <2>1, <3>1 DEF SemTypes
  <2>3. SemTypes'
    BY <1>0, <1>b, <2>1, <2>2 DEF SemTypes, reader, accu
  <2>4. SemCounts'
    BY <1>b, <2>1, <2>2 DEF SemCounts, SemTypes, reader, accu
  <2> QED
    BY <1>0, <2>1, <2>2, <2>3, <2>4 DEF SemInv, reader, accu
<1> QED
  BY <1>0, <1>1, <1>2, <1>3, <1>4, <1>5, <1>6, <1>7, <1>8, <1>9, ThreadsOwn
  DEF ThreadPrograms, Adders, ThreadStep, Reader, Accu

\* The k-th number that accu adds is the k-th that was typed.
AddsNext == program = "semaphore" =>
  buf'[accu] = IF pc[accu] = "add" /\ pc'[accu] = "post"
               THEN buf[accu] + text[Reads - left[accu] + 1] ELSE buf[accu]
PrintsAll == program = "semaphore" /\ pc[accu] = "end" =>
  left[accu] = 0 /\ Len(text) = Reads /\ printed[accu] = <<buf[accu]>>

\* Between the semaphores every number typed is added, once and in its turn,
\* before the next is read, and the sum is printed after the last.
THEOREM NumbersHandedOver == Spec => [][AddsNext]_vars /\ []PrintsAll
<1>1. Spec => []SemInv
  BY InitSem, StepSem, PTL DEF Spec
<1>2. SemInv => PrintsAll
  <2> SUFFICES ASSUME SemInv, program = "semaphore", pc[accu] = "end"
               PROVE  left[accu] = 0 /\ Len(text) = Reads /\ printed[accu] = <<buf[accu]>>
    BY DEF PrintsAll
  <2>1. /\ Reads \in Nat /\ left[reader] \in Nat /\ Len(text) \in Nat /\ left[accu] = 0
        /\ printed[accu] = <<buf[accu]>> /\ SemCounts
    BY ThreadAssumption DEF SemInv, SemTypes
  <2> QED
    BY <2>1 DEF SemCounts
<1>3. SemInv /\ [Next]_vars => [AddsNext]_vars
  <2> SUFFICES ASSUME SemInv, [Next]_vars, program = "semaphore", ~UNCHANGED vars PROVE AddsNext
    BY DEF AddsNext
  <2>0. Running = {0, 1} /\ reader = 0 /\ accu = 1 /\ Reads \in Nat
    BY RunningFacts, ThreadAssumption
  <2>1. Reader \/ Accu
    BY OwnSteps, ThreadsOwn DEF ThreadPrograms, Adders, ThreadStep
  <2>2. CASE Add
    <3>1. pc[accu] = "add" /\ buf' = [buf EXCEPT ![accu] = @ + num] /\ pc' = [pc EXCEPT ![accu] = "post"]
      BY <2>2 DEF Add, Moves
    <3>2. Len(text) = Reads - left[accu] + 1 /\ text # <<>>
      <4>1. /\ SemCounts /\ pc[accu] = "add" /\ sem_one \in Nat /\ sem_two \in Nat
            /\ left[reader] \in 0..Reads /\ left[accu] \in 0..Reads /\ Len(text) \in Nat
            /\ pc[reader] \in {"loop", "scan", "post", "end"}
        BY <3>1 DEF SemInv, SemTypes
      <4>2. left[accu] = left[reader] + 1 /\ Len(text) + left[reader] = Reads
        BY <4>1 DEF SemCounts
      <4>3. Len(text) = Reads - left[accu] + 1 /\ Len(text) # 0
        BY <2>0, <4>1, <4>2
      <4> QED
        BY <4>3
    <3> QED
      BY <2>0, <3>1, <3>2 DEF SemInv, SemTypes, AddsNext
  <2>3. CASE Reader
    BY <2>0, <2>3 DEF Reader, WaitToRead, Scan, PostOne, ReaderEnds, Moves, AddsNext, SemInv, SemTypes
  <2>4. CASE WaitToAdd \/ PostTwo \/ AccuEnds
    BY <2>0, <2>4 DEF WaitToAdd, PostTwo, AccuEnds, Moves, AddsNext, SemInv, SemTypes
  <2> QED
    BY <2>1, <2>2, <2>3, <2>4 DEF Accu
<1> QED
  BY <1>1, <1>2, <1>3, PTL DEF Spec

(***************************************************************************)
(* What the threads compute.                                               *)
(***************************************************************************)
WorkTypes ==
  /\ DOMAIN left = Running /\ DOMAIN buf = Running /\ DOMAIN pc = Running /\ num \in Int
  /\ \A t \in Running :
       /\ left[t] \in 0..Iter /\ buf[t] \in Int
       /\ pc[t] \in {"lock", "loop", "store", "end"}
Performed(t) == 1..(Iter - left[t])

\* Behind the mutex the number is the sum of all the additions done so far.
MutexInv == program = "mutex" =>
  WorkTypes /\ num = SumOver([t \in Running |-> SumOver(Work(t), Performed(t))], Running)

\* Without it the number, and what a thread holds of it, is the sum of some.
Old == {r \in Additions : r[2] \in Performed(r[1])}
OldSums == {SumOver(Amounts, kept) : kept \in SUBSET Old}
KeptInv == program \in {"sum", "unlocked"} =>
  WorkTypes /\ num \in OldSums /\ \A t \in Running : pc[t] = "store" => buf[t] \in OldSums

\* Between the semaphores accu has the sum of the first numbers typed.
Summed == Reads - left[accu] + (IF pc[accu] = "post" THEN 1 ELSE 0)
SumInv == program = "semaphore" => buf[accu] \in Int /\ buf[accu] = SumOver(text, 1..Summed)

LEMMA WorkFacts ==
  ASSUME program \in Adders, NEW t \in Running
  PROVE  /\ DOMAIN Work(t) = 1..Iter /\ Len(Work(t)) = Iter /\ Iter \in Nat
         /\ \A k \in 1..Iter : Work(t)[k] \in Int
<1>1. t \in Int /\ Iter \in Nat
  BY RunningFacts, ThreadAssumption
<1>2. Work(t) \in [1..Iter -> Int]
  BY <1>1 DEF Work, Adders
<1>3. Len(Work(t)) = Iter
  BY <1>1, <1>2
<1> QED
  BY <1>1, <1>2, <1>3

\* A store adds a sum that extends what its thread has performed.
LEMMA Extended ==
  ASSUME program \in Adders, WorkTypes, NEW t \in Running, NEW rounds \in 1..left[t],
         left' = [left EXCEPT ![t] = @ - rounds], program' = program
  PROVE  /\ Added(t, rounds) \in Int /\ Performed(t)' = 1..(Iter - left[t] + rounds)
         /\ Performed(t)' = Performed(t) \cup ((Iter - left[t] + 1)..(Iter - left[t] + rounds))
         /\ Added(t, rounds) = SumOver(Work(t), (Iter - left[t] + 1)..(Iter - left[t] + rounds))
         /\ SumOver(Work(t), Performed(t)) \in Int
         /\ SumOver(Work(t), Performed(t)') = SumOver(Work(t), Performed(t)) + Added(t, rounds)
<1> DEFINE new == (Iter - left[t] + 1)..(Iter - left[t] + rounds)
<1>1. /\ Iter \in Nat /\ left[t] \in 0..Iter /\ rounds \in 1..Iter /\ Len(Work(t)) = Iter
      /\ \A k \in 1..Iter : Work(t)[k] \in Int
  BY WorkFacts DEF WorkTypes
<1>2. left'[t] = left[t] - rounds
  BY DEF WorkTypes
<1>3. Performed(t)' = 1..(Iter - left[t] + rounds)
  BY <1>1, <1>2 DEF Performed
<1>4. Performed(t)' = Performed(t) \cup new /\ Performed(t) \cap new = {} /\ Performed(t) \cup new \subseteq 1..Iter
  BY <1>1, <1>3, SMTT(30) DEF Performed
<1>5. IsFiniteSet(Performed(t)) /\ IsFiniteSet(new)
  <2>1. Iter - left[t] \in Int /\ Iter - left[t] + 1 \in Int /\ Iter - left[t] + rounds \in Int /\ 1 \in Int
    BY <1>1
  <2> QED
    BY <2>1, FS_Interval, Zenon DEF Performed
<1>6. Added(t, rounds) = SumOver(Work(t), new)
  BY <1>1 DEF Added
<1> HIDE DEF new
<1>7. \A k \in Performed(t) \cup new : Work(t)[k] \in Int
  BY <1>1, <1>4
<1>8. SumOver(Work(t), Performed(t)) \in Int /\ SumOver(Work(t), new) \in Int
  BY <1>5, <1>7, SumTakesOut
<1>9. SumOver(Work(t), Performed(t) \cup new) = SumOver(Work(t), Performed(t)) + SumOver(Work(t), new)
  BY <1>4, <1>5, <1>7, SumSplits
<1> QED
  BY <1>3, <1>4, <1>6, <1>8, <1>9 DEF new

LEMMA RunningFinite == IsFiniteSet(Running)
BY FS_Interval, ThreadAssumption DEF Running

LEMMA InitMutex == Init => MutexInv
<1> SUFFICES ASSUME Init, program = "mutex" PROVE MutexInv
  BY DEF MutexInv
<1>1. ThreadInit /\ program \in Adders
  BY ThreadsStart DEF ThreadPrograms, Adders
<1>2. \A t \in Running : Len(Work(t)) = Iter /\ Iter \in Nat
  BY <1>1, WorkFacts
<1>3. WorkTypes
  BY <1>1, <1>2 DEF ThreadInit, WorkTypes
<1> DEFINE sums == [t \in Running |-> SumOver(Work(t), Performed(t))]
<1>4. ASSUME NEW t \in Running PROVE sums[t] = 0
  <2>1. Performed(t) = {}
    BY <1>1, <1>2 DEF ThreadInit, Performed
  <2> QED
    BY <2>1, SumTakesOut, FS_EmptySet
<1> HIDE DEF sums
<1>5. SumOver(sums, Running) = 0 * SumOver(sums, Running) /\ SumOver(sums, Running) \in Int
  BY <1>4, RunningFinite, SumScales, SumTakesOut
<1>6. SumOver(sums, Running) = 0
  BY <1>5
<1> QED
  BY <1>1, <1>3, <1>6 DEF MutexInv, ThreadInit, sums

LEMMA StepMutex == MutexInv /\ LockInv /\ [Next]_vars => MutexInv'
<1> SUFFICES ASSUME MutexInv, LockInv, [Next]_vars, program' = "mutex" PROVE MutexInv'
  BY DEF MutexInv
<1>0. program = "mutex" /\ program' = program /\ Running' = Running /\ program \in Adders
  BY ThreadsOwn DEF ThreadPrograms, Adders, Running
<1> DEFINE sums == [t \in Running |-> SumOver(Work(t), Performed(t))]
<1>a. WorkTypes /\ num = SumOver(sums, Running)
  BY <1>0 DEF MutexInv
<1>b. \A t : Work(t)' = Work(t)
  BY <1>0 DEF Work
<1>1. ASSUME num' = num, left' = left, WorkTypes' PROVE MutexInv'
  <2>1. sums' = sums
    BY <1>0, <1>1, <1>b DEF Performed
  <2> QED
    BY <1>0, <1>1, <1>a, <2>1 DEF MutexInv
<1>2. CASE UNCHANGED vars
  <2>1. WorkTypes'
    BY <1>0, <1>2, <1>a DEF WorkTypes, vars, progVars, threadVars
  <2> QED
    BY <1>1, <1>2, <2>1 DEF vars, threadVars
<1>3. ASSUME NEW t \in Running, Enter(t) \/ Load(t) \/ Return(t) PROVE MutexInv'
  <2>1. WorkTypes' /\ num' = num /\ left' = left
    BY <1>0, <1>3, <1>a DEF WorkTypes, Enter, Lock, Load, Return, Moves, threadVars
  <2> QED
    BY <1>1, <2>1
<1>4. ASSUME NEW t \in Running, Store(t) PROVE MutexInv'
  <2>1. PICK rounds \in 1..left[t] :
          num' = buf[t] + Added(t, rounds) /\ left' = [left EXCEPT ![t] = @ - rounds]
    BY <1>4 DEF Store
  <2>2. pc[t] = "store" /\ pc' = [pc EXCEPT ![t] = "loop"] /\ buf' = buf /\ buf[t] = num
    BY <1>0, <1>4 DEF Store, Moves, LockInv
  <2>3. /\ Added(t, rounds) \in Int /\ SumOver(Work(t), Performed(t)) \in Int
        /\ SumOver(Work(t), Performed(t)') = SumOver(Work(t), Performed(t)) + Added(t, rounds)
    BY <1>0, <1>a, <2>1, Extended
  <2>4. WorkTypes'
    <3>1. left'[t] \in 0..Iter /\ num' \in Int
      BY <1>a, <2>1, <2>3, ThreadAssumption DEF WorkTypes
    <3> QED
      BY <1>0, <1>a, <2>1, <2>2, <3>1 DEF WorkTypes
  <2>5. ASSUME NEW u \in Running PROVE sums[u] \in Int
    <3>0. 1 \in Int /\ Iter - left[u] \in Int /\ Iter - left[u] <= Iter
      BY <1>a, ThreadAssumption DEF WorkTypes
    <3>1. Performed(u) \subseteq 1..Iter /\ IsFiniteSet(Performed(u))
      BY <3>0, ThreadAssumption, FS_Interval DEF Performed
    <3>2. \A k \in Performed(u) : Work(u)[k] \in Int
      BY <1>0, <3>1, WorkFacts
    <3> QED
      BY <3>1, <3>2, SumTakesOut
  <2>6. sums'[t] = sums[t] + Added(t, rounds)
    BY <1>0, <1>b, <2>3
  <2>7. \A u \in Running \ {t} : sums'[u] = sums[u]
    <3>1. \A u \in Running \ {t} : left'[u] = left[u]
      BY <1>a, <2>1 DEF WorkTypes
    <3> QED
      BY <1>0, <1>b, <3>1 DEF Performed
  <2> HIDE DEF sums
  <2>8. SumOver(sums', Running) = SumOver(sums, Running) + (sums'[t] - sums[t])
    BY <2>3, <2>5, <2>6, <2>7, RunningFinite, SumChanges
  <2>9. num' = SumOver(sums', Running)
    BY <1>a, <2>1, <2>2, <2>3, <2>5, <2>6, <2>8 DEF WorkTypes
  <2> QED
    BY <1>0, <2>4, <2>9 DEF MutexInv, sums
<1> QED
  BY <1>0, <1>2, <1>3, <1>4, ThreadsOwn DEF ThreadPrograms, ThreadStep, AdderStep

LEMMA AmountsFacts ==
  ASSUME program \in Adders
  PROVE  /\ Additions = Running \X (1..Iter) /\ IsFiniteSet(Additions)
         /\ \A r \in Additions : Amounts[r] \in Int /\ Amounts[r] = Work(r[1])[r[2]]
<1>1. \A t \in Running : DOMAIN Work(t) = 1..Iter /\ \A k \in 1..Iter : Work(t)[k] \in Int
  BY WorkFacts
<1>2. Additions = Running \X (1..Iter)
  <2>1. ASSUME NEW r PROVE r \in Additions <=> \E t \in Running : r \in {t} \X (1..Iter)
    BY <1>1 DEF Additions
  <2> QED
    BY <2>1
<1>3. IsFiniteSet(Additions)
  <2>1. IsFiniteSet(1..Iter)
    BY FS_Interval, ThreadAssumption
  <2> QED
    BY <1>2, <2>1, RunningFinite, FS_Product
<1> QED
  BY <1>1, <1>2, <1>3 DEF Amounts

LEMMA InitKept == Init => KeptInv
<1> SUFFICES ASSUME Init, program \in {"sum", "unlocked"} PROVE KeptInv
  BY DEF KeptInv
<1>1. ThreadInit /\ program \in Adders
  BY ThreadsStart DEF ThreadPrograms, Adders
<1>2. WorkTypes
  BY <1>1, WorkFacts DEF ThreadInit, WorkTypes
<1>3. SumOver(Amounts, {}) = 0
  BY SumTakesOut, FS_EmptySet
<1> QED
  BY <1>1, <1>2, <1>3 DEF KeptInv, OldSums, ThreadInit

LEMMA StepKept == KeptInv /\ [Next]_vars => KeptInv'
<1> SUFFICES ASSUME KeptInv, [Next]_vars, program' \in {"sum", "unlocked"} PROVE KeptInv'
  BY DEF KeptInv
<1>0. program \in {"sum", "unlocked"} /\ program' = program /\ Running' = Running /\ program \in Adders
  BY ThreadsOwn DEF ThreadPrograms, Adders, Running
<1>a. WorkTypes /\ num \in OldSums /\ \A t \in Running : pc[t] = "store" => buf[t] \in OldSums
  BY <1>0 DEF KeptInv
<1>b. Additions' = Additions /\ Amounts' = Amounts
  BY <1>0 DEF Additions, Amounts, Work
<1>1. ASSUME left' = left PROVE OldSums' = OldSums
  BY <1>1, <1>b DEF OldSums, Old, Performed
<1>2. CASE UNCHANGED vars
  BY <1>0, <1>1, <1>2, <1>a DEF KeptInv, WorkTypes, vars, progVars, threadVars
<1>3. ASSUME NEW t \in Running, Enter(t) \/ Load(t) \/ Return(t) PROVE KeptInv'
  <2>1. WorkTypes' /\ num' = num /\ left' = left
    BY <1>0, <1>3, <1>a DEF WorkTypes, Enter, Lock, Load, Return, Moves, threadVars
  <2>2. \A u \in Running : pc'[u] = "store" => buf'[u] \in OldSums
    BY <1>3, <1>a DEF WorkTypes, Enter, Lock, Load, Return, Moves
  <2> QED
    BY <1>0, <1>1, <1>a, <2>1, <2>2 DEF KeptInv
<1>4. ASSUME NEW t \in Running, Store(t) PROVE KeptInv'
  <2>1. PICK rounds \in 1..left[t] :
          num' = buf[t] + Added(t, rounds) /\ left' = [left EXCEPT ![t] = @ - rounds]
    BY <1>4 DEF Store
  <2>2. pc[t] = "store" /\ pc' = [pc EXCEPT ![t] = "loop"] /\ buf' = buf
    BY <1>4 DEF Store, Moves
  <2> DEFINE new == (Iter - left[t] + 1)..(Iter - left[t] + rounds)
  <2>3. /\ Added(t, rounds) \in Int /\ Performed(t)' = Performed(t) \cup new
        /\ Added(t, rounds) = SumOver(Work(t), new)
    BY <1>0, <1>a, <2>1, Extended
  <2>4. WorkTypes'
    <3>1. left'[t] \in 0..Iter /\ num' \in Int
      BY <1>a, <2>1, <2>3, ThreadAssumption DEF WorkTypes
    <3> QED
      BY <1>0, <1>a, <2>1, <2>2, <3>1 DEF WorkTypes
  <2>5. new \subseteq 1..Iter /\ IsFiniteSet(new) /\ new \cap Performed(t) = {}
    <3>1. Iter \in Nat /\ left[t] \in 0..Iter /\ rounds \in 1..left[t]
      BY <1>a, ThreadAssumption DEF WorkTypes
    <3>2. Iter - left[t] + 1 \in Int /\ Iter - left[t] + rounds \in Int
      BY <3>1
    <3>3. IsFiniteSet(new)
      BY <3>2, FS_Interval
    <3> QED
      BY <3>1, <3>3 DEF Performed
  <2> HIDE DEF new
  <2>6. Old' = Old \cup ({t} \X new)
    <3>1. \A u \in Running \ {t} : Performed(u)' = Performed(u)
      BY <1>a, <2>1 DEF WorkTypes, Performed
    <3> QED
      BY <1>0, <1>b, <2>3, <2>5, <3>1, AmountsFacts DEF Old
  <2>7. OldSums \subseteq OldSums'
    BY <1>b, <2>6 DEF OldSums
  <2>8. PICK kept \in SUBSET Old : buf[t] = SumOver(Amounts, kept)
    BY <1>a, <2>2 DEF OldSums
  <2>9. SumOver(Amounts, {t} \X new) = Added(t, rounds) /\ IsFiniteSet({t} \X new)
    <3>1. \A k \in new : Work(t)[k] \in Int /\ Amounts[<<t, k>>] = Work(t)[k]
      BY <1>0, <2>5, AmountsFacts
    <3>2. IsFiniteSet({t} \X new) /\ SumOver(Amounts, {t} \X new) = SumOver(Work(t), new)
      BY <2>5, <3>1, SumPairs, ZenonT(30)
    <3> QED
      BY <2>3, <3>2
  <2>10. num' = SumOver(Amounts, kept \cup ({t} \X new))
    <3>1. kept \in SUBSET Additions /\ {t} \X new \in SUBSET Additions /\ kept \cap ({t} \X new) = {}
      BY <1>0, <2>5, AmountsFacts DEF Old
    <3>2. IsFiniteSet(kept)
      BY <1>0, <3>1, AmountsFacts, FS_Subset
    <3>3. \A r \in kept \cup ({t} \X new) : Amounts[r] \in Int
      BY <1>0, <3>1, AmountsFacts
    <3>4. SumOver(Amounts, kept \cup ({t} \X new)) = SumOver(Amounts, kept) + SumOver(Amounts, {t} \X new)
      BY <2>9, <3>1, <3>2, <3>3, SumSplits
    <3> QED
      BY <2>1, <2>8, <2>9, <3>4
  <2>11. num' \in OldSums'
    BY <1>b, <2>6, <2>10 DEF OldSums
  <2>12. \A u \in Running : pc'[u] = "store" => buf'[u] \in OldSums'
    BY <1>a, <2>2, <2>7 DEF WorkTypes
  <2> QED
    BY <1>0, <2>4, <2>11, <2>12 DEF KeptInv
<1> QED
  BY <1>0, <1>2, <1>3, <1>4, ThreadsOwn DEF ThreadPrograms, Adders, ThreadStep, AdderStep

LEMMA InitSum == Init => SumInv
<1> SUFFICES ASSUME Init, program = "semaphore" PROVE SumInv
  BY DEF SumInv
<1>1. ThreadInit /\ SemInv
  BY ThreadsStart, InitSem DEF ThreadPrograms, Adders
<1>2. buf[accu] = 0 /\ Reads \in Nat /\ left[accu] = Reads /\ pc[accu] = "loop"
  BY <1>1, RunningFacts, ThreadAssumption DEF ThreadInit, Work
<1>3. 1..Summed = {}
  BY <1>2 DEF Summed
<1> QED
  BY <1>2, <1>3, SumTakesOut, FS_EmptySet DEF SumInv

LEMMA SummedFacts ==
  ASSUME SemInv, program = "semaphore"
  PROVE  Summed \in 0..Len(text) /\ Len(text) \in Nat /\ text \in Seq(Int)
<1>1. SemTypes /\ SemCounts /\ Len(text) \in Nat /\ text \in Seq(Int)
  BY DEF SemInv, SemTypes
<1>2. PICK r, a, n, all \in Nat : r = left[reader] /\ a = left[accu] /\ n = Len(text) /\ all = Reads /\ a <= all
  BY <1>1, ThreadAssumption DEF SemTypes
<1>3. \/ a = r /\ pc[accu] # "post"
      \/ a = r + 1 /\ pc[reader] # "post"
  BY <1>1, <1>2 DEF SemCounts
<1>4. n + r = all \/ (pc[reader] = "post" /\ n + r = all + 1)
  BY <1>1, <1>2 DEF SemCounts
<1>5. Summed = IF pc[accu] = "post" THEN all - a + 1 ELSE all - a
  <2>1. all - a + 0 = all - a
    OBVIOUS
  <2> QED
    BY <1>2, <2>1 DEF Summed
<1>6. CASE a = r /\ pc[accu] # "post"
  <2>1. Summed = all - r
    BY <1>5, <1>6
  <2> QED
    BY SMTT(30), <1>1, <1>2, <1>4, <1>6, <2>1
<1>7. CASE a = r + 1 /\ n + r = all
  <2>1. all - a + 1 = n /\ all - a = n - 1 /\ n \in 0..n /\ n - 1 \in 0..n
    <3>1. a = r + 1 /\ n + r = all /\ a <= all
      BY <1>2, <1>7
    <3> QED
      BY <3>1
  <2>2. Summed = n \/ Summed = n - 1
    BY <1>5, <2>1
  <2> QED
    BY <1>1, <1>2, <2>1, <2>2
<1> QED
  BY <1>3, <1>4, <1>6, <1>7

LEMMA StepSum == SumInv /\ SemInv /\ [Next]_vars => SumInv'
<1> SUFFICES ASSUME SumInv, SemInv, [Next]_vars, program' = "semaphore" PROVE SumInv'
  BY DEF SumInv
<1>0. program = "semaphore" /\ reader = 0 /\ accu = 1 /\ Reads \in Nat
  BY ThreadsOwn, ThreadAssumption DEF ThreadPrograms, Adders, reader, accu
<1>a. buf[accu] \in Int /\ buf[accu] = SumOver(text, 1..Summed) /\ SemTypes /\ SemCounts
  BY <1>0 DEF SumInv, SemInv
<1>1. ASSUME Summed' = Summed, text' = text, buf' = buf PROVE SumInv'
  BY <1>0, <1>1, <1>a DEF SumInv, accu
<1>2. CASE UNCHANGED vars
  BY <1>1, <1>2 DEF vars, progVars, threadVars, Summed, accu
<1>3. CASE WaitToRead \/ PostOne \/ ReaderEnds \/ WaitToAdd \/ PostTwo \/ AccuEnds
  <2>1. text' = text /\ buf' = buf
    BY <1>3 DEF WaitToRead, PostOne, ReaderEnds, WaitToAdd, PostTwo, AccuEnds
  <2>2. Summed' = Summed
    BY <1>0, <1>3, <1>a, SMTT(30) DEF Summed, SemTypes, reader, accu, Moves, threadVars,
       WaitToRead, PostOne, ReaderEnds, WaitToAdd, PostTwo, AccuEnds
  <2> QED
    BY <1>1, <2>1, <2>2
<1>4. CASE Scan
  <2>1. text' = Append(text, num') /\ buf' = buf /\ left' = left /\ pc'[accu] = pc[accu]
    BY <1>0, <1>4, <1>a DEF Scan, Moves, SemTypes, reader, accu
  <2>2. Summed' = Summed /\ buf'[accu] = buf[accu]
    BY <2>1 DEF Summed, accu
  <2>3. IsFiniteSet(1..Summed) /\ \A k \in 1..Summed : text[k] \in Int /\ text'[k] = text[k]
    <3>1. Summed \in 0..Len(text) /\ Len(text) \in Nat /\ text \in Seq(Int)
      BY <1>0, SummedFacts
    <3>2. \A k \in 1..Summed : text[k] \in Int /\ text'[k] = text[k]
      BY <2>1, <3>1
    <3> QED
      BY <3>1, <3>2, FS_Interval
  <2>4. SumOver(text', 1..Summed) = SumOver(text, 1..Summed)
    BY <2>3, SumAgrees
  <2> QED
    BY <1>a, <2>2, <2>4 DEF SumInv
<1>5. CASE Add
  <2>1. /\ pc[accu] = "add" /\ pc'[accu] = "post" /\ buf'[accu] = buf[accu] + num
        /\ text' = text /\ left' = left
    BY <1>0, <1>5, <1>a DEF Add, Moves, SemTypes, reader, accu, threadVars
  <2>2. Summed' = Summed + 1 /\ Summed + 1 = Len(text) /\ Summed \in 0..Len(text) /\ Len(text) \in Nat
    <3>1. left[accu] = left[reader] + 1 /\ Len(text) + left[reader] = Reads /\ left[reader] \in 0..Reads
      BY <1>a, <2>1 DEF SemCounts, SemTypes
    <3>2. Len(text) \in Nat /\ Summed \in 0..Len(text)
      BY <1>0, SummedFacts
    <3>3. Summed' = Reads - left[accu] + 1 /\ Summed = Reads - left[accu] + 0
      BY <2>1 DEF Summed, accu
    <3>4. PICK l, n, r \in Nat : l = left[reader] /\ n = Len(text) /\ r = Reads
      BY <1>0, <3>1, <3>2
    <3>5. r - (l + 1) + 1 = n /\ r - (l + 1) + 0 + 1 = n
      BY <3>1, <3>4
    <3> QED
      BY <3>1, <3>2, <3>3, <3>4, <3>5
  <2>3. text \in Seq(Int) /\ num = text[Len(text)] /\ num \in Int
    <3>1. text \in Seq(Int) /\ text # <<>>
      BY <1>a, <2>2 DEF SemTypes
    <3> QED
      BY <1>0, <1>a, <3>1 DEF SemInv, SemTypes
  <2>4. /\ 1..(Summed + 1) = (1..Summed) \cup {Summed + 1} /\ Summed + 1 \notin 1..Summed
        /\ IsFiniteSet(1..Summed) /\ \A k \in (1..Summed) \cup {Summed + 1} : text[k] \in Int
    <3>1. \A k \in (1..Summed) \cup {Summed + 1} : text[k] \in Int
      BY <2>2, <2>3
    <3>2. Summed \in Nat
      BY <2>2
    <3>3. IsFiniteSet(1..Summed)
      BY <3>2, FS_Interval
    <3> QED
      BY <3>1, <3>2, <3>3
  <2>5. SumOver(text, (1..Summed) \cup {Summed + 1}) = text[Summed + 1] + SumOver(text, 1..Summed)
    BY <2>4, SumExtends
  <2>6. buf'[accu] \in Int /\ buf'[accu] = SumOver(text', 1..Summed')
    <3>1. num = text[Summed + 1] /\ text' = text /\ 1..Summed' = (1..Summed) \cup {Summed + 1}
      BY <2>1, <2>2, <2>3, <2>4
    <3>2. buf'[accu] = buf[accu] + num /\ buf[accu] \in Int /\ num \in Int
      BY <1>a, <2>1, <2>3
    <3>3. SumOver(text', 1..Summed') = num + buf[accu]
      BY <1>a, <2>5, <3>1
    <3> QED
      BY <3>2, <3>3
  <2> QED
    BY <2>6 DEF SumInv, accu
<1> QED
  BY <1>0, <1>2, <1>3, <1>4, <1>5, ThreadsOwn
  DEF ThreadPrograms, Adders, ThreadStep, Reader, Accu

\* The sums of chapter-18: behind the mutex and between the semaphores the
\* result is the sum of everything, whatever the compiler keeps in a register
\* and however the threads take turns; without a lock it is always the sum of
\* some of the additions.
THEOREM NumbersAddUp == Spec => []ThreadResults
<1>1. Spec => [](LockInv /\ MutexInv)
  BY InitLock, StepLock, InitMutex, StepMutex, PTL DEF Spec
<1>2. Spec => []KeptInv
  BY InitKept, StepKept, PTL DEF Spec
<1>3. Spec => [](SemInv /\ SumInv)
  BY InitSem, StepSem, InitSum, StepSum, PTL DEF Spec
<1>4. LockInv /\ MutexInv /\ KeptInv /\ SemInv /\ SumInv => ThreadResults
  <2> SUFFICES ASSUME LockInv, MutexInv, KeptInv, SemInv, SumInv, program \in ThreadPrograms
               PROVE  ThreadResults
    BY DEF ThreadResults
  <2>1. CASE program = "mutex"
    <3>1. ASSUME Joined PROVE num = SumOf([t \in Running |-> SumOf(Work(t))])
      <4>1. ASSUME NEW t \in Running PROVE Performed(t) = DOMAIN Work(t)
        <5>1. left[t] = 0 /\ DOMAIN Work(t) = 1..Iter /\ Iter \in Nat
          BY <2>1, <3>1, WorkFacts DEF LockInv, Joined, Adders
        <5> QED
          BY <5>1 DEF Performed
      <4>2. num = SumOver([t \in Running |-> SumOver(Work(t), Performed(t))], Running)
        BY <2>1 DEF MutexInv
      <4>3. [t \in Running |-> SumOver(Work(t), Performed(t))] = [t \in Running |-> SumOf(Work(t))]
        BY <4>1 DEF SumOf
      <4> QED
        BY <4>2, <4>3 DEF SumOf
    <3> QED
      BY <2>1, <3>1 DEF ThreadResults
  <2>2. CASE program = "semaphore"
    <3>1. ASSUME pc[accu] = "end" PROVE printed[accu] = <<SumOf(text)>>
      <4>1. printed[accu] = <<buf[accu]>> /\ buf[accu] = SumOver(text, 1..Summed)
        BY <2>2, <3>1 DEF SemInv, SumInv
      <4>2. Summed = Len(text)
        <5>1. SemTypes /\ SemCounts /\ left[accu] = 0 /\ Reads \in Nat /\ Len(text) \in Nat
          BY <2>2, <3>1, ThreadAssumption DEF SemInv, SemTypes
        <5> QED
          BY <3>1, <5>1 DEF SemTypes, SemCounts, Summed
      <4>3. DOMAIN text = 1..Len(text)
        BY <2>2, SummedFacts
      <4> QED
        BY <4>1, <4>2, <4>3 DEF SumOf
    <3> QED
      BY <2>2, <3>1 DEF ThreadResults
  <2>3. CASE program \in {"sum", "unlocked"}
    <3>1. num \in OldSums
      BY <2>3 DEF KeptInv
    <3>2. \E kept \in SUBSET Additions : num = SumOver(Amounts, kept)
      BY <3>1 DEF OldSums, Old
    <3> QED
      BY <2>3, <3>2 DEF ThreadResults
  <2> QED
    BY <2>1, <2>2, <2>3 DEF ThreadPrograms, Adders
<1> QED
  BY <1>1, <1>2, <1>3, <1>4, PTL

(***************************************************************************)
(* Urgent data and peeking.                                                *)
(***************************************************************************)
\* The numbers in a sequence, and two of which the second follows the first.
Members(s) == {s[k] : k \in DOMAIN s}
Ordered(t, s) ==
  /\ Increasing(t) /\ Increasing(s)
  /\ \A j \in DOMAIN t : \A k \in DOMAIN s : t[j] < s[k]

Told == printed["server"]
Ahead == stream["server"]
Peeked == buf["server"]
All == IF program = "oob" THEN 3 * Unit + 1 ELSE Unit
Through == pc["server"] \in {"close", "end"}

UrgentTypes ==
  /\ DOMAIN pc = Sides /\ DOMAIN stream = Sides /\ DOMAIN buf = Sides /\ DOMAIN printed = Sides
  /\ Told \in Seq(Nat) /\ Ahead \in Seq(Nat) /\ Peeked \in Seq(Nat) /\ heard \in Seq(Nat) /\ text \in Seq(Nat)
  /\ pc["client"] \in {"send", "close", "end"}
  /\ pc["server"] \in {"close", "end"} \cup (IF program = "oob" THEN {"accepted", "recv"} ELSE {"peek", "read"})
  /\ timely \in BOOLEAN /\ fresh \in BOOLEAN /\ urgent \in {"ignored", "no", "pending", "handled", "again"}
  /\ stream["client"] = <<>> /\ reset = "no"

\* Everything sent is ahead or told, in its order; what is left out is urgent.
OrdinaryInv ==
  /\ Ordered(Told, Ahead)
  /\ Members(Told) \cup Members(Ahead) \subseteq 1..Len(text)
  /\ pc["client"] # "send" => Len(text) = All
  /\ "client" \in fin => pc["client"] = "end"
  /\ program = "oob" => 1..Len(text) \ UrgentBytes \subseteq Members(Told) \cup Members(Ahead)
  /\ program = "oob" /\ Through => pc["client"] = "end" /\ Ahead = <<>>

\* The mark is newer than all that was heard while it was not.
HeardInv ==
  /\ mark \in UrgentBytes \cup {NoMark} /\ mark <= Len(text) /\ (fresh => mark # NoMark)
  /\ Members(heard) \subseteq UrgentBytes \cup {NoMark}
  /\ \A b \in Members(heard) : b <= Len(text) /\ (fresh => b < mark)
  /\ \A j, k \in DOMAIN heard : j < k /\ NoMark \notin {heard[j], heard[k]} => heard[j] < heard[k]

\* Each urgent byte is done with before the next is sent.
TimelyInv == program = "oob" /\ timely =>
  /\ urgent # "again" /\ (fresh <=> urgent \in {"pending", "handled"})
  /\ urgent = "ignored" <=> pc["server"] = "accepted"
  /\ Members(Ahead) \cap UrgentBytes \subseteq {mark} /\ Members(Told) \cap UrgentBytes = {}
  /\ Members(heard) \subseteq UrgentBytes
  /\ \A b \in UrgentBytes : b <= Len(text) => b \in Members(heard) \/ (fresh /\ b = mark)
  /\ Through => ~fresh

PeekInv == program = "peek" =>
  /\ urgent = "ignored"
  /\ ~Through => Told = <<>>
  /\ pc["server"] = "read" => Len(Peeked) \in 1..Len(Ahead) /\ \A k \in 1..Len(Peeked) : Ahead[k] = Peeked[k]
  /\ Through => Told # <<>> /\ \A k \in 1..Len(Peeked) : k <= Len(Told) => Told[k] = Peeked[k]

UrgentInv == program \in UrgentPrograms =>
  /\ UrgentTypes /\ OrdinaryInv /\ HeardInv /\ TimelyInv /\ PeekInv

LEMMA MembersIn ==
  ASSUME NEW s \in Seq(Nat)
  PROVE  /\ \A k \in 1..Len(s) : s[k] \in Members(s) /\ s[k] \in Nat
         /\ \A b \in Members(s) : \E k \in 1..Len(s) : s[k] = b
         /\ DOMAIN s = 1..Len(s) /\ Len(s) \in Nat
BY DEF Members

LEMMA MembersJoined ==
  ASSUME NEW s \in Seq(Nat), NEW q \in Seq(Nat)
  PROVE  Members(s \o q) = Members(s) \cup Members(q)
<1> DEFINE w == s \o q
<1>1. Len(s) \in Nat /\ Len(q) \in Nat /\ DOMAIN s = 1..Len(s) /\ DOMAIN q = 1..Len(q)
  OBVIOUS
<1>2. /\ DOMAIN w = 1..(Len(s) + Len(q))
      /\ \A k \in 1..(Len(s) + Len(q)) : w[k] = IF k <= Len(s) THEN s[k] ELSE q[k - Len(s)]
  BY <1>1, ConcatProperties
<1> HIDE DEF w
<1>3. ASSUME NEW k \in 1..Len(s) PROVE s[k] \in Members(w)
  <2>1. k \in 1..(Len(s) + Len(q)) /\ w[k] = s[k]
    BY <1>1, <1>2
  <2> QED
    BY <1>2, <2>1 DEF Members
<1>4. ASSUME NEW k \in 1..Len(q) PROVE q[k] \in Members(w)
  <2>1. Len(s) + k \in 1..(Len(s) + Len(q)) /\ ~(Len(s) + k <= Len(s)) /\ (Len(s) + k) - Len(s) = k
    BY <1>1
  <2>2. w[Len(s) + k] = q[k]
    BY <1>2, <2>1
  <2> QED
    BY <1>2, <2>1, <2>2 DEF Members
<1>5. ASSUME NEW k \in 1..(Len(s) + Len(q)) PROVE w[k] \in Members(s) \cup Members(q)
  <2>1. CASE k <= Len(s)
    BY <1>1, <1>2, <2>1 DEF Members
  <2>2. CASE ~(k <= Len(s))
    <3>1. k - Len(s) \in 1..Len(q)
      BY <1>1, <2>2
    <3> QED
      BY <1>1, <1>2, <2>2, <3>1 DEF Members
  <2> QED
    BY <2>1, <2>2
<1>6. Members(w) = Members(s) \cup Members(q)
  BY <1>1, <1>2, <1>3, <1>4, <1>5 DEF Members
<1> QED
  BY <1>6 DEF w

LEMMA MembersCounted ==
  ASSUME NEW q \in Seq(Nat), NEW m \in Nat, \A k \in 1..Len(q) : q[k] = m + k
  PROVE  Members(q) = (m + 1)..(m + Len(q))
<1>1. Len(q) \in Nat /\ DOMAIN q = 1..Len(q)
  OBVIOUS
<1>2. ASSUME NEW b \in (m + 1)..(m + Len(q)) PROVE b \in Members(q)
  <2>1. b - m \in 1..Len(q) /\ q[b - m] = b
    BY <1>1
  <2> QED
    BY <1>1, <2>1 DEF Members
<1>3. ASSUME NEW k \in 1..Len(q) PROVE q[k] \in (m + 1)..(m + Len(q))
  BY <1>1
<1> QED
  BY <1>1, <1>2, <1>3 DEF Members

\* The first is left out.
LEMMA WithoutFirst ==
  ASSUME NEW t \in Seq(Nat), NEW s \in Seq(Nat), s # <<>>, Ordered(t, s)
  PROVE  /\ Tail(s) \in Seq(Nat) /\ Ordered(t, Tail(s))
         /\ Head(s) \in Members(s) /\ Members(s) = Members(Tail(s)) \cup {Head(s)}
         /\ Head(s) \notin Members(Tail(s))
<1>1. /\ Len(s) \in Nat /\ Len(s) >= 1 /\ Head(s) = s[1] /\ Tail(s) \in Seq(Nat)
      /\ Len(Tail(s)) = Len(s) - 1 /\ \A k \in 1..(Len(s) - 1) : Tail(s)[k] = s[k + 1]
      /\ DOMAIN s = 1..Len(s) /\ DOMAIN Tail(s) = 1..(Len(s) - 1) /\ DOMAIN t = 1..Len(t)
      /\ Len(t) \in Nat /\ (\A k \in 1..Len(s) : s[k] \in Nat) /\ (\A k \in 1..Len(t) : t[k] \in Nat)
  OBVIOUS
<1>2. Ordered(t, Tail(s))
  <2>1. Increasing(Tail(s))
    <3>1. ASSUME NEW j \in 1..(Len(s) - 1), NEW k \in 1..(Len(s) - 1), j < k PROVE Tail(s)[j] < Tail(s)[k]
      <4>1. j + 1 \in 1..Len(s) /\ k + 1 \in 1..Len(s) /\ j + 1 < k + 1
        BY <1>1, <3>1
      <4> QED
        BY <1>1, <4>1 DEF Ordered, Increasing
    <3> QED
      BY <1>1, <3>1 DEF Increasing
  <2>2. ASSUME NEW j \in 1..Len(t), NEW k \in 1..(Len(s) - 1) PROVE t[j] < Tail(s)[k]
    <3>1. k + 1 \in 1..Len(s)
      BY <1>1
    <3> QED
      BY <1>1, <3>1 DEF Ordered
  <2> QED
    BY <1>1, <2>1, <2>2 DEF Ordered
<1>3. ASSUME NEW b \in Members(s) PROVE b \in Members(Tail(s)) \cup {Head(s)}
  <2>1. PICK k \in 1..Len(s) : s[k] = b
    BY <1>1 DEF Members
  <2>2. CASE k = 1
    BY <1>1, <2>1, <2>2
  <2>3. CASE k # 1
    <3>1. k - 1 \in 1..(Len(s) - 1) /\ Tail(s)[k - 1] = b
      BY <1>1, <2>1, <2>3
    <3> QED
      BY <1>1, <3>1 DEF Members
  <2> QED
    BY <2>2, <2>3
<1>4. ASSUME NEW b \in Members(Tail(s)) PROVE b \in Members(s) /\ b # Head(s)
  <2>1. PICK k \in 1..(Len(s) - 1) : Tail(s)[k] = b
    BY <1>1 DEF Members
  <2>2. k + 1 \in 1..Len(s) /\ 1 \in 1..Len(s) /\ s[k + 1] = b /\ 1 < k + 1
    BY <1>1, <2>1
  <2>3. s[1] < s[k + 1]
    BY <1>1, <2>2 DEF Ordered, Increasing
  <2> QED
    BY <1>1, <2>2, <2>3, SMTT(30) DEF Members
<1>5. Head(s) \in Members(s)
  BY <1>1 DEF Members
<1> QED
  BY <1>1, <1>2, <1>3, <1>4, <1>5

\* The first n go from one to the other.
LEMMA FirstOnes ==
  ASSUME NEW t \in Seq(Nat), NEW s \in Seq(Nat), NEW n \in 1..Len(s), Ordered(t, s)
  PROVE  LET f == SubSeq(s, 1, n)
             r == SubSeq(s, n + 1, Len(s)) IN
         /\ f \in Seq(Nat) /\ r \in Seq(Nat) /\ t \o f \in Seq(Nat)
         /\ Ordered(t \o f, r)
         /\ Members(t \o f) = Members(t) \cup Members(f)
         /\ Members(s) = Members(f) \cup Members(r)
         /\ \A b \in Members(f) : \E k \in 1..n : s[k] = b
<1> DEFINE f == SubSeq(s, 1, n)
           r == SubSeq(s, n + 1, Len(s))
           g == t \o f
<1>1. /\ f \in Seq(Nat) /\ r \in Seq(Nat) /\ Len(f) = n /\ Len(r) = Len(s) - n
      /\ (\A k \in 1..n : f[k] = s[k]) /\ (\A k \in 1..(Len(s) - n) : r[k] = s[n + k])
  <2>1. Len(s) \in Nat /\ (\A k \in 1..Len(s) : s[k] \in Nat) /\ 1 \in Int /\ n \in Int /\ n + 1 \in Int
    BY MembersIn
  <2>2. f \in Seq(Nat) /\ r \in Seq(Nat) /\ Len(f) = n
    BY PieceFacts
  <2>3. \A k \in 1..n : f[k] = s[k]
    BY <2>1, SubSeqProperties
  <2>4. Len(r) = Len(s) - n
    BY <2>1, SubSeqProperties
  <2>5. \A k \in 1..(Len(s) - n) : r[k] = s[n + k]
    <3>1. \A k \in 1..(Len(s) - n) : r[k] = s[(n + 1) + k - 1]
      BY <2>1, <2>4, SubSeqProperties
    <3> QED
      BY <2>1, <3>1
  <2> QED
    BY <2>2, <2>3, <2>4, <2>5
<1> HIDE DEF f, r
<1>2. /\ Len(t) \in Nat /\ Len(s) \in Nat /\ n \in Nat /\ n >= 1 /\ n <= Len(s)
      /\ DOMAIN t = 1..Len(t) /\ DOMAIN s = 1..Len(s) /\ DOMAIN f = 1..n /\ DOMAIN r = 1..(Len(s) - n)
      /\ (\A k \in 1..Len(s) : s[k] \in Nat) /\ (\A k \in 1..Len(t) : t[k] \in Nat)
  BY SMTT(30), <1>1
<1>3. /\ g \in Seq(Nat) /\ Len(g) = Len(t) + n /\ DOMAIN g = 1..(Len(t) + n)
      /\ \A k \in 1..(Len(t) + n) : g[k] = IF k <= Len(t) THEN t[k] ELSE f[k - Len(t)]
  <2>1. /\ g \in Seq(Nat) /\ Len(g) = Len(t) + Len(f)
        /\ \A k \in 1..(Len(t) + Len(f)) : g[k] = IF k <= Len(t) THEN t[k] ELSE f[k - Len(t)]
    BY ZenonT(30), <1>1, ConcatProperties
  <2>2. DOMAIN g = 1..Len(g)
    BY <2>1
  <2> QED
    BY <1>1, <2>1, <2>2
<1> HIDE DEF g
<1>4. ASSUME NEW k \in 1..(Len(t) + n)
      PROVE  /\ k <= Len(t) => k \in 1..Len(t) /\ g[k] = t[k]
             /\ ~(k <= Len(t)) => k - Len(t) \in 1..n /\ g[k] = s[k - Len(t)]
  <2>1. ~(k <= Len(t)) => k - Len(t) \in 1..n
    BY <1>2
  <2>2. k <= Len(t) => k \in 1..Len(t) /\ g[k] = t[k]
    BY <1>2, <1>3
  <2>3. ~(k <= Len(t)) => g[k] = f[k - Len(t)]
    BY <1>3
  <2> QED
    BY <1>1, <2>1, <2>2, <2>3
<1>o. /\ \A j, k \in 1..Len(t) : j < k => t[j] < t[k]
      /\ \A j, k \in 1..Len(s) : j < k => s[j] < s[k]
      /\ \A j \in 1..Len(t) : \A k \in 1..Len(s) : t[j] < s[k]
  BY <1>2 DEF Ordered, Increasing
<1>5. Ordered(g, r)
  <2>1. Increasing(r)
    <3>1. ASSUME NEW j \in 1..(Len(s) - n), NEW k \in 1..(Len(s) - n), j < k PROVE r[j] < r[k]
      <4>1. n + j \in 1..Len(s) /\ n + k \in 1..Len(s) /\ n + j < n + k
        BY <1>2, <3>1
      <4>2. s[n + j] < s[n + k]
        BY <1>o, <4>1
      <4> QED
        BY <1>1, <4>2
    <3> QED
      BY <1>2, <3>1 DEF Increasing
  <2>2. ASSUME NEW j \in 1..(Len(t) + n), NEW k \in 1..(Len(t) + n), j < k PROVE g[j] < g[k]
    <3>1. CASE k <= Len(t)
      <4>1. j \in 1..Len(t) /\ k \in 1..Len(t) /\ g[j] = t[j] /\ g[k] = t[k]
        BY SMTT(30), <1>2, <1>4, <2>2, <3>1
      <4> QED
        BY <1>o, <2>2, <4>1
    <3>2. CASE ~(k <= Len(t)) /\ j <= Len(t)
      <4>1. j \in 1..Len(t) /\ g[j] = t[j] /\ k - Len(t) \in 1..n /\ g[k] = s[k - Len(t)]
        BY <1>4, <3>2
      <4>2. k - Len(t) \in 1..Len(s)
        BY <1>2, <4>1
      <4> QED
        BY <1>o, <4>1, <4>2
    <3>3. CASE ~(k <= Len(t)) /\ ~(j <= Len(t))
      <4>1. j - Len(t) \in 1..Len(s) /\ k - Len(t) \in 1..Len(s) /\ j - Len(t) < k - Len(t)
        BY <1>2, <1>4, <2>2, <3>3
      <4> QED
        BY <1>o, <1>4, <3>3, <4>1
    <3> QED
      BY <3>1, <3>2, <3>3
  <2>3. ASSUME NEW j \in 1..(Len(t) + n), NEW k \in 1..(Len(s) - n) PROVE g[j] < r[k]
    <3>1. n + k \in 1..Len(s) /\ r[k] = s[n + k]
      BY <1>1, <1>2
    <3>2. CASE j <= Len(t)
      BY <1>2, <1>4, <3>1, <3>2 DEF Ordered
    <3>3. CASE ~(j <= Len(t))
      <4>1. j - Len(t) \in 1..Len(s) /\ j - Len(t) < n + k
        BY <1>2, <1>4, <3>3
      <4> QED
        BY <1>2, <1>4, <3>1, <3>3, <4>1 DEF Ordered, Increasing
    <3> QED
      BY <3>2, <3>3
  <2> QED
    BY <1>2, <1>3, <2>1, <2>2, <2>3 DEF Ordered, Increasing
<1>6. Members(g) = Members(t) \cup Members(f)
  BY <1>1, MembersJoined DEF g
<1>7. Members(s) = Members(f) \cup Members(r)
  <2>1. ASSUME NEW k \in 1..Len(s) PROVE s[k] \in Members(f) \cup Members(r)
    <3>1. CASE k <= n
      <4>1. k \in 1..n /\ f[k] = s[k]
        BY <1>1, <1>2, <3>1
      <4> QED
        BY <1>2, <4>1 DEF Members
    <3>2. CASE ~(k <= n)
      <4>1. k - n \in 1..(Len(s) - n) /\ r[k - n] = s[k]
        <5>1. k - n \in 1..(Len(s) - n) /\ n + (k - n) = k
          BY <1>2, <3>2
        <5> QED
          BY <1>1, <5>1
      <4> QED
        BY <1>2, <4>1 DEF Members
    <3> QED
      BY <3>1, <3>2
  <2>2. ASSUME NEW k \in 1..n PROVE f[k] \in Members(s)
    <3>1. k \in 1..Len(s) /\ f[k] = s[k]
      BY <1>1, <1>2
    <3> QED
      BY <1>2, <3>1 DEF Members
  <2>3. ASSUME NEW k \in 1..(Len(s) - n) PROVE r[k] \in Members(s)
    <3>1. n + k \in 1..Len(s) /\ r[k] = s[n + k]
      BY <1>1, <1>2
    <3> QED
      BY <1>2, <3>1 DEF Members
  <2> QED
    BY <1>2, <2>1, <2>2, <2>3 DEF Members
<1>8. \A b \in Members(f) : \E k \in 1..n : s[k] = b
  BY <1>1, <1>2, SMTT(30) DEF Members
<1> QED
  BY <1>1, <1>3, <1>5, <1>6, <1>7, <1>8 DEF f, r, g

\* Newer ones come in at the end.
LEMMA NewerOnes ==
  ASSUME NEW t \in Seq(Nat), NEW s \in Seq(Nat), NEW q \in Seq(Nat), NEW m \in Nat,
         Ordered(t, s), Members(t) \cup Members(s) \subseteq 1..m, \A k \in 1..Len(q) : q[k] = m + k
  PROVE  Ordered(t, s \o q)
<1> DEFINE w == s \o q
<1>1. /\ Len(t) \in Nat /\ Len(s) \in Nat /\ Len(q) \in Nat
      /\ DOMAIN t = 1..Len(t) /\ DOMAIN s = 1..Len(s) /\ DOMAIN q = 1..Len(q)
      /\ \A k \in 1..Len(s) : s[k] \in Nat /\ s[k] <= m
      /\ \A k \in 1..Len(t) : t[k] \in Nat /\ t[k] <= m
  BY MembersIn
<1>2. /\ w \in Seq(Nat) /\ Len(w) = Len(s) + Len(q) /\ DOMAIN w = 1..(Len(s) + Len(q))
      /\ \A k \in 1..(Len(s) + Len(q)) : w[k] = IF k <= Len(s) THEN s[k] ELSE q[k - Len(s)]
  BY <1>1, ConcatProperties
<1> HIDE DEF w
<1>3. \A k \in 1..(Len(s) + Len(q)) :
         /\ k <= Len(s) => k \in 1..Len(s) /\ w[k] = s[k]
         /\ ~(k <= Len(s)) => k - Len(s) \in 1..Len(q) /\ w[k] = m + (k - Len(s))
  BY <1>1, <1>2
<1>o. \A j, k \in 1..Len(s) : j < k => s[j] < s[k]
  BY <1>1 DEF Ordered, Increasing
<1>4. ASSUME NEW j \in 1..(Len(s) + Len(q)), NEW k \in 1..(Len(s) + Len(q)), j < k PROVE w[j] < w[k]
  <2>1. CASE k <= Len(s)
    <3>1. j \in 1..Len(s) /\ k \in 1..Len(s) /\ w[j] = s[j] /\ w[k] = s[k]
      BY <1>1, <1>3, <1>4, <2>1
    <3> QED
      BY <1>o, <1>4, <3>1
  <2>2. CASE ~(k <= Len(s)) /\ j <= Len(s)
    BY <1>1, <1>3, <1>4, <2>2
  <2>3. CASE ~(k <= Len(s)) /\ ~(j <= Len(s))
    BY <1>1, <1>3, <1>4, <2>3
  <2> QED
    BY <2>1, <2>2, <2>3
<1>5. ASSUME NEW j \in 1..Len(t), NEW k \in 1..(Len(s) + Len(q)) PROVE t[j] < w[k]
  <2>1. CASE k <= Len(s)
    BY <1>1, <1>3, <2>1 DEF Ordered
  <2>2. CASE ~(k <= Len(s))
    BY <1>1, <1>3, <2>2
  <2> QED
    BY <2>1, <2>2
<1>6. Ordered(t, w)
  BY <1>1, <1>2, <1>4, <1>5 DEF Ordered, Increasing
<1> QED
  BY <1>6 DEF w

(***************************************************************************)
(* The bytes of each send.                                                 *)
(***************************************************************************)
LEMMA UrgentOwn ==
  ASSUME [Next]_vars, program' \in UrgentPrograms
  PROVE  program' = program /\ ((UrgentNext /\ NotUrgent) \/ UNCHANGED vars)
<1>1. program' = program
  BY OwnSteps
<1> QED
  BY <1>1 DEF Next, EchoNext, TransferNext, UrgentNext, DatagramNext, ThreadNext, ProcessNext,
     EchoPrograms, TransferPrograms, UrgentPrograms, DatagramPrograms, ThreadPrograms, Adders,
     ProcessPrograms, PipePrograms, ForkPrograms, Thanking, HalfClosing

LEMMA UrgentStart == ASSUME Init, program \in UrgentPrograms PROVE UrgentInit
BY DEF Init, EchoInit, TransferInit, DatagramInit, ThreadInit, ProcessInit,
   EchoPrograms, TransferPrograms, UrgentPrograms, DatagramPrograms, ThreadPrograms, Adders,
   ProcessPrograms, PipePrograms, ForkPrograms, Thanking, HalfClosing

LEMMA UrgentFacts ==
  ASSUME program \in UrgentPrograms
  PROVE  /\ UrgentBytes \subseteq Nat /\ NoMark = 0 /\ All \in Nat
         /\ \A b \in UrgentBytes : b >= 1 /\ b <= All
         /\ UrgentBytes # {} => program = "oob"
         /\ DOMAIN Sizes = IF program = "oob" THEN 1..4 ELSE {1}
BY UrgentAssumption DEF UrgentPrograms, UrgentBytes, NoMark, All, Sizes

LEMMA SegmentFacts ==
  ASSUME program \in UrgentPrograms, NEW k \in DOMAIN Sizes
  PROVE  /\ Starts[k] \in Nat /\ Segment(k) \in Seq(Nat) /\ Len(Segment(k)) \in Nat \ {0}
         /\ \A j \in 1..Len(Segment(k)) : Segment(k)[j] = Starts[k] + j
         /\ k = Len(Sizes) => Starts[k] + Len(Segment(k)) = All
         /\ UrgentBytes \cap (Starts[k] + 1)..(Starts[k] + Len(Segment(k)))
              = IF IsUrgent(k) THEN {Starts[k] + Len(Segment(k))} ELSE {}
<1>1. Unit \in Nat /\ Unit >= 1
  BY UrgentAssumption
<1>2. Sizes[k] \in Nat \ {0} /\ Starts[k] \in Nat
  BY <1>1, UrgentFacts DEF Sizes, Starts
<1>3. /\ Segment(k) \in Seq(Nat) /\ Len(Segment(k)) = Sizes[k]
      /\ \A j \in 1..Sizes[k] : Segment(k)[j] = Starts[k] + j
  <2>1. Segment(k) \in [1..Sizes[k] -> Nat]
    BY <1>2 DEF Segment
  <2> QED
    BY <1>2, <2>1, LenProperties DEF Segment
<1>4. CASE program = "oob"
  <2>1. k \in 1..4 /\ Len(Sizes) = 4 /\ UrgentBytes = {Unit + 1, 3 * Unit + 1} /\ All = 3 * Unit + 1
    BY <1>4, UrgentFacts DEF Sizes, UrgentBytes, All
  <2>2. /\ k = 1 => Starts[k] = 0 /\ Sizes[k] = Unit
        /\ k = 2 => Starts[k] = Unit /\ Sizes[k] = 1
        /\ k = 3 => Starts[k] = Unit + 1 /\ Sizes[k] = Unit
        /\ k = 4 => Starts[k] = 2 * Unit + 1 /\ Sizes[k] = Unit
    BY <1>4 DEF Sizes, Starts
  <2>3. CASE k = 1
    BY <1>1, <1>3, <2>1, <2>2, <2>3 DEF IsUrgent
  <2>4. CASE k = 2
    BY <1>1, <1>3, <2>1, <2>2, <2>4 DEF IsUrgent
  <2>5. CASE k = 3
    BY <1>1, <1>3, <2>1, <2>2, <2>5 DEF IsUrgent
  <2>6. CASE k = 4
    BY <1>1, <1>3, <2>1, <2>2, <2>6 DEF IsUrgent
  <2> QED
    BY SMTT(30), <2>1, <2>3, <2>4, <2>5, <2>6
<1>5. CASE program # "oob"
  <2>1. k = 1 /\ Len(Sizes) = 1 /\ UrgentBytes = {} /\ All = Unit /\ Starts[k] = 0 /\ Sizes[k] = Unit
    BY <1>5, UrgentFacts DEF Sizes, UrgentBytes, All, Starts
  <2> QED
    BY <1>1, <1>2, <1>3, <2>1 DEF IsUrgent
<1> QED
  BY <1>4, <1>5

LEMMA InitUrgent == Init => UrgentInv
<1> SUFFICES ASSUME Init, program \in UrgentPrograms PROVE UrgentInv
  BY DEF UrgentInv
<1>1. /\ UrgentInit /\ Sides = {"server", "client"} /\ <<>> \in Seq(Nat) /\ Len(<<>>) = 0
      /\ DOMAIN <<>> = {} /\ Members(<<>>) = {} /\ Ordered(<<>>, <<>>)
  BY UrgentStart DEF Sides, Members, Ordered, Increasing
<1>2. /\ Told = <<>> /\ Ahead = <<>> /\ Peeked = <<>> /\ text = <<>> /\ heard = <<>>
      /\ mark = NoMark /\ fresh = FALSE /\ urgent = "ignored" /\ fin = {} /\ reset = "no"
      /\ DOMAIN pc = Sides /\ DOMAIN stream = Sides /\ DOMAIN buf = Sides /\ DOMAIN printed = Sides
      /\ pc["client"] = "send" /\ pc["server"] = (IF program = "oob" THEN "accepted" ELSE "peek")
      /\ stream["client"] = <<>> /\ timely \in BOOLEAN
  BY <1>1 DEF UrgentInit, NoConnection, NoUrgentData, Told, Ahead, Peeked
<1>3. UrgentTypes
  BY <1>1, <1>2 DEF UrgentTypes
<1>4. OrdinaryInv
  BY <1>1, <1>2 DEF OrdinaryInv, Through
<1>5. HeardInv
  BY <1>1, <1>2 DEF HeardInv, NoMark
<1>6. TimelyInv
  BY <1>1, <1>2, UrgentFacts DEF TimelyInv, Through
<1>7. PeekInv
  BY <1>1, <1>2 DEF PeekInv, Through
<1> QED
  BY <1>3, <1>4, <1>5, <1>6, <1>7 DEF UrgentInv

(***************************************************************************)
(* Each step of the sender and of the receiver.                            *)
(***************************************************************************)
LEMMA SameUrgent ==
  ASSUME UrgentInv, program \in UrgentPrograms, Rigid
  PROVE  /\ UrgentTypes /\ OrdinaryInv /\ HeardInv /\ TimelyInv /\ PeekInv
         /\ program' = program /\ timely' = timely /\ program' \in UrgentPrograms
         /\ UrgentBytes' = UrgentBytes /\ All' = All
BY DEF UrgentInv, Rigid, UrgentBytes, All

\* What is left once the mark, should it come first, is left out.
LEMMA MarkLeftOut ==
  ASSUME UrgentTypes, OrdinaryInv, HeardInv, program \in UrgentPrograms
  PROVE  /\ Rest = Ordinary /\ Ordinary \in Seq(Nat) /\ Ordered(Told, Ordinary)
         /\ ~AtMark => Ordinary = Ahead
         /\ AtMark => /\ Ahead # <<>> /\ program = "oob" /\ mark \in UrgentBytes
                      /\ Members(Ahead) = Members(Ordinary) \cup {mark} /\ mark \notin Members(Ordinary)
<1>1. /\ Rest = Ordinary /\ (~AtMark => Ordinary = Ahead)
      /\ AtMark => Ahead # <<>> /\ Head(Ahead) = mark /\ Ordinary = Tail(Ahead)
  BY DEF Rest, Ordinary, AtMark, Ahead
<1>2. Told \in Seq(Nat) /\ Ahead \in Seq(Nat) /\ Ordered(Told, Ahead)
  BY DEF UrgentTypes, OrdinaryInv
<1>3. CASE ~AtMark
  BY <1>1, <1>2, <1>3
<1>4. CASE AtMark
  <2>1. /\ Tail(Ahead) \in Seq(Nat) /\ Ordered(Told, Tail(Ahead))
        /\ Head(Ahead) \in Members(Ahead) /\ Members(Ahead) = Members(Tail(Ahead)) \cup {Head(Ahead)}
        /\ Head(Ahead) \notin Members(Tail(Ahead))
    BY <1>1, <1>2, <1>4, WithoutFirst
  <2>2. mark \in UrgentBytes
    BY <1>1, <1>4, <2>1 DEF OrdinaryInv, HeardInv, NoMark
  <2> QED
    BY <1>1, <1>4, <2>1, <2>2, UrgentFacts
<1> QED
  BY <1>3, <1>4

LEMMA SendsSegment ==
  ASSUME UrgentInv, program \in UrgentPrograms, Rigid, NEW k \in 1..4, SendSegment(k)
  PROVE  UrgentInv'
<1> DEFINE q == Segment(k)
           m == Len(text)
           old == IF IsUrgent(k) THEN Rest ELSE Ahead
           w == old \o q
<1>0. /\ UrgentTypes /\ OrdinaryInv /\ HeardInv /\ TimelyInv /\ PeekInv
      /\ program' = program /\ timely' = timely
      /\ UrgentBytes' = UrgentBytes /\ All' = All
  BY SameUrgent
<1>1. /\ k \in DOMAIN Sizes /\ pc["client"] = "send" /\ m = Starts[k] /\ m \in Nat /\ text \in Seq(Nat)
      /\ Told \in Seq(Nat) /\ Ahead \in Seq(Nat)
  BY <1>0 DEF SendSegment, UrgentTypes
<1>2. /\ q \in Seq(Nat) /\ Len(q) \in Nat /\ Len(q) >= 1 /\ \A j \in 1..Len(q) : q[j] = m + j
  BY <1>1, SegmentFacts
<1>3. /\ k = Len(Sizes) => m + Len(q) = All
      /\ UrgentBytes \cap (m + 1)..(m + Len(q)) = IF IsUrgent(k) THEN {m + Len(q)} ELSE {}
  BY <1>1, SegmentFacts
<1>4. program = "peek" => ~IsUrgent(k)
  BY <1>1, UrgentFacts DEF IsUrgent
<1>5. /\ old \in Seq(Nat) /\ Ordered(Told, old) /\ Members(old) \subseteq Members(Ahead)
      /\ Members(Ahead) \subseteq Members(old) \cup UrgentBytes
      /\ (Ahead = <<>> \/ program = "peek") => old = Ahead
  BY <1>0, <1>1, <1>4, MarkLeftOut DEF OrdinaryInv, AtMark, Ahead
<1>6. /\ w \in Seq(Nat) /\ Ordered(Told, w)
      /\ Members(w) = Members(old) \cup Members(q) /\ Members(q) = (m + 1)..(m + Len(q))
      /\ Len(w) = Len(old) + Len(q) /\ \A j \in 1..Len(old) : w[j] = old[j]
  <2>1. Members(Told) \cup Members(old) \subseteq 1..m
    BY <1>0, <1>5 DEF OrdinaryInv
  <2> HIDE DEF q, m, old, w
  <2>2. /\ Told \in Seq(Nat) /\ old \in Seq(Nat) /\ Ordered(Told, old) /\ m \in Nat /\ q \in Seq(Nat)
        /\ \A j \in 1..Len(q) : q[j] = m + j
    BY <1>1, <1>2, <1>5
  <2>a. old \o q \in Seq(Nat)
    BY <2>2
  <2>b. Ordered(Told, old \o q)
    BY <2>1, <2>2, NewerOnes
  <2>c. Members(old \o q) = Members(old) \cup Members(q)
    BY <2>2, MembersJoined
  <2>3. Members(q) = (m + 1)..(m + Len(q))
    BY <2>2, MembersCounted
  <2>4. /\ Len(old \o q) = Len(old) + Len(q)
        /\ \A j \in 1..Len(old) : (old \o q)[j] = old[j]
    BY <2>2
  <2> QED
    BY <2>a, <2>b, <2>c, <2>3, <2>4 DEF w
<1>7. /\ text' = text \o q /\ text' \in Seq(Nat) /\ Len(text') = m + Len(q)
      /\ 1..Len(text') = 1..m \cup (m + 1)..(m + Len(q))
  <2>1. text' = text \o q
    BY DEF SendSegment
  <2>2. text' \in Seq(Nat) /\ Len(text') = m + Len(q)
    BY <1>1, <1>2, <2>1, ConcatProperties
  <2>3. 1..(m + Len(q)) = 1..m \cup (m + 1)..(m + Len(q))
    BY <1>1, <1>2
  <2> QED
    BY <2>1, <2>2, <2>3
<1>8. /\ stream' = [stream EXCEPT !["server"] = w]
      /\ IsUrgent(k) => /\ mark' = q[Len(q)] /\ fresh' = TRUE
                        /\ urgent' = CASE urgent = "ignored" -> "ignored"
                                       [] urgent \in {"handled", "again"} -> "again"
                                       [] OTHER -> "pending"
      /\ ~IsUrgent(k) => mark' = mark /\ fresh' = fresh /\ urgent' = urgent
  BY DEF SendSegment, Marks, Ahead
<1>9. /\ Ahead' = w /\ stream'["client"] = <<>> /\ DOMAIN stream' = Sides
  BY <1>0, <1>8 DEF UrgentTypes, Ahead, Sides
<1>10. /\ Told' = Told /\ Peeked' = Peeked /\ heard' = heard /\ fin' = fin /\ reset' = reset
       /\ buf' = buf /\ printed' = printed
       /\ pc' = [pc EXCEPT !["client"] = IF k = Len(Sizes) THEN "close" ELSE @]
  BY DEF SendSegment, Told, Peeked
<1>11. /\ DOMAIN pc' = Sides /\ pc'["server"] = pc["server"] /\ Through' = Through
       /\ pc'["client"] = IF k = Len(Sizes) THEN "close" ELSE "send"
  BY <1>0, <1>1, <1>10 DEF UrgentTypes, Sides, Through
<1>12. IsUrgent(k) => mark' = m + Len(q) /\ mark' \in UrgentBytes /\ mark' # NoMark
  <2>1. q[Len(q)] = m + Len(q)
    BY <1>2
  <2> QED
    BY <1>1, <1>2, <1>3, <1>8, <2>1 DEF NoMark
<1> HIDE DEF q, m, old, w
<1>13. UrgentTypes'
  <2>1. urgent' \in {"ignored", "no", "pending", "handled", "again"} /\ fresh' \in BOOLEAN
    BY <1>0, <1>8 DEF UrgentTypes
  <2> QED
    BY <1>0, <1>6, <1>7, <1>9, <1>10, <1>11, <2>1 DEF UrgentTypes
<1>14. OrdinaryInv'
  <2>1. Ordered(Told', Ahead')
    BY <1>6, <1>9, <1>10
  <2>2. Members(Told') \cup Members(Ahead') \subseteq 1..Len(text')
    BY <1>0, <1>5, <1>6, <1>7, <1>9, <1>10 DEF OrdinaryInv, m
  <2>3. pc'["client"] # "send" => Len(text') = All
    BY <1>3, <1>7, <1>11
  <2>4. "client" \notin fin' /\ ~(program = "oob" /\ Through')
    BY <1>0, <1>1, <1>10, <1>11 DEF OrdinaryInv
  <2>5. program = "oob" => 1..Len(text') \ UrgentBytes \subseteq Members(Told') \cup Members(Ahead')
    BY <1>0, <1>5, <1>6, <1>7, <1>9, <1>10 DEF OrdinaryInv, m
  <2> QED
    BY <1>0, <2>1, <2>2, <2>3, <2>4, <2>5 DEF OrdinaryInv
<1>15. HeardInv'
  <2>1. mark' \in UrgentBytes \cup {NoMark} /\ mark' <= Len(text') /\ (fresh' => mark' # NoMark)
    BY <1>0, <1>1, <1>2, <1>7, <1>8, <1>12, UrgentFacts, SMTT(30) DEF HeardInv, m
  <2>2. ASSUME NEW b \in Members(heard) PROVE b <= Len(text') /\ (fresh' => b < mark')
    <3>1. b \in Nat /\ b <= m /\ (fresh => b < mark)
      BY <1>0, UrgentFacts DEF HeardInv, m
    <3> QED
      BY <1>1, <1>2, <1>7, <1>8, <1>12, <3>1
  <2> QED
    BY <1>0, <1>10, <2>1, <2>2 DEF HeardInv
<1>16. TimelyInv'
  <2> SUFFICES ASSUME program = "oob", timely PROVE TimelyInv'
    BY <1>0 DEF TimelyInv
  <2>a. ASSUME k = 1 PROVE Ahead = <<>> /\ urgent \in {"ignored", "no"} /\ ~fresh
    <3>1. m = 0
      BY <1>1, <2>a DEF Starts
    <3>2. Members(Ahead) = {}
      BY <1>0, <3>1 DEF OrdinaryInv, m
    <3>3. Ahead = <<>>
      BY SMTT(30), <1>1, <3>2, MembersIn
    <3>4. ~fresh
      BY <1>0, <3>1, UrgentFacts DEF HeardInv, m
    <3>5. urgent \in {"ignored", "no"}
      BY <1>0, <3>4 DEF TimelyInv, UrgentTypes
    <3> QED
      BY <3>3, <3>4, <3>5
  <2>b. ASSUME k # 1 PROVE Ahead = <<>> /\ urgent = "no" /\ ~fresh
    <3>1. Unhurried(k) /\ k > 1
      BY <2>b DEF SendSegment
    <3>2. pc["server"] = "recv" /\ Ahead = <<>> /\ urgent \in {"ignored", "no"}
      BY <3>1 DEF Unhurried, Rested, Ahead
    <3> QED
      BY <1>0, <3>2 DEF TimelyInv
  <2>1. Ahead = <<>> /\ urgent \in {"ignored", "no"} /\ ~fresh /\ (IsUrgent(k) => urgent = "no")
    BY <2>a, <2>b DEF IsUrgent
  <2>2. Members(w) = Members(q) /\ ~Through'
    <3>1. old = Ahead /\ Members(old) = {}
      BY <1>5, <2>1 DEF Members
    <3>2. ~Through
      BY <1>0, <1>1 DEF OrdinaryInv
    <3> QED
      BY <1>6, <1>11, <3>1, <3>2
  <2>3. ASSUME NEW b \in UrgentBytes, b <= m PROVE b \in Members(heard)
    BY <1>0, <2>1, <2>3 DEF TimelyInv, m
  <2>4. UrgentBytes \subseteq Nat /\ \A b \in UrgentBytes : b <= m + Len(q) => b <= m \/ b \in (m + 1)..(m + Len(q))
    BY SMTT(30), <1>1, <1>2, UrgentFacts
  <2>5. CASE IsUrgent(k)
    <3>1. mark' = m + Len(q) /\ fresh' = TRUE /\ urgent' = "pending"
      BY <1>8, <1>12, <2>1, <2>5
    <3> QED
      BY <1>0, <1>3, <1>6, <1>7, <1>9, <1>10, <1>11, <2>1, <2>2, <2>3, <2>4, <2>5, <3>1 DEF TimelyInv
  <2>6. CASE ~IsUrgent(k)
    <3>1. mark' = mark /\ fresh' = FALSE /\ urgent' = urgent
      BY <1>0, <1>8, <2>1, <2>6 DEF UrgentTypes
    <3> QED
      BY <1>0, <1>3, <1>6, <1>7, <1>9, <1>10, <1>11, <2>1, <2>2, <2>3, <2>4, <2>6, <3>1 DEF TimelyInv
  <2> QED
    BY <2>5, <2>6
<1>17. PeekInv'
  <2> SUFFICES ASSUME program = "peek" PROVE PeekInv'
    BY <1>0 DEF PeekInv
  <2>1. old = Ahead /\ urgent' = "ignored"
    BY <1>0, <1>4, <1>5, <1>8 DEF PeekInv
  <2>2. ASSUME pc["server"] = "read" PROVE Len(Peeked) \in 1..Len(w) /\ \A j \in 1..Len(Peeked) : w[j] = Peeked[j]
    BY <1>0, <1>1, <1>2, <1>6, <2>1, <2>2 DEF PeekInv
  <2> QED
    BY <1>0, <1>9, <1>10, <1>11, <2>1, <2>2 DEF PeekInv
<1> QED
  BY <1>13, <1>14, <1>15, <1>16, <1>17 DEF UrgentInv

LEMMA ReceivesPiece ==
  ASSUME UrgentInv, program \in UrgentPrograms, Rigid, Receives
  PROVE  UrgentInv'
<1>0. /\ UrgentTypes /\ OrdinaryInv /\ HeardInv /\ TimelyInv /\ PeekInv
      /\ program' = program /\ timely' = timely
      /\ UrgentBytes' = UrgentBytes /\ All' = All
  BY SameUrgent
<1>1. PICK n \in 1..Len(Ordinary) :
        /\ \A k \in 1..n : Ordinary[k] # mark
        /\ printed' = [printed EXCEPT !["server"] = @ \o SubSeq(Ordinary, 1, n)]
        /\ stream' = [stream EXCEPT !["server"] = SubSeq(Ordinary, n + 1, Len(Ordinary))]
  BY DEF Receives, Prints
<1> DEFINE f == SubSeq(Ordinary, 1, n)
           r == SubSeq(Ordinary, n + 1, Len(Ordinary))
<1>2. /\ Ordinary \in Seq(Nat) /\ Told \in Seq(Nat) /\ Ordered(Told, Ordinary)
      /\ ~AtMark => Ordinary = Ahead
      /\ AtMark => /\ Ahead # <<>> /\ program = "oob" /\ mark \in UrgentBytes
                   /\ Members(Ahead) = Members(Ordinary) \cup {mark} /\ mark \notin Members(Ordinary)
  BY <1>0, MarkLeftOut DEF UrgentTypes
<1>3. /\ f \in Seq(Nat) /\ r \in Seq(Nat) /\ Told \o f \in Seq(Nat)
      /\ Ordered(Told \o f, r)
      /\ Members(Told \o f) = Members(Told) \cup Members(f)
      /\ Members(Ordinary) = Members(f) \cup Members(r)
      /\ \A b \in Members(f) : \E k \in 1..n : Ordinary[k] = b
  BY <1>2, FirstOnes
<1> HIDE DEF f, r
<1>4. /\ Told' = Told \o f /\ Ahead' = r /\ stream'["client"] = <<>>
      /\ DOMAIN stream' = Sides /\ DOMAIN printed' = Sides
  BY <1>0, <1>1 DEF UrgentTypes, Sides, Told, Ahead, f, r
<1>5. /\ pc' = pc /\ fin' = fin /\ reset' = reset /\ buf' = buf /\ text' = text
      /\ urgent' = urgent /\ heard' = heard /\ Through' = Through /\ Peeked' = Peeked
      /\ pc["server"] = "recv" /\ urgent \in {"ignored", "no", "pending"} /\ (AtMark => urgent # "pending")
      /\ mark' = (IF AtMark THEN NoMark ELSE mark) /\ fresh' = (fresh /\ ~AtMark)
  BY DEF Receives, InMain, PassesMark, Through, Peeked
<1>6. program = "oob" /\ ~Through /\ mark \notin Members(f) /\ fresh' \in BOOLEAN
  BY <1>0, <1>1, <1>3, <1>5 DEF UrgentTypes, UrgentPrograms, Through
<1>7. UrgentTypes'
  BY <1>0, <1>3, <1>4, <1>5, <1>6 DEF UrgentTypes
<1>8. OrdinaryInv'
  <2>1. Ordered(Told', Ahead')
    BY <1>3, <1>4
  <2>2. /\ Members(Told') \cup Members(Ahead') \subseteq Members(Told) \cup Members(Ahead)
        /\ Members(Told) \cup Members(Ahead) \subseteq Members(Told') \cup Members(Ahead') \cup UrgentBytes
    BY <1>2, <1>3, <1>4
  <2>3. Members(Told') \cup Members(Ahead') \subseteq 1..Len(text')
    BY <1>0, <1>5, <2>2 DEF OrdinaryInv
  <2>4. 1..Len(text') \ UrgentBytes' \subseteq Members(Told') \cup Members(Ahead')
    BY <1>0, <1>5, <1>6, <2>2 DEF OrdinaryInv
  <2> QED
    BY <1>0, <1>5, <1>6, <2>1, <2>3, <2>4 DEF OrdinaryInv
<1>9. HeardInv'
  <2>1. mark' \in UrgentBytes \cup {NoMark} /\ (fresh' => mark' # NoMark /\ mark' = mark /\ fresh)
    BY <1>0, <1>5 DEF HeardInv
  <2>2. mark' <= Len(text')
    <3>1. Len(text) \in Nat /\ mark <= Len(text)
      BY <1>0 DEF UrgentTypes, HeardInv
    <3> QED
      BY <1>5, <3>1 DEF NoMark
  <2> QED
    BY <1>0, <1>5, <2>1, <2>2 DEF HeardInv
<1>10. TimelyInv'
  <2> SUFFICES ASSUME timely PROVE TimelyInv'
    BY <1>0 DEF TimelyInv
  <2>1. /\ Members(Ahead) \cap UrgentBytes \subseteq {mark} /\ Members(Told) \cap UrgentBytes = {}
        /\ (fresh <=> urgent = "pending") /\ urgent # "ignored"
    BY <1>0, <1>5, <1>6 DEF TimelyInv
  <2>2. fresh' = fresh /\ (fresh => mark' = mark)
    BY <1>0, <1>5, <2>1 DEF UrgentTypes
  <2>3. Members(Told') \cap UrgentBytes = {} /\ Members(Ahead') \cap UrgentBytes \subseteq {mark'}
    BY <1>2, <1>3, <1>4, <1>5, <1>6, <2>1
  <2> QED
    BY <1>0, <1>5, <1>6, <2>1, <2>2, <2>3 DEF TimelyInv
<1>11. PeekInv'
  BY <1>0, <1>6 DEF PeekInv
<1> QED
  BY <1>7, <1>8, <1>9, <1>10, <1>11 DEF UrgentInv

LEMMA ReceivesMark ==
  ASSUME UrgentInv, program \in UrgentPrograms, Rigid, ReceivesOnlyMark
  PROVE  UrgentInv'
<1>0. /\ UrgentTypes /\ OrdinaryInv /\ HeardInv /\ TimelyInv /\ PeekInv
      /\ program' = program /\ timely' = timely
      /\ UrgentBytes' = UrgentBytes /\ All' = All
  BY SameUrgent
<1>1. /\ AtMark /\ Ordinary = <<>> /\ mark' = NoMark /\ fresh' = FALSE /\ urgent # "pending"
      /\ stream' = [stream EXCEPT !["server"] = <<>>]
      /\ pc' = pc /\ fin' = fin /\ reset' = reset /\ buf' = buf /\ text' = text /\ printed' = printed
      /\ urgent' = urgent /\ heard' = heard /\ Through' = Through /\ Peeked' = Peeked /\ Told' = Told
      /\ pc["server"] = "recv" /\ urgent \in {"ignored", "no", "pending"}
  BY DEF ReceivesOnlyMark, InMain, PassesMark, Through, Peeked, Told
<1>2. /\ Ordered(Told, <<>>) /\ <<>> \in Seq(Nat) /\ program = "oob" /\ mark \in UrgentBytes
      /\ Members(<<>>) = {} /\ Members(Ahead) = {mark}
  <2>1. Members(<<>>) = {}
    BY DEF Members
  <2> QED
    BY <1>0, <1>1, <2>1, MarkLeftOut
<1>3. Ahead' = <<>> /\ stream'["client"] = <<>> /\ DOMAIN stream' = Sides /\ ~Through
  BY <1>0, <1>1 DEF UrgentTypes, Sides, Ahead, Through
<1>4. UrgentTypes'
  BY <1>0, <1>1, <1>2, <1>3 DEF UrgentTypes
<1>5. OrdinaryInv'
  <2>1. 1..Len(text) \ UrgentBytes \subseteq Members(Told)
    BY <1>0, <1>2 DEF OrdinaryInv
  <2> QED
    BY <1>0, <1>1, <1>2, <1>3, <2>1 DEF OrdinaryInv
<1>6. HeardInv'
  <2>1. Len(text) \in Nat
    BY <1>0 DEF UrgentTypes
  <2> QED
    BY <1>0, <1>1, <2>1 DEF HeardInv, NoMark
<1>7. TimelyInv'
  <2> SUFFICES ASSUME timely PROVE TimelyInv'
    BY <1>0 DEF TimelyInv
  <2> QED
    BY <1>0, <1>1, <1>2, <1>3 DEF TimelyInv
<1>8. PeekInv'
  BY <1>0, <1>2 DEF PeekInv
<1> QED
  BY <1>4, <1>5, <1>6, <1>7, <1>8 DEF UrgentInv

\* The handler hears one more, which is newer than all before.
LEMMA HandlerHears ==
  ASSUME UrgentInv, program \in UrgentPrograms, Rigid, HandlerReads
  PROVE  UrgentInv'
<1> DEFINE x == IF fresh THEN mark ELSE NoMark
           m == Len(heard)
<1>0. /\ UrgentTypes /\ OrdinaryInv /\ HeardInv /\ TimelyInv /\ PeekInv
      /\ program' = program /\ timely' = timely
      /\ UrgentBytes' = UrgentBytes /\ All' = All
  BY SameUrgent
<1>1. /\ urgent \in {"handled", "again"} /\ heard' = Append(heard, x) /\ fresh' = FALSE
      /\ urgent' = (IF urgent = "again" THEN "pending" ELSE "no")
      /\ pc' = pc /\ fin' = fin /\ reset' = reset /\ buf' = buf /\ text' = text /\ printed' = printed
      /\ stream' = stream /\ mark' = mark
      /\ Through' = Through /\ Peeked' = Peeked /\ Told' = Told /\ Ahead' = Ahead
  BY DEF HandlerReads, netVars, Through, Peeked, Told, Ahead
<1>2. /\ heard \in Seq(Nat) /\ m \in Nat /\ x \in Nat /\ x \in UrgentBytes \cup {NoMark} /\ x <= Len(text)
      /\ Len(text) \in Nat /\ DOMAIN heard = 1..m
  BY <1>0, UrgentFacts DEF UrgentTypes, HeardInv
<1> HIDE DEF x
<1>3. /\ heard' \in Seq(Nat) /\ DOMAIN heard' = 1..(m + 1) /\ heard'[m + 1] = x
      /\ \A k \in 1..m : heard'[k] = heard[k]
  BY <1>1, <1>2
<1> HIDE DEF m
<1>4. Members(heard') = Members(heard) \cup {x}
  <2>1. ASSUME NEW k \in 1..(m + 1) PROVE heard'[k] \in Members(heard) \cup {x}
    BY <1>2, <1>3, SMTT(30) DEF Members
  <2>2. ASSUME NEW k \in 1..m PROVE heard[k] \in Members(heard')
    <3>1. k \in 1..(m + 1) /\ heard'[k] = heard[k]
      BY <1>2, <1>3
    <3> QED
      BY <1>3, <3>1 DEF Members
  <2>3. x \in Members(heard')
    <3>1. m + 1 \in 1..(m + 1)
      BY <1>2
    <3> QED
      BY <1>3, <3>1 DEF Members
  <2> QED
    BY <1>2, <1>3, <2>1, <2>2, <2>3 DEF Members
<1>5. UrgentTypes'
  BY <1>0, <1>1, <1>3 DEF UrgentTypes
<1>6. OrdinaryInv'
  BY <1>0, <1>1 DEF OrdinaryInv
<1>7. HeardInv'
  <2>1. ASSUME NEW j \in 1..(m + 1), NEW k \in 1..(m + 1), j < k, NoMark \notin {heard'[j], heard'[k]}
        PROVE  heard'[j] < heard'[k]
    <3>1. j \in 1..m /\ heard'[j] = heard[j] /\ heard[j] \in Members(heard)
      BY <1>2, <1>3, <2>1, SMTT(30) DEF Members
    <3>2. CASE k = m + 1
      <4>1. heard'[k] = x /\ fresh /\ x = mark
        BY <1>3, <2>1, <3>2 DEF x
      <4> QED
        BY <1>0, <3>1, <4>1 DEF HeardInv
    <3>3. CASE k # m + 1
      <4>1. k \in 1..m /\ heard'[k] = heard[k]
        BY <1>2, <1>3, <3>3
      <4> QED
        BY <1>0, <1>2, <2>1, <3>1, <4>1 DEF HeardInv
    <3> QED
      BY <3>2, <3>3
  <2> QED
    BY <1>0, <1>1, <1>2, <1>3, <1>4, <2>1 DEF HeardInv
<1>8. TimelyInv'
  <2> SUFFICES ASSUME program = "oob", timely PROVE TimelyInv'
    BY <1>0 DEF TimelyInv
  <2>1. urgent = "handled" /\ fresh /\ x = mark /\ urgent' = "no" /\ mark \in UrgentBytes
    BY <1>0, <1>1 DEF TimelyInv, HeardInv, x
  <2> QED
    BY <1>0, <1>1, <1>4, <2>1 DEF TimelyInv
<1>9. PeekInv'
  BY <1>0, <1>1 DEF PeekInv
<1> QED
  BY <1>5, <1>6, <1>7, <1>8, <1>9 DEF UrgentInv

\* Steps that move no byte and are about no mark.
LEMMA RegistersOrEnters ==
  ASSUME UrgentInv, program \in UrgentPrograms, Rigid, Registers \/ HandlerEnters \/ ReceivesEof
  PROVE  UrgentInv'
<1>0. /\ UrgentTypes /\ OrdinaryInv /\ HeardInv /\ TimelyInv /\ PeekInv
      /\ program' = program /\ timely' = timely
      /\ UrgentBytes' = UrgentBytes /\ All' = All
  BY SameUrgent
<1>1. /\ fin' = fin /\ reset' = reset /\ buf' = buf /\ text' = text /\ printed' = printed
      /\ stream' = stream /\ mark' = mark /\ fresh' = fresh /\ heard' = heard
      /\ Peeked' = Peeked /\ Told' = Told /\ Ahead' = Ahead
  BY DEF Registers, HandlerEnters, ReceivesEof, netVars, urgentVars, Peeked, Told, Ahead
<1>2. HeardInv'
  BY <1>0, <1>1 DEF HeardInv
<1>3. CASE Registers
  <2>1. pc["server"] = "accepted" /\ pc' = [pc EXCEPT !["server"] = "recv"] /\ urgent' = "no"
    BY <1>3 DEF Registers, Register, Moves
  <2>2. /\ DOMAIN pc' = Sides /\ pc'["client"] = pc["client"] /\ pc'["server"] = "recv"
        /\ program = "oob" /\ ~Through /\ ~Through'
    BY <1>0, <2>1 DEF UrgentTypes, Sides, UrgentPrograms, Through
  <2>3. UrgentTypes'
    BY <1>0, <1>1, <2>1, <2>2 DEF UrgentTypes
  <2>4. OrdinaryInv'
    BY <1>0, <1>1, <2>2 DEF OrdinaryInv
  <2>5. TimelyInv'
    <3> SUFFICES ASSUME timely PROVE TimelyInv'
      BY <1>0 DEF TimelyInv
    <3>1. urgent = "ignored" /\ ~fresh
      BY <1>0, <2>1, <2>2 DEF TimelyInv
    <3> QED
      BY <1>0, <1>1, <2>1, <2>2, <3>1 DEF TimelyInv
  <2>6. PeekInv'
    BY <1>0, <2>2 DEF PeekInv
  <2> QED
    BY <1>2, <2>3, <2>4, <2>5, <2>6 DEF UrgentInv
<1>4. CASE HandlerEnters
  <2>1. urgent = "pending" /\ urgent' = "handled" /\ pc' = pc /\ Through' = Through
    BY <1>4 DEF HandlerEnters, Through
  <2>2. UrgentTypes'
    BY <1>0, <1>1, <2>1 DEF UrgentTypes
  <2>3. OrdinaryInv'
    BY <1>0, <1>1, <2>1 DEF OrdinaryInv
  <2>4. TimelyInv'
    BY <1>0, <1>1, <2>1 DEF TimelyInv
  <2>5. PeekInv'
    BY <1>0, <1>1, <2>1 DEF PeekInv
  <2> QED
    BY <1>2, <2>2, <2>3, <2>4, <2>5 DEF UrgentInv
<1>5. CASE ReceivesEof
  <2>1. /\ pc["server"] = "recv" /\ urgent \in {"ignored", "no"} /\ urgent' = urgent
        /\ pc' = [pc EXCEPT !["server"] = "close"] /\ Ahead = <<>>
        /\ "client" \in fin \/ reset = "told"
    BY <1>5 DEF ReceivesEof, InMain, AtEof, Peer, urgentVars, Ahead
  <2>2. /\ DOMAIN pc' = Sides /\ pc'["client"] = pc["client"] /\ pc'["server"] = "close"
        /\ program = "oob" /\ ~Through /\ Through' /\ pc["client"] = "end"
    BY <1>0, <2>1 DEF UrgentTypes, OrdinaryInv, Sides, UrgentPrograms, Through
  <2>3. UrgentTypes'
    BY <1>0, <1>1, <2>1, <2>2 DEF UrgentTypes
  <2>4. OrdinaryInv'
    BY <1>0, <1>1, <2>1, <2>2 DEF OrdinaryInv
  <2>5. TimelyInv'
    <3> SUFFICES ASSUME timely PROVE TimelyInv'
      BY <1>0 DEF TimelyInv
    <3>1. ~fresh /\ urgent # "ignored"
      BY <1>0, <2>1, <2>2 DEF TimelyInv
    <3> QED
      BY <1>0, <1>1, <2>1, <2>2, <3>1 DEF TimelyInv
  <2>6. PeekInv'
    BY <1>0, <2>2 DEF PeekInv
  <2> QED
    BY <1>2, <2>3, <2>4, <2>5, <2>6 DEF UrgentInv
<1> QED
  BY <1>3, <1>4, <1>5

LEMMA UrgentCloses ==
  ASSUME UrgentInv, program \in UrgentPrograms, Rigid, SenderCloses \/ ReceiverCloses
  PROVE  UrgentInv'
<1>0. /\ UrgentTypes /\ OrdinaryInv /\ HeardInv /\ TimelyInv /\ PeekInv
      /\ program' = program /\ timely' = timely
      /\ UrgentBytes' = UrgentBytes /\ All' = All
  BY SameUrgent
<1>1. /\ buf' = buf /\ text' = text /\ printed' = printed
      /\ mark' = mark /\ fresh' = fresh /\ urgent' = urgent /\ heard' = heard
      /\ Peeked' = Peeked /\ Told' = Told
  BY DEF SenderCloses, ReceiverCloses, urgentVars, Peeked, Told
<1>2. HeardInv'
  BY <1>0, <1>1 DEF HeardInv
<1>3. CASE SenderCloses
  <2>1. /\ pc["client"] = "close" /\ pc' = [pc EXCEPT !["client"] = "end"]
        /\ stream' = [stream EXCEPT !["client"] = <<>>] /\ stream["client"] = <<>>
        /\ fin' = fin \cup {"client"} /\ reset' = reset
    BY <1>0, <1>3 DEF SenderCloses, Moves, Closes, UrgentTypes
  <2>2. /\ DOMAIN pc' = Sides /\ pc'["client"] = "end" /\ pc'["server"] = pc["server"]
        /\ DOMAIN stream' = Sides /\ Ahead' = Ahead /\ stream'["client"] = <<>> /\ Through' = Through
    BY <1>0, <2>1 DEF UrgentTypes, Sides, Ahead, Through
  <2>3. UrgentTypes'
    BY <1>0, <1>1, <2>1, <2>2 DEF UrgentTypes
  <2>4. OrdinaryInv'
    BY <1>0, <1>1, <2>1, <2>2 DEF OrdinaryInv
  <2>5. TimelyInv'
    BY <1>0, <1>1, <2>2 DEF TimelyInv
  <2>6. PeekInv'
    BY <1>0, <1>1, <2>2 DEF PeekInv
  <2> QED
    BY <1>2, <2>3, <2>4, <2>5, <2>6 DEF UrgentInv
<1>4. CASE ReceiverCloses
  <2>1. /\ pc["server"] = "close" /\ pc' = [pc EXCEPT !["server"] = "end"]
        /\ stream' = [stream EXCEPT !["server"] = <<>>]
        /\ fin' \in {fin, fin \cup {"server"}} /\ reset' = reset
    BY <1>4 DEF ReceiverCloses, Moves, Closes
  <2>2. /\ DOMAIN pc' = Sides /\ pc'["client"] = pc["client"] /\ pc'["server"] = "end"
        /\ DOMAIN stream' = Sides /\ Ahead' = <<>> /\ stream'["client"] = <<>> /\ Through /\ Through'
        /\ ("client" \in fin' => "client" \in fin)
    BY <1>0, <2>1 DEF UrgentTypes, Sides, Ahead, Through
  <2>3. Members(<<>>) = {} /\ Ordered(Told, <<>>) /\ <<>> \in Seq(Nat)
    BY <1>0 DEF Members, Ordered, OrdinaryInv, Increasing
  <2>4. UrgentTypes'
    BY <1>0, <1>1, <2>1, <2>2, <2>3 DEF UrgentTypes
  <2>5. OrdinaryInv'
    BY <1>0, <1>1, <2>2, <2>3 DEF OrdinaryInv
  <2>6. TimelyInv'
    BY <1>0, <1>1, <2>1, <2>2, <2>3 DEF TimelyInv
  <2>7. PeekInv'
    BY <1>0, <1>1, <2>2 DEF PeekInv
  <2> QED
    BY <1>2, <2>4, <2>5, <2>6, <2>7 DEF UrgentInv
<1> QED
  BY <1>3, <1>4

LEMMA PeeksAndReads ==
  ASSUME UrgentInv, program \in UrgentPrograms, Rigid, Peek \/ ReadAgain
  PROVE  UrgentInv'
<1>0. /\ UrgentTypes /\ OrdinaryInv /\ HeardInv /\ TimelyInv /\ PeekInv
      /\ program' = program /\ timely' = timely
      /\ UrgentBytes' = UrgentBytes /\ All' = All
  BY SameUrgent
<1>1. /\ fin' = fin /\ reset' = reset /\ text' = text
      /\ mark' = mark /\ fresh' = fresh /\ urgent' = urgent /\ heard' = heard
  BY DEF Peek, ReadAgain, urgentVars
<1>2. program = "peek" /\ ~Through /\ program # "oob"
  BY <1>0 DEF Peek, ReadAgain, UrgentTypes, UrgentPrograms, Through
<1>3. HeardInv' /\ TimelyInv'
  BY <1>0, <1>1, <1>2 DEF HeardInv, TimelyInv
<1>4. /\ Ahead \in Seq(Nat) /\ Told \in Seq(Nat) /\ Len(Ahead) \in Nat
      /\ \A n \in Pieces("server", Unit) : n \in 1..Len(Ahead)
  <2>1. Ahead \in Seq(Nat) /\ Told \in Seq(Nat) /\ Len(Ahead) \in Nat /\ Unit \in Nat
    BY <1>0, UrgentAssumption DEF UrgentTypes
  <2>2. Min({Unit, Len(Ahead)}) = IF Unit <= Len(Ahead) THEN Unit ELSE Len(Ahead)
    <3>1. Unit \in Int /\ Len(Ahead) \in Int
      BY <2>1
    <3> QED
      BY <3>1, MinPair
  <2> QED
    BY <2>1, <2>2 DEF Pieces, Ahead
<1>5. CASE Peek
  <2>1. PICK n \in 1..Len(Ahead) :
          /\ pc' = [pc EXCEPT !["server"] = "read"] /\ buf' = [buf EXCEPT !["server"] = SubSeq(Ahead, 1, n)]
          /\ stream' = stream /\ printed' = printed
    BY <1>4, <1>5 DEF Peek, Goes, Piece, Ahead
  <2>2. /\ DOMAIN pc' = Sides /\ pc'["client"] = pc["client"] /\ pc'["server"] = "read"
        /\ DOMAIN buf' = Sides /\ Ahead' = Ahead /\ Told' = Told /\ Peeked' = SubSeq(Ahead, 1, n) /\ ~Through'
    BY <1>0, <2>1 DEF UrgentTypes, Sides, Ahead, Told, Peeked, Through
  <2>3. /\ Peeked' \in Seq(Nat) /\ Len(Peeked') = n /\ \A k \in 1..n : Ahead[k] = Peeked'[k]
    <3>1. (\A k \in 1..Len(Ahead) : Ahead[k] \in Nat) /\ 1 \in Int /\ n \in Int
      BY <1>4
    <3>2. /\ SubSeq(Ahead, 1, n) \in Seq(Nat) /\ Len(SubSeq(Ahead, 1, n)) = n
      BY <1>4, PieceFacts
    <3>3. \A k \in 1..n : SubSeq(Ahead, 1, n)[k] = Ahead[k]
      BY <3>1, SubSeqProperties
    <3> QED
      BY <2>2, <3>2, <3>3
  <2>4. UrgentTypes'
    BY <1>0, <1>1, <1>2, <2>1, <2>2, <2>3 DEF UrgentTypes
  <2>5. OrdinaryInv'
    BY <1>0, <1>1, <1>2, <2>2 DEF OrdinaryInv
  <2>6. PeekInv'
    BY <1>0, <1>1, <1>2, <2>2, <2>3 DEF PeekInv
  <2> QED
    BY <1>3, <2>4, <2>5, <2>6 DEF UrgentInv
<1>6. CASE ReadAgain
  <2>1. PICK n \in 1..Len(Ahead) :
          /\ pc["server"] = "read" /\ pc' = [pc EXCEPT !["server"] = "close"] /\ buf' = buf
          /\ stream' = [stream EXCEPT !["server"] = SubSeq(Ahead, n + 1, Len(Ahead))]
          /\ printed' = [printed EXCEPT !["server"] = Told \o SubSeq(Ahead, 1, n)]
    BY <1>4, <1>6 DEF ReadAgain, Prints, Piece, Without, Ahead, Told
  <2> DEFINE f == SubSeq(Ahead, 1, n)
             r == SubSeq(Ahead, n + 1, Len(Ahead))
  <2>2. /\ f \in Seq(Nat) /\ r \in Seq(Nat) /\ Told \o f \in Seq(Nat)
        /\ Ordered(Told \o f, r)
        /\ Members(Told \o f) = Members(Told) \cup Members(f)
        /\ Members(Ahead) = Members(f) \cup Members(r)
    <3>1. Ordered(Told, Ahead)
      BY <1>0 DEF OrdinaryInv
    <3> QED
      BY <1>4, <3>1, FirstOnes
  <2>3. Len(f) = n /\ \A k \in 1..n : f[k] = Ahead[k]
    <3>1. (\A k \in 1..Len(Ahead) : Ahead[k] \in Nat) /\ 1 \in Int /\ n \in Int
      BY <1>4
    <3> QED
      BY <3>1, <1>4, SubSeqProperties, PieceFacts
  <2> HIDE DEF f, r
  <2>4. /\ DOMAIN pc' = Sides /\ pc'["client"] = pc["client"] /\ pc'["server"] = "close"
        /\ DOMAIN stream' = Sides /\ DOMAIN printed' = Sides /\ stream'["client"] = <<>>
        /\ Ahead' = r /\ Told' = Told \o f /\ Peeked' = Peeked /\ Through'
    BY <1>0, <2>1 DEF UrgentTypes, Sides, Ahead, Told, Peeked, Through, f, r
  <2>5. UrgentTypes'
    BY <1>0, <1>1, <1>2, <2>1, <2>2, <2>4 DEF UrgentTypes
  <2>6. OrdinaryInv'
    <3>1. Ordered(Told', Ahead') /\ Members(Told') \cup Members(Ahead') = Members(Told) \cup Members(Ahead)
      BY <2>2, <2>4
    <3> QED
      BY <1>0, <1>1, <1>2, <2>4, <3>1 DEF OrdinaryInv
  <2>7. PeekInv'
    <3>1. Told = <<>> /\ Len(Peeked) \in Nat /\ \A k \in 1..Len(Peeked) : Ahead[k] = Peeked[k]
      BY <1>0, <1>2, <2>1 DEF PeekInv, UrgentTypes
    <3>2. Told' = f /\ Told' # <<>>
      <4>1. f # <<>>
        BY <2>2, <2>3
      <4> QED
        BY <2>2, <2>4, <3>1, <4>1
    <3> QED
      BY <1>0, <1>1, <1>2, <2>3, <2>4, <3>1, <3>2 DEF PeekInv
  <2> QED
    BY <1>3, <2>5, <2>6, <2>7 DEF UrgentInv
<1> QED
  BY <1>5, <1>6

LEMMA StepUrgent == UrgentInv /\ [Next]_vars => UrgentInv'
<1> SUFFICES ASSUME UrgentInv, [Next]_vars, program' \in UrgentPrograms PROVE UrgentInv'
  BY DEF UrgentInv
<1>1. program' = program /\ program \in UrgentPrograms /\ ((UrgentNext /\ NotUrgent) \/ UNCHANGED vars)
  BY UrgentOwn
<1>2. CASE UrgentNext /\ NotUrgent
  BY <1>1, <1>2, SendsSegment, ReceivesPiece, ReceivesMark, HandlerHears, RegistersOrEnters,
     UrgentCloses, PeeksAndReads DEF UrgentNext, Sender, Receiver
<1>3. CASE UNCHANGED vars
  BY <1>3 DEF vars, progVars, netVars, urgentVars, UrgentInv, UrgentTypes, OrdinaryInv, HeardInv,
     TimelyInv, PeekInv, Told, Ahead, Peeked, All, Through, UrgentBytes
<1> QED
  BY <1>1, <1>2, <1>3

\* Whatever the sizes and however the urgent bytes cross the ordinary ones:
\* none of those is lost or out of order, none of these is heard twice, and
\* with timely sleeps each is heard; what was peeked at is read again.
THEOREM UrgentBytesHeard == Spec => []UrgentHeard
<1>1. UrgentInv => UrgentHeard
  <2> SUFFICES ASSUME UrgentInv, program \in UrgentPrograms PROVE UrgentHeard
    BY DEF UrgentHeard
  <2>0. UrgentTypes /\ OrdinaryInv /\ HeardInv /\ TimelyInv /\ PeekInv
    BY DEF UrgentInv
  <2>1. Increasing(Told) /\ Members(heard) \subseteq UrgentBytes \cup {NoMark}
    BY <2>0 DEF OrdinaryInv, Ordered, HeardInv
  <2>2. \A j, k \in DOMAIN heard : j < k /\ NoMark \notin {heard[j], heard[k]} => heard[j] < heard[k]
    BY <2>0 DEF HeardInv
  <2>3. ASSUME program = "oob", pc["server"] = "end"
        PROVE  /\ 1..(3 * Unit + 1) \ UrgentBytes \subseteq Members(Told)
               /\ timely => Members(heard) = UrgentBytes /\ Members(Told) \cap UrgentBytes = {}
    <3>1. /\ Through /\ pc["client"] = "end" /\ Ahead = <<>> /\ Len(text) = All /\ All = 3 * Unit + 1
          /\ Members(<<>>) = {}
      BY <2>0, <2>3 DEF OrdinaryInv, Through, All, Members
    <3>2. \A b \in UrgentBytes : b <= All
      BY UrgentFacts
    <3>3. timely => Members(heard) = UrgentBytes /\ Members(Told) \cap UrgentBytes = {}
      BY <2>0, <2>3, <3>1, <3>2 DEF TimelyInv
    <3>4. 1..Len(text) \ UrgentBytes \subseteq Members(Told)
      BY <2>0, <2>3, <3>1 DEF OrdinaryInv
    <3> QED
      BY <3>1, <3>3, <3>4
  <2>4. ASSUME program = "peek", pc["server"] = "end"
        PROVE  /\ Told # <<>>
               /\ \A k \in 1..Min({Len(Peeked), Len(Told)}) : Told[k] = Peeked[k]
    <3>1. Told # <<>> /\ \A k \in 1..Len(Peeked) : k <= Len(Told) => Told[k] = Peeked[k]
      BY <2>0, <2>4 DEF PeekInv, Through
    <3>2. Len(Peeked) \in Nat /\ Len(Told) \in Nat
      BY <2>0 DEF UrgentTypes
    <3>3. Min({Len(Peeked), Len(Told)}) = IF Len(Peeked) <= Len(Told) THEN Len(Peeked) ELSE Len(Told)
      BY <3>2, MinPair
    <3> QED
      BY <3>1, <3>2, <3>3
  <2> QED
    BY <2>1, <2>2, <2>3, <2>4 DEF UrgentHeard, Told, Peeked, Members
<1> QED
  BY <1>1, InitUrgent, StepUrgent, PTL DEF Spec
===============================================================================
