------------------------------- MODULE Threads -------------------------------
(***************************************************************************)
(* The threads of chapter-18 that share a number: "sum" (thread3.c), two   *)
(* that add the numbers of a range each, "unlocked" (thread4.c) and        *)
(* "mutex" (mutex.c), which add and subtract 1, and "semaphore", in which  *)
(* one reads numbers and the other adds them up.  Numbers are integers:    *)
(* the overflow of an int is not modelled.                                 *)
(***************************************************************************)
EXTENDS Program, Arithmetic

CONSTANTS
  NUM_THREAD,   \* 100 in the sources
  Iter,         \* 50000000 in the sources, 5 in thread3.c
  Reads,        \* numbers read by semaphore.c, 5 in the source
  Values        \* numbers that are typed

ASSUME ThreadAssumption == NUM_THREAD \in Nat /\ Iter \in Nat /\ Reads \in Nat /\ Values \subseteq Int

VARIABLES
  num,          \* the shared number; sum in thread3.c
  left,         \* per thread: the rounds of its loop still to go
  lock,         \* the thread that holds the mutex, or NoThread
  sem_one, sem_two

threadVars == <<num, left, lock, sem_one, sem_two>>

NoThread == -1
Adders == {"sum", "unlocked", "mutex"}
ThreadPrograms == Adders \cup {"semaphore"}
NoThreads == num = 0 /\ left = <<>> /\ lock = NoThread /\ sem_one = 0 /\ sem_two = 0

\* What thread t adds, round by round.
Work(t) ==
  CASE program = "sum" -> [k \in 1..Iter |-> t * Iter + k]
    [] program = "semaphore" -> [k \in 1..Reads |-> 0]
    [] OTHER -> [k \in 1..Iter |-> IF t % 2 = 1 THEN 1 ELSE -1]
Running == 0..((IF program \in {"unlocked", "mutex"} THEN NUM_THREAD ELSE 2) - 1)
\* The threads of semaphore.c.
reader == 0
accu == 1

ThreadInit ==
  /\ program \in ThreadPrograms /\ timely = TRUE /\ text = <<>>
  /\ pc = [t \in Running |-> IF program = "mutex" THEN "lock" ELSE "loop"]
  /\ buf = [t \in Running |-> 0] /\ printed = [t \in Running |-> <<>>]
  /\ num = 0 /\ left = [t \in Running |-> Len(Work(t))] /\ lock = NoThread
  /\ sem_one = 0 /\ sem_two = 1

(***************************************************************************)
(* num += ...: a load and a store, and the compiler may keep num in a      *)
(* register for any number of rounds.                                      *)
(***************************************************************************)
Lock(t) == pc[t] = "lock" /\ lock = NoThread /\ lock' = t
Enter(t) ==
  /\ Lock(t) /\ pc' = [pc EXCEPT ![t] = "loop"]
  /\ UNCHANGED <<buf, text, printed, num, left, sem_one, sem_two>>

Load(t) ==
  /\ left[t] > 0 /\ Moves(t, "loop", "store") /\ buf' = [buf EXCEPT ![t] = num]
  /\ UNCHANGED <<text, printed, threadVars>>

Added(t, rounds) ==
  LET from == Len(Work(t)) - left[t] IN SumOver(Work(t), (from + 1)..(from + rounds))
Store(t) ==
  /\ Moves(t, "store", "loop")
  /\ \E rounds \in 1..left[t] :
       num' = buf[t] + Added(t, rounds) /\ left' = [left EXCEPT ![t] = @ - rounds]
  /\ UNCHANGED <<buf, text, printed, lock, sem_one, sem_two>>

\* The loop is over: pthread_mutex_unlock, and the thread returns.
Return(t) ==
  /\ left[t] = 0 /\ Moves(t, "loop", "end")
  /\ lock' = IF lock = t THEN NoThread ELSE lock
  /\ UNCHANGED <<buf, text, printed, num, left, sem_one, sem_two>>

AdderStep(t) == Enter(t) \/ Load(t) \/ Store(t) \/ Return(t)

(***************************************************************************)
(* semaphore.c.                                                            *)
(***************************************************************************)
\* Fault: the reader does not wait for the other.
WaitNot == UNCHANGED sem_two
WaitTwo == sem_two > 0 /\ sem_two' = sem_two - 1

WaitToRead ==
  /\ left[reader] > 0 /\ Moves(reader, "loop", "scan") /\ WaitTwo
  /\ UNCHANGED <<buf, text, printed, num, left, lock, sem_one>>

\* scanf sets num, or leaves it alone when no number is typed.
Scan ==
  /\ Moves(reader, "scan", "post") /\ num' \in Values \cup {num} /\ text' = Append(text, num')
  /\ UNCHANGED <<buf, printed, left, lock, sem_one, sem_two>>

PostOne ==
  /\ Moves(reader, "post", "loop")
  /\ sem_one' = sem_one + 1 /\ left' = [left EXCEPT ![reader] = @ - 1]
  /\ UNCHANGED <<buf, text, printed, num, lock, sem_two>>

WaitToAdd ==
  /\ left[accu] > 0 /\ Moves(accu, "loop", "add") /\ sem_one > 0 /\ sem_one' = sem_one - 1
  /\ UNCHANGED <<buf, text, printed, num, left, lock, sem_two>>

\* sum += num.
Add ==
  /\ Moves(accu, "add", "post") /\ buf' = [buf EXCEPT ![accu] = @ + num]
  /\ UNCHANGED <<text, printed, threadVars>>

PostTwo ==
  /\ Moves(accu, "post", "loop")
  /\ sem_two' = sem_two + 1 /\ left' = [left EXCEPT ![accu] = @ - 1]
  /\ UNCHANGED <<buf, text, printed, num, lock, sem_one>>

AccuEnds ==
  /\ left[accu] = 0 /\ Moves(accu, "loop", "end") /\ Prints(accu, <<buf[accu]>>)
  /\ UNCHANGED <<buf, text, threadVars>>

ReaderEnds == left[reader] = 0 /\ Moves(reader, "loop", "end") /\ UNCHANGED <<buf, text, printed, threadVars>>

Reader == WaitToRead \/ Scan \/ PostOne \/ ReaderEnds
Accu == WaitToAdd \/ Add \/ PostTwo \/ AccuEnds

ThreadStep(t) ==
  IF program \in Adders THEN AdderStep(t) ELSE IF t = reader THEN Reader ELSE Accu

ThreadNext == program \in ThreadPrograms /\ (\E t \in Running : ThreadStep(t)) /\ Rigid

(***************************************************************************)
(* Properties.                                                             *)
(***************************************************************************)
Joined == \A t \in Running : pc[t] = "end"
SumOf(s) == SumOver(s, DOMAIN s)
Additions == UNION {{t} \X DOMAIN Work(t) : t \in Running}
Amounts == [r \in Additions |-> Work(r[1])[r[2]]]

\* Behind the mutex no addition is lost, and none between the semaphores.
\* Without a lock whole additions are, and nothing else: the number is always
\* the sum of some of them.
ThreadResults == program \in ThreadPrograms =>
  CASE program = "mutex" -> Joined => num = SumOf([t \in Running |-> SumOf(Work(t))])
    [] program = "semaphore" -> pc[accu] = "end" => printed[accu] = <<SumOf(text)>>
    [] OTHER -> \E kept \in SUBSET Additions : num = SumOver(Amounts, kept)
==============================================================================
