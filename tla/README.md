# TCP-IP-NetworkNote: verification project

The repository holds the example programs of a book on TCP/IP socket programming, one directory per
chapter: about eighty small C programs, most of them a server with its client. They share no code;
what they share is the kernel (TCP streams, descriptor tables, processes, signals, pipes) and the
habits of the book. This directory models the programs that have state and concurrency of their
own, and the small ones whose one idea has an ordering or a failure in it, checks them with TLC on
small instances and proves with TLAPS, for instances of any size, every safety property that the
passing runs check: invariants, action properties and refinements (section 4). Liveness is
model-checked only.

    tlc -config ChatServer_two.cfg ChatServer        # one run; PROJECT.json lists them all
    tlapm ChatServerProof.tla                        # one proof module

Every definition that models code names its lines in PROJECT.json under "map".

## 1. Inventory

| Part | Source | State it keeps | Operations | Who interacts, and how |
|---|---|---|---|---|
| Chat server | `chapter-18/chat_server.c` | `clnt_socks[]`, `clnt_cnt`, `mutx`, main's `clnt_sock`, the locals of each thread | accept and append; read, broadcast under the lock; remove, close | main and one thread per client share the table; each thread is given `&clnt_sock` |
| Chat client | `chapter-18/chat_clnt.c` | `msg`, the socket | send thread, receive thread, quit | the environment of the chat server |
| Epoll echo servers | `chapter-17/*.c` (4) | the batch `ep_events`, `buf`, the kernel's interest and ready lists | epoll_wait, accept, read, write, close | one thread; events of a batch are handled after earlier ones changed the descriptors |
| Process echo server | `chapter-10/echo_mpserv.c`, `echo_mpclient.c` | descriptors copied by fork, SIGCHLD, zombies | accept, fork, child's echo loop, handler | main, children, signal handler; the client is two processes |
| Storing echo server | `chapter-11/echo_storeserv.c` | the same, a pipe, a FILE | the same, second write, five logging reads | children and logger share the pipe |
| Calculator | `chapter-05/op_server.c`, `op_client.c` | partial messages on both sides | mywrite, myread, cal | length-prefixed messages over one stream |
| HTTP server | `chapter-24/webserv_linux.c` | main's `clnt_sock`, strtok's position, descriptors | accept, request_handler, send_data, send_error | detached threads share strtok, descriptors and `&clnt_sock` |
| Iterative echo | `chapter-04/echo_*.c`, `chapter-09/reuseadr_eserver.c`, `chapter-15/echo_std*.c` | buffers of program and FILE, rounds | accept, read/fgets, write/fputs, close | one client after the other |
| Transfers, half-close | `chapter-01`, `02`, `04` hello programs, `chapter-07/file_*.c`, `chapter-16/sep_*.c` | text left to send, which direction is closed | write, shutdown/fclose/close, read to the end | server and client wait for each other's end of stream |
| Select echo server | `chapter-12/echo_selectserv.c` | `reads`, `fd_max`, the copy `cpy_reads` | select, accept and FD_SET, read, FD_CLR and close, write | one thread, as epoll, level triggered; the set must follow the descriptors |
| UDP programs | `chapter-06/uecho_*.c`, `bound_*.c`, `chapter-14/news_*.c` (9) | a buffer, the last address, the position in a file | sendto, recvfrom, join, fgets | a network that loses, copies and reorders datagrams |
| Urgent data, peek | `chapter-13/oob_*.c`, `peek_*.c` | the urgent mark of the stream, the stream | sends with and without MSG_OOB, recv, recv with MSG_OOB or MSG_PEEK | SIGURG handler and main share a socket; the sender's sleeps |
| Threads, semaphores | `chapter-18/thread3.c`, `thread4.c`, `mutex.c`, `semaphore.c` | `num` or `sum`, mutex, two semaphores | additions with or without a lock, hand-over of one number | threads share the number |
| Pipes, processes | `chapter-11/pipe*.c`, `chapter-10/wait*.c`, `zombie.c`, `remove_zombie.c` | the pipes, zombies, a pending SIGCHLD | write, read, sleep, wait, waitpid, handler | parent and children |
| The rest | `chapter-03`, `08`, `09`, parts of `01`, `10`, `13`, `15`, `16` | none | demonstrations of one call | none |

What is hard in them, and what makes each part correct:

- *Chat server.* The address of one variable is given to all threads; the removal loop compacts the
  table from the wrong index; close follows after the unlock, so a broadcast can meet a stale or
  reused descriptor; write blocks with the mutex held. Correct means: critical sections exclude
  each other, the counter is the number of connections served, everybody sees one order of messages,
  each sender's own order is kept, nobody is left out, and the mutex is always released.
- *Epoll.* Events become stale while a batch is handled; an edge is reported once; a non-blocking
  write drops what does not fit. Correct means: an event is still true when handled, a blocking
  read never blocks the only thread, and echoes are complete and in order.
- *Processes.* SIGCHLD does not queue; fork copies every open descriptor; EINTR. Correct means: a
  connection is open in its own child only, zombies are accounted for, clients see the end.
- *Store.* Second reader of the data may be gone, the pipe fills, buffers are lost on a crash.
- *Calculator.* Streams have no boundaries. Correct means: the result is the value of what was
  typed, and myread stops exactly at the end of a message.
- *HTTP.* strtok is one position for all threads, descriptors leak. Correct means: the file sent
  is the one asked for, everybody is answered, threads end.
- *Select.* `reads` and `fd_max` must follow every accept and close in any order of descriptors, or a
  connection is never served or a closed descriptor ends the loop.
- *Pairs.* Who closes first, resets and SIGPIPE, waits for each other's end of stream.
- *Urgent data.* TCP has one urgent mark and SIGURG does not queue: urgent bytes are heard once and
  ordinary ones never lost only if the sender's sleeps are long enough; part of it holds anyway.
- *UDP.* Nothing is acknowledged. Correct means: an answer belongs to the question just asked until
  the network copies something, nobody gets another's answer, and a file is told line by line.
- *Threads, pipes, processes.* Lost additions without a lock; who reads what from a shared pipe; who
  reaps which child when signals merge.

`hazards` in PROJECT.json lists these at their lines, with the properties that watch them.

## 2. Modules

| Module | Models | Composes |
|---|---|---|
| `ChatServer` | the chat server with its clients as environment | refines `TotalOrder` |
| `TotalOrder` | abstract: one log, everybody receives in its order | |
| `EpollServer` | the four epoll servers, told apart by three constants | refines `EchoService` |
| `EchoService` | abstract: a client gets back its first bytes, in order | |
| `ForkServer` | process-based echo server and its client | refines `EchoService` |
| `StoreServer` | the storing server | extends `ForkServer` with pipe, logger and file |
| `Calculator`, `MCCalculator` | calculator server and client; the texts for TLC | extends `Arithmetic` |
| `Arithmetic` | sums over a set of indices, powers | |
| `WebServer` | the HTTP server and browsers | |
| `SelectServer` | the select server: its fd_set over the kernel and clients of `EpollServer` | extends and refines `EpollServer` |
| `EventServers` | any one of the level-triggered servers, epoll or select | extends `SelectServer` |
| `Program` | what small programs have in common: which one runs, per actor where it is, its buffer, its output | |
| `Connection` | one TCP connection between two programs | extends `Program` |
| `EchoPair`, `TransferPair`, `UrgentPair` | the pairs of programs that talk over one connection | extend `Connection` |
| `Datagrams` | the UDP programs and the network between them | extends `Program` |
| `Threads` | the threads that share a number | extends `Program`, `Arithmetic` |
| `Processes` | pipes, parents and children | extends `Program` |
| `SmallPrograms` | any one of the small programs or pairs | composes the six |
| `ChatServerProof`, `EpollServerProof`, `SelectServerProof`, `ForkServersProof` (both process-based servers), `WebServerProof`, `CalculatorProof`, `SmallProgramsProof` | theorems and proofs | extend the modules they are about |
| `ArithmeticProof` | lemmas on induction, recursion, sums and powers | extended by `CalculatorProof` and `SmallProgramsProof` |

### How state and actions correspond to the code

*ChatServer.* `pc[t]` is the statement thread t is about to execute; thread 0 is main, with its own
`mpc`. `sock[t]`, `msg[t]`, `i[t]` are its locals; `clnt_sock`, `clnt_socks`, `clnt_cnt`, `mutx`
the shared variables. `ReadArg` is the dereference of the thread's argument, a step of its own
because the next accept may come before it. `Remove` is the whole loop of lines 64-69, which runs
under the lock, with the index `i++` advances before it is used. `Write` is one write of the broadcast
loop; it blocks when the connection holds `Window` messages, is lost on a closed connection, and
raises SIGPIPE after a reset. `fdTab` is the kernel's table: accept takes the lowest free number.
A message is its sender and number. `log`, `rcvd`, `pos` and `given` record history for properties.

*EpollServer.* `batch` is what is left of `ep_events`; its head is being handled, and `buf` is what
was read for it and not written. `EpollWait` returns any order of up to `EPOLL_SIZE` ready
descriptors; `edge` holds those with news not reported yet. `Drain` selects the program with
non-blocking sockets: its handler repeats read until EAGAIN (`AfterIo`, `ReadAgain`), and its write
takes only what fits in `SndBuf`.

*SelectServer.* Actions are those of EpollServer with what the program adds: `SelectAccept` sets the
bit of the new descriptor and raises `fd_max` (lines 54-55), `ClearAndClose` is FD_CLR and close, and
`Select` puts the ready members of `reads` up to `fd_max` into `batch`, in the ascending order in which
the for loop meets them. `SelectAcceptFails` is FD_SET(-1): nothing that counts, or the end of a
fortified build (`aborted`). EventServers chooses the program at the start.

*ForkServer, StoreServer.* A slot of `Procs` is a process or a zombie; with no slot free fork fails.
`has[p]` and `mainHas` say which connections are open where, so that a client sees the end of the
stream when no process has its connection open. `Deliver` enters the handler, `Reap` is its waitpid. A
SIGCHLD that finds one pending is counted in `merged`. In StoreServer a child writes to the pipe
after each echo (`Store`), the logger's reads fill the FILE buffer `stdio`, and only `LogEnds` makes
it reach `file`; `Interrupt` ends all processes and loses the buffers.

*Calculator.* Per side: what has been read (`rd`, `part`), the length announced (`len`), and the
bytes under way (`chan`), from which read may take any piece. `Cal` evaluates the text as `cal` does,
character by character, on integers that wrap at `IntBits`. `Value` is the reference definition: each
digit counts with its power of ten and the sign before its number.

*WebServer.* A request line is the file it names, or one of: "missing", a name that has a dot and no
file; "post", another method; "bad", no "HTTP/" in it; "nodot", a name without a dot ("GET / HTTP/1.1"
is one, for " /" separates tokens, and the name is then "HTTP"); "short", "HTTP/" and no second token. A
header and body are the file they carry. `tok` is strtok's one position, and stands for the tokens
behind it: strtok returns NULL, and strcpy crashes the server, when none is left (`NextToken`,
`TypeRest`). `polite`, chosen at the start, says whether clients come one after the other or as a crowd:
some properties hold only for the former.

*Connection, EchoPair, TransferPair.* `stream[s]` are the bytes on the way to side s; reads take any
piece. `fin` and `closed` tell shutdown from close; closing with unread input sends a reset, so does a
write to a closed peer, and `reset` is what the server knows of it. `GetsNull` is an fgets that fails,
which leaves `message` as it was. `TransferPair` has one server that differs in how it ends its stream
(`EndsStream`) and one client that differs in how it reads.

*UrgentPair.* Bytes are numbered as they are sent, so the numbers stand for "123", "4", "567", "890";
the urgent ones are the last of the second and the fourth send. `mark` is TCP's urgent mark and `fresh`
says that recv(MSG_OOB) has not had it. The handler takes two steps, so a second SIGURG may come before
or after its recv. `Receives` stops before the mark or goes on behind it; with a signal pending it does
not pass it (the loop's `continue`). `timely` in UrgentPair and Processes, chosen at the start, says
whether every sleep is long enough for what it is meant to wait for: in oob_send.c the three before the
second, third and fourth send. There is none before the first, so the receiver may not have its handler
yet, and none before close, so the end of the stream may arrive before the last SIGURG is handled.

*Datagrams.* `net` is a bag of datagrams; `Loses` and `Copies` are the network's faults, and any of the
bag may be received next. The server keeps message and address (`buf`) between recvfrom and sendto. The
sender of the news puts in its buffer what fgets last found; `Feof` depends on what ended the last fgets
that found something: a newline or a full buffer (29 characters), after which one more fgets meets the
end and finds nothing, or the end of the file itself (`Stops`). A line longer than the buffer is several
messages. `Joins` is bind (and IP_ADD_MEMBERSHIP).

*Threads.* `Load` and `Store` are the two halves of one or several additions, for the compiler may keep the
number in a register over any number of rounds; `left` counts the rounds to go. Reader and Accu are the
threads of semaphore.c, statement by statement. Sums are integers: overflow of an int is not modelled.

*Processes.* A child is "run", a "zombie" or "gone". In the pipe programs a message is in the pipe until
somebody reads it, the one who wrote it included. `ChildExits` raises SIGCHLD where it is caught,
`merged` counts those that found one pending.

## 3. Runs

| Run | Bounds | What it shows |
|---|---|---|
| `chat_three` | 3 clients, 2 descriptors, 3 accepts, one sends one message, the other two may leave | descriptor reuse and a failing accept are reached; the counter is right; before the first departure a broadcast reaches everyone exactly once; the connection of a client that left is closed, unless a thread spins |
| `chat_two` | 2 clients, one with two messages, window 1 | mutual exclusion, each sender's order, one order for all; the mutex is released |
| `chat_all` (violation) | 2 clients, 1 message each | after a departure a broadcast misses a connected client |
| `event_loops` | 3 clients on 2 descriptors, batches of 2, 3 bytes from one client, buffer 2; epoll and select | events are current, main never blocks in read, select watches every connection and takes only steps of the epoll server, EchoService is implemented, everything is echoed, descriptors return |
| `epoll_et` | 2 clients, 3 bytes, buffer 2, send buffer 2 | the draining edge-triggered server reads everything and repeats nothing |
| `fork` | 3 clients on 2 process slots, one sends 2 bytes, buffer 1, reads of 2 | descriptor ownership, zombies, echoes, EINTR, end of stream |
| `store` | 2 clients, 3 bytes in all, pipe of 1, 2 logging reads | the log keeps each client's order, a full pipe only delays the echoes while the logger reads |
| `store_blocks` (violation) | 1 client, pipe of 1, 1 logging read | after the logger has ended the echoes stop |
| `calc` | 341 texts of up to 4 characters over `+ - 1 9`, sums of 10 and 11 characters, 8-bit int | results, message ends, termination |
| `web` | 3 clients of which 2 may crowd, 2 threads, 4 descriptors, 2 files | right file when alone and never one that nobody asked for, one leak per request, a crash only when the table is full or a request has no name or no dot in it, answers, threads end |
| `web_mixed` (violation) | 2 clients at once, 6 descriptors | a client is sent the other's file |
| `small_programs` | lines of up to 2 characters, 2 lines, 3 rounds; texts of up to 4 bytes, file buffer 2; urgent sends as in the source; 2 UDP clients with 2 messages, 2 lines of news, 2 losses and 2 copies; 3 threads of 2 rounds, 3 numbers read; 2 children | one property per family: `Conserved` and `OutlivesPatientClients` (echo), `BothHeard` (half-close), `UrgentHeard`, `AnswersBelong`, `ThreadResults`, `PipesTalk`, `ChildrenReaped`; and `AllEnd`, that none waits for ever |

Why the bounds are enough for what is asked. Each hazard needs few actors: a race on `clnt_sock`
needs two accepts, a stale entry two clients and a reused descriptor a third; a batch of two events
is the smallest in which one can spoil the next; two children are needed to merge a signal. Descriptors
are fewer than clients so that accept fails and numbers are reused; buffers are smaller than what
is sent so that a message takes several reads; pipe, window and send buffer are small so that they
fill. Rounds (`EchoPair`) are 3 instead of 5: each starts from a fresh connection. `Talkers`,
`Chatty`, `Leavers` and `Crowd` limit who sends, how much, and who leaves, in the largest instances;
`MaxMsgs`, `MaxBytes`, `MaxLines`, `MaxThreads` and `MaxText` bound what grows, `MaxFaults` the losses
and copies: one loss blocks a client, one copy shifts its answers, two do both to both. `NUM_THREAD` is
3 instead of 100, `Iter` 2 instead of 50000000 and `Reads` 3 instead of 5: an addition is lost between
two threads, a second round shows what a stale register does to a round before, and with 3 threads
the right result is not zero. `Unit` is 3 as in the source.

The small programs share one run because each has a few states only; their variables are disjoint but
for those of `Program` and `Connection`, and the one not running stays at its initial values. A
type invariant is checked for none of the runs: the proofs contain one for each module as a part of
its inductive invariant (section 4).

CHECK_DEADLOCK is off everywhere because the systems may rightly stop: the clients have left, the
program has ended, or the input is used up. Waiting for each other for ever is what the liveness
properties exclude.

### Fairness

- Threads and processes of a program run whenever they can: weak fairness of each (`ThreadStep`,
  `ChildStep`, `MainStep`, `ServerStep`). Nothing is assumed about the order of lock acquisition:
  locking is weakly fair only.
- The kernel delivers signals and resets that stay pending.
- Clients that have a thread or loop for reading keep reading (`recv_msg`, `read_routine`, the epoll
  client): weak fairness of these actions. No client has to send, and none has to leave, with two
  exceptions. In `WebServer` a client that has connected sends its request and none stays for ever; in
  `EchoPair` the user types or quits in the end. Neither server has a timeout, so nothing could be
  promised otherwise. No interruption is ever required.
- `AllEnd` assumes weak fairness of both sides of a pair, of every thread, and of the programs that
  make up a UDP or a process family; it does not promise an end to a UDP program once a datagram is
  lost, nor to pipe2.c when its sleep is too short. No loss or copy is required to happen.

## 4. Proofs

`ChatServerProof` (any number of clients, threads, descriptors and messages):

- `TypeCorrect`, `MutualExclusion`, `CounterIsRight`: `Spec => []` of `TypeOK`, `MutexInv`,
  `CountMatchesThreads`. None is inductive alone. That `clnt_socks` keeps its type needs the index of
  `MainAppend` in bounds, this needs the counter to count threads, and this needs that no two threads
  change it at once, and that a thread not born yet has no place in it. `IInv` is the conjunction of the
  three with `Births` (threads 1..created exist, no others) and `LogInv` (what is delivered is in the
  log, nobody has got further than the broadcast under way).
- `AppendInBounds`: main never appends outside `clnt_socks`, given at most MAX_CLNT accepts
  (`ConstantsAssumption`). The code has no such check: past MAX_CLNT connections at once its
  behaviour is undefined, and the model does not go there.
- `ImplementsOneOrder`: `Spec => OneOrder`, the refinement of `TotalOrder`, from `LogInv`.
- `SendersInOrder`: `SenderOrder` is about the log alone; that the next message to be logged is newer
  than those before needs to know who may log for a client. `OrderInv` adds that descriptors and
  connections are one to one (`FdTabInv`), that while every thread has its own argument no two
  serve one connection and nobody else closes it (`OwnFds`), and that what a thread is about to log
  is the last that was taken from its client (`LastTaken`).
- `EachIsReachedOnce`: until somebody leaves, the table lists the open descriptors in the order of the
  threads, each once (`TableInv`), so that the broadcast under way has reached exactly the clients
  below its index (`ReachedInv`).

`EpollServerProof` (any number of clients, descriptors, bytes and any buffer and batch sizes):

- `TypeCorrect`, `NoStaleEvent`, `NeverBlocks`: `EventsAreCurrent` and `NeverBlockedInRead` follow from
  `BaseInv`, whose parts are the types, the descriptor table (one descriptor per connected client,
  `TableInv`), what is in hand, and that the events of a batch are distinct and remain true (`Current`).
  The argument: an event speaks of a descriptor that only its own handling reads or closes, and accept
  adds descriptors without touching others.
- `EchoIncreases`: `Increasing`, in all four programs, also where a non-blocking write drops what does
  not fit: whatever was echoed is older than what is still in `buf` (`OrderInv`).
- `ImplementsEchoService`: for the blocking programs (`~Drain`) the server implements `EchoService`:
  what is echoed, followed by what is in hand, is the first bytes of what the client sent.

`SelectServerProof` (the same, for level-triggered programs without draining, `SelectAssumption`):

- `ConnectionsWatched`: the fd_set holds exactly the open descriptors, none above `fd_max`, so that no
  connection is forgotten although descriptors are closed and given out again in any order. The
  invariant `SelectInv` adds the type of the table, that `edge` is never used, and that the server is
  at an end once a fortified FD_SET has refused the -1 of a failed accept (`aborted`).
- `StepsAreEpoll`, `ImplementsEpoll`: every step of the select server is a step of `EpollServer` whose
  batch is as large as the table; only the events it reports, in ascending order, are fewer choices.
- `SelectImplementsEchoService`: from these and `EpollServerProof`, instantiated for the larger batch.

`ForkServersProof`, the process-based server (any number of clients and bytes, any finite number of
process slots, all sizes of buffer and reads):

- `ConnectionsOwned`: `OnlyItsChild` is inductive only together with `OwnInv`: a child at work has its
  own connection, an ended process has none, and between accept and fork main has exactly the
  connection it is about to hand on, which no child has yet. Hence `OneChild`: two children at work
  serve different clients.
- `ZombiesAccounted`: `ZombiesAreOwed` is inductive as it stands over these; an ending process adds one
  zombie and one signal or merged signal, the handler takes one of each.
- `ChildrenImplementEchoService`: `EchoInv` says what a child has in `buf` is what its client has sent
  right after what it got back, as long as the client is there to read. That no other child reads or
  writes the connection is `OneChild`.

`ForkServersProof`, the storing server (the same with any pipe, any number and size of logging reads):

- `StoreConnectionsOwned`, `StoreImplementsEchoService`: the lemmas on the other server are about the
  steps of children and main with any value of `Logging`, so they hold of the storing server too; a
  step of the logger, a child's write to the pipe and the interrupt leave the connections and the
  echoes alone. The storing server implements `EchoService`, also when the pipe is full or the
  logger has ended.
- `LogInOrder`: `StoredInOrder` says of each byte that was logged that the numbers of its client's bytes
  before it are exactly those below its own. `LogInv` says how far a child has got: of its client
  everything was logged but what the child has read and not stored yet. `StoredInOrder` speaks of
  file, buffer and pipe as one sequence, so that moving bytes from one to the next changes nothing.

`WebServerProof` (any clients, threads, files and descriptors):

- `FilesGoToWhoAsked`: `RightFileAlone`. In a crowd, `AskedInv`: whatever is in a thread's locals, in
  strtok's text or was sent was asked for by somebody, if it is a file at all. While clients come one
  after the other, `PoliteInv`.
- `EachRequestLeaksOne`: `OneLeakPerRequest`, from `PoliteInv` again: a request leaks one descriptor at
  most, and the server crashes only once one descriptor at most is left, or on the request it is
  handling that has no name or a name without a dot, and that is never answered. Its parts: of the
  clients that were answered, who got the file has no descriptor left, and who got 400 for a missing one
  has one (`PastInv`); the client that is present has at most one thread at work for it, which has that
  client's descriptors and its request in its locals (`TurnInv`, `Serves`), or no descriptor was left
  for it (`Doomed`); and there are as many descriptors of leaked files as files served (`LeakInv`).

`CalculatorProof` (any texts of at most 104 characters, any width of int):

- `NothingIsLeft`: `NothingLeft`, from `FrameInv`: what the reading side has in its loop (`part`), what is
  in the stream and what the other side has yet to write make up the length and the message
  (`Reads`), whatever pieces TCP delivers; while one side writes nothing is on its way to it.
- `ResultArrives`: the client prints the number that `cal` computes from exactly the text that was typed.
- `CalIsValue`: that number is `Value` of the text whenever this fits an int, even if a sum on the way
  to it overflows and the build lets it wrap. By induction over the prefixes of the text (`CalRight`):
  `ans` plus or minus `now` is congruent to the sum of the terms so far modulo 2^`IntBits` (`Same`),
  where the terms of the number being read are counted as if it ended here (`NumberEnds`, `DigitRead`),
  for a further digit multiplies them all by ten. Two ints that are congruent are equal (`SameInts`).
- `DecimalReadsBack`: what sprintf writes for an int is ASCII and has that int as its value, from the
  quotients by powers of ten (`NextDigit`, `DigitsRead`).
- `ResultIsRight`: `ResultRight`, from these three. `ResultRight` promises less than `CalIsValue` about
  overflow, which C leaves undefined; the theorem is about builds in which an int wraps.

`SmallProgramsProof` (any number of lines, rounds and messages, of losses and copies, any buffer sizes).
A program takes its own steps only (`OwnSteps`, `OwnStart`), so each theorem is about one family:

- `NothingLostOrReordered`, `PatientClientsDoNoHarm`: `Conserved` and `OutlivesPatientClients` of the echo
  pairs. `EchoInv` says while a client is connected (`UpInv`) that the text typed is what it printed,
  followed by what is in its program's buffer, its FILE, the stream to it, the server's
  buffer, its FILE and the stream to the server (`Chain`); for the client that reads lines, that what is
  under way is one line. Afterwards (`GoneInv`) a client that had its whole echo has left nothing for
  the server to read, so that the server writes at most once more, before any reset.
- `BothSidesHeard`: `BothHeard`, from `TransferInv`: while the client reads, the text is what it has,
  what is on its way and what is not sent; the end of the stream comes after the last of it.
- `UrgentBytesHeard`: `UrgentHeard`, from `UrgentInv`. Told and waiting bytes are in the order in which
  they were sent and leave out urgent ones only (`OrdinaryInv`, whatever the sleeps), the mark is newer
  than all that was heard (`HeardInv`), with timely sleeps between the sends an urgent byte sent is
  heard or is the mark with its signal on the way, which the close behind it does not change
  (`TimelyInv`), and what `MSG_PEEK` gave is at the head of the stream until it is read (`PeekInv`).
- `DatagramsBelong`: `AnswersBelong`. `PalsInv` counts for every message how often it is on its way to the
  server, held by it, on its way back and printed: together at most once more than something was
  copied; and a client has as many answers as questions but for the one it waits for. So without a copy
  the answer it gets is that of its last question. `HostInv` and `NewsInv` do the same for the
  other two programs, where the last line counts twice unless the end of the file ended it.
- `PipesAreHeard`: `PipesTalk`; in `PipeInv` the places of parent and child determine what the pipes hold
  and who has heard what.
- `EachChildReapedOnce`: `ChildrenReaped`; in `ReapInv` every child reaped is gone and reaped once, and
  there are as many zombies as signals pending, being handled and merged.
- `NoAdditionLost`: of mutex.c, that every store adds a thread's next rounds to the number as it is then,
  whatever the compiler keeps in a register, and that no round is left at the end (`LockInv`: who
  is in its loop has the mutex, and its register holds the number). `NumbersHandedOver`: of semaphore.c,
  that the k-th number added is the k-th typed (`SemInv`: one thread or one semaphore has the turn).
- `NumbersAddUp`: `ThreadResults`. Of mutex.c, the number is the sum of what the threads have added so
  far (`MutexInv`), to which a step adds the next rounds of one of them. Of semaphore.c, the sum is
  that of the numbers handed over (`SumInv`). Without a lock the number, and each register that is about
  to be written back, is the sum of some of the additions, none of which its thread has yet to
  make (`KeptInv`, `OldSums`): a store that goes on from an old register drops whole additions of
  others and nothing else.

`ArithmeticProof`: the library's theorems on induction take the formula as a parameter, which the
installed provers cannot instantiate. Its well-foundedness of < on the naturals speaks of sets
instead: a set of naturals that is not empty has a least element (`Smallest`). Induction over the
members of a set follows (`Induction`, `SubsetInduction`), then that the recursive functions behind
sums and powers exist and unfold (`FoldExists`, `RecursionExists`, `SumUnfolds`, `PowerUnfolds`), and what
sums do: `SumExtends`, `SumAgrees`, `SumSplits`, `SumScales`, `SumChanges`, `SumPairs`.

The proofs rest on the named assumptions of each module only. Those that are not bounds of a size say
what the model means: `Nobody` is no client, the values that stand for a request that is not a file
are no files. The proofs are laid out as: one lemma on the effect of the steps, one on the
preservation of each part, the invariant, then the theorems. A theorem's last step is PTL.

Model-checked only:

- All liveness (`MutexReleased`, `Answered`, `AllEnd` and the others), as are fairness and ENABLED
  outside the prover's reach.
- That `AskedInv`, `FrameInv` and the other inductive invariants hold on the instances of the runs was
  found with TLC first; they need no run now that they are proved.

## 5. What the runs refute

The three violations are listed with their quotations under "findings": `chat_all`, `store_blocks`
and `web_mixed`. Other disagreements met while modelling, which have no run of their own; the
actions named show them:

- chat_server.c, web server: the thread's argument is `&clnt_sock`, so the next accept may replace
  it before the thread reads it (`ReadArg`); then one client is served twice and another not at all.
- chat_server.c:66: the loop removes the entry after the one meant (`Removed`), which is why the
  broadcast of `chat_all` misses a client.
- echo_EPETserv.c: one read per edge leaves the rest of a longer message unread until the client
  sends again (`AfterIo` without `Drain`); echo_EPETserv_isok.c reads it all but drops what a
  non-blocking write does not take (`Written`).
- echo_mpserv.c: merged SIGCHLDs leave zombies (`merged`); what `ZombiesAreOwed` states is exactly that.
- echo_storeserv.c: what is echoed after the fifth read is never stored. A chunk is taken to fit the
  pipe and to be written at once (`StoreAssumption`); in run `store` the pipe holds one byte, so that
  no read of the logger returns several messages: `Log` has them, no run reaches them.
- webserv_linux.c: a missing file is answered with 400 and its connection is left open.
- webserv_linux.c:122, 70: a name without a dot, as in "GET / HTTP/1.1", or no second token ends the
  server for everybody; the comment at line 122 knows of the first.
- echo_stdserv.c: an fgets that fails with an error does not set feof; the message is written again
  and the reset raises SIGPIPE. `OutlivesPatientClients` states who can cause it.
- echo_selectserv.c:54: accept is not checked and FD_SET(-1) is undefined (`SelectAcceptFails`).
- oob_recv.c:59: when two urgent sends come close together the handler runs a second time with
  nothing urgent left; recv returns -1, `buf[-1]` is written, and the older urgent byte is printed as
  an ordinary one (`HandlerReads`, `Rest`). With the sleeps long enough neither happens (`timely`).
- remove_zombie.c: `read_childproc` reaps one child per call, and two children sleep the same ten
  seconds: merged signals leave a zombie until the parent ends (`merged`).
- pipe2.c: with too short a sleep the child hears its own question and the parent waits for ever.
- news_sender.c, news_sender_brd.c: a file that ends with a newline, or with 29 characters that just
  fill the buffer, has its last line sent twice, and an empty one an unset buffer (`Feof`, `Garbage`).
- uecho_client.c: a datagram lost is waited for for ever, a copied one shifts all later answers.
- op_server.c: `myread` asks again for ever when its client is interrupted before its whole message is
  out (`Starved`, which `ServerEnds` excepts: one interrupted later does not keep the server).
- chat_server.c:44: a thread that was given -1, or whose descriptor another thread has closed, takes
  every failed read for a message and locks, sends and unlocks for ever. With locks that are no more
  than weakly fair it may keep a leaver's thread from the mutex: `LeaverClosed` excepts this case and no
  other (`Spins`).

## 6. Not modelled

The components with status `not_modelled` in PROJECT.json, each with its reason. Within the modelled
ones: failures of socket, bind and listen (the programs exit before anything interesting happens); more
than MAX_CLNT chat clients; request lines, methods and names longer than the buffers of the HTTP server
(`req_line`, `method[10]`, `file_name[30]`); sums that overflow an int in thread3.c and semaphore.c; the
wording of messages and logs; clients that wait in the listen queue while `EchoPair`'s server serves
another (a client connects when it is accepted); the clients' terminals at end of input; a UDP server
that is not running; thread1.c, thread2.c, fork.c, signal.c, sigaction.c, readv.c and writev.c, which
show one call and have nothing to go wrong between two actors.

## 7. Plan

Done in this order: ChatServer with its abstraction and proofs (the only long-lived shared table),
EpollServer with proofs, ForkServer and StoreServer, Calculator, WebServer, the pairs; then
SelectServer with its refinement of EpollServer, and the small programs: UDP, urgent data, threads,
pipes and processes; then the proofs of ForkServer, of the order of messages in ChatServer, of
StoreServer, WebServer, the framing of Calculator and the small programs; last the induction that the
values of Calculator and the sums of Threads needed. Next:

1. The chat client at end of input and after the server has gone, if a statement worth checking is
   found: both its loops then spin without an end.
