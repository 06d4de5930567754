# A TLA+ model of Embedding-soft-learning

The repository is a collection of Linux, C, C++ and Qt programs written while
learning systems programming.  The programs are independent of each other, so
the development has one group of modules per program, and none that joins them.
Paths are relative to `src/` of the repository (`src/http_server/server.c`
is the HTTP server, `docs/` the notes).

The modules follow the code's control flow: one action per step that another
thread, the kernel, a peer or a crash can separate from the next one, with the
guards of the code, and every call inside the step that changes state.  Data is
reduced to what the properties tell apart: a file is the sequence of the
positions of its bytes, a request head is a number of segments, a descriptor
passed to the pool is the number of its submission.

## 1. The system

| Component | State it keeps | Operations | What is hard |
|---|---|---|---|
| http_server: thread pool (`server.c:26-45, 629-736`) | ring (queue, head, tail, count), stop, mutex, two condition variables | init with failure path, submit, take, destroy, worker_routine | lost wakeups, shutdown with tasks queued, failure during start-up |
| http_server: event loop and connections (`server.c:562-626, 738-869`) | epoll interest, one-shot arming, batch of events, accept queue, descriptors | epoll loop, accept loop, hand-over, process_client_connection, close | edges reported once, descriptor numbers reused, accept that fails, partial heads, clients that do not read |
| http_server: requests and responses (`server.c:79-134, 253-549`) | header, content_len, file offset, socket buffer | parse_range_header, handle_request, send_response_ex, send_file, send_all | short sends, peer that leaves, file edited while served, boundaries of ranges |
| select_concurrent_server | readfds, client_fds, client_count, open descriptors | select, accept or reject, recv and reply, forget | three records of one fact, stale fd sets, blocking sockets, accept that fails |
| epoll_concurrent_server (`server.c`, `server_v2.c`) | epoll edges, curfds | accept, recv, reply, close | edge-triggered reporting, blocking calls in the only thread |
| Producer-Consumer_model.cpp | queue_, closed_, cv_ | push, wait_and_pop, close | notification outside the mutex, closing with sleepers |
| Student_Info_Manament_System | `data/students.dat`, `data/temp.dat`, session record | register, login, set info, add, modify, delete | rewriting a file in three steps, crashes and full disks between them, files that end inside a record |
| network-programming (file download) | two byte streams per client, the server's position in a file | command, marker, size, contents, leaving | framing, coalesced reads, a file that is missing or changes while it is sent, unchecked writes, a client that leaves |
| udp_server, udp_broadcast | none beyond a request; the address of the sender | request and reply | loss, duplication, late replies, a truncated address |
| Data_Structure: containers (list, queue, stack, doubly linked list, array) | nodes on the heap, ends, sizes | create, insert, delete, get, set, find, destroy | ends and empty structures, links that agree, malloc that fails |
| Data_Structure: search tree and maze (`bst.c`, `mazeDemo.c`) | a tree with counts; marks, a growing stack | insert, walk, delete; one turn of the search | a subtree lost by a deletion, backtracking, the borders |
| Data_Structure: `list.h` | - | macros of an intrusive list | - |
| Thread_safe_counter.cpp, RAII_lock_wrapper.cpp | counts, one atomic, two under a mutex | increment, push | interleaving, a push that fails |
| qt_learning: database demos (`QSqlited_demo`, `qt6widget_ui_demo`) | a table in SQLite; each window's list, form and selection | start and seed, reload, add, update, delete | lists that are old, statements of two windows between each other, failures half-way |
| qt_learning: RosBridge (`qt_ros2_demo`) | m_running, a node and what hangs on it, a spinning thread | start, stop, destruction | an unsynchronised flag, objects dropped beside a running thread |
| IO_programming (`pipe_demo.c`, `cat_fd.c`, `io_utils.c`) | ends of a pipe, a buffer | read, write_all, close, wait | ends that stay open, short writes |
| MySQL_server, language demonstrations, skeletons | - | - | single statements, templates |

Interaction inside the HTTP server: `main` is the only thread that calls
`epoll_wait`, `accept` and `thread_pool_submit`; workers take descriptors from
the ring and own them until `close_client_fd`.  Everything else a worker does
is sequential, which is why requests and responses have a module of their own.
The student system and the data structures are single-threaded; the first one
meets crashes and failing calls, the second ones a malloc that fails.  The file
download is two programs that share nothing but a stream without boundaries, the
UDP programs share nothing but datagrams, and the Qt windows nothing but the
table.

## 2. Modules and the code

### ThreadPool, TaskPool, ThreadPoolProofs

`ThreadPool` has the fields of `struct ThreadPool`, the holder of the mutex, the
wait sets and a program counter per thread.  Critical sections are split at the
acquisition of the mutex and between a test of a loop predicate and the entry
into `pthread_cond_wait`: the failure path of `thread_pool_init` (`FailStop`,
`FailBroadcast`) writes `stop` and broadcasts without the mutex and is visible
there.  A signalled thread has to take the mutex again (`relock`) before it
tests the predicate.  Task k is the k-th descriptor submitted; the bound
`MaxTasks` limits the calls, `MaxSpurious` the spurious wakeups.

`TaskPool` is what a caller is promised: tasks start in the order of acceptance,
at most Capacity of them wait, each is run by one worker, and what was accepted
before the close is finished.  `ImplementsTaskPool` is the refinement: open is
`stop = 0`, accepted, started and finished are the history variables, running
is each worker's local `client_fd`.

### HttpServer, HttpPool, MCHttpPool, HttpServerProofs

The epoll loop against clients that connect, send their head in segments and
leave at any time.  Since `ThreadPool` shows the pool to be a bounded FIFO, it
is a sequence here.  Descriptor numbers are reused: `accept` returns the lowest
free number, exactly as the kernel does, so a number kept after its close would
denote another client.  The listening socket has an edge (`listenEdge`), a
client descriptor is armed until it is reported once (`EPOLLONESHOT`).
`AcceptDropped` is the failure of fcntl or epoll_ctl, `WaitFails` the end of the
loop and of the program.  The accept loop ends on any error of accept
(`server.c:834`): `AcceptFails` is EMFILE, or with `AcceptMayFail` any error at
any time, and `AcceptAborted` the error that takes its connection along
(ECONNABORTED).  The history variable `cutShort` is whether the last round of the
loop ended so; without it, as the properties say, no connection is left behind an
edge.  A response either goes out at once or leaves the worker in the loop of
send_all (`SendRest`), which ends when the client reads or is gone, and not
otherwise.

`HttpPool` puts server and pool together: it numbers the submissions (`order`)
and states that what the server does with its sequence is a behaviour of
`TaskPool`, the specification that `ThreadPool` implements.  The two steps of the
argument meet in that module: the pool keeps the promise, and the server's use of
it needs no more and asks for no more.  `MCHttpPool` is its instance for TLC.

### RangeHeader, HttpResponse, HttpResponseProofs

`RangeHeader` is `parse_range_header` as a function of what strtoll and the
comparisons see of the header, beside the definition of what a single byte
range means.  `HttpResponse` is one worker and one request: the answer chosen by
`handle_request` in the order of its tests, the header, then the read and send
loops with a socket buffer of `SockBuf` units.  The client reads, closes or
resets; a file may be edited (`MaxEdits`) after `fstat`.

### BlockingQueue

`push` is a section under the mutex and a `notify_one` after it; `close`
likewise.  Spurious wakeups are bounded by `MaxSpurious`.

### SharedCounters, PipeCopy

`SharedCounters` is both programs with a lock: a round is fetch_add, then the
guard's lock, the read and the write of the count, the unlock.  Read and write
are two steps, so that a guard that does not exclude would show.
`PipeCopy` is `pipe_demo.c`, with the four ends of the pipe after fork, and the
same loop of `cat_fd.c` over a file; reads and writes of the output may be
short, the child's message is below PIPE_BUF and goes in whole.

### RosBridge, MCThreadPrograms, ThreadProgramsProofs

The window's thread runs start() (`ClickStart`, `Create`), stop() (`Stop`,
`Join`) and the destructor (`Destroy`), the spinning thread runRosSpin
(`AddNode` to `RemoveNode`) with the callbacks that spin_some collected before it
runs them.  `held` says which members are not null.  m_running is written by one
thread and read by the other without synchronisation: the loop reads it again in
every round, since spin_some is opaque to the compiler, and `seen` is what it
reads, which follows some time later (`Propagate`).  `Signal` is Ctrl-C, which
rclcpp turns into a shutdown; between rclcpp::ok and the node's constructor it
makes the constructor throw, and before the executor
has the node it makes that throw (`AddThrows`): either ends the program (`aborted`).
Without ROS a QTimer of the window's own thread takes the place of all this.

`MCThreadPrograms` puts these three and `BlockingQueue` into one module: each
behaviour is a run of one of them, and the fairness is that one's.  Its constants
are those of the parts and get their values in `ThreadPrograms.cfg`, so that the
proofs are about every instance of it; the same holds of `MCSocketServers` and
`MCStudentPrograms`.

### StudentWindows, MCStudentPrograms

Any number of windows of either Qt demo on one table (`table`, with the history
of which insertion made a row).  A start is five statements (open, create,
count, two samples) and each is a step, so that the start of another window, or
a failure, falls between them.  `rows` is what a window shows, `selected` the id
it would act on, `picked` the student the user meant when he selected it.  A
write and the reload after it are two steps; the reload may fail, which
MainWindow tells (`warned`) and StudentModel does not.  Ids are those of the
schema's AUTOINCREMENT (`FreshId`).

### StudentStore, StudentDirectory, StudentProgramsProofs

An edit is CopyToTemp, RemoveFile, RenameTemp; the process may stop before,
between and after these, any fopen may fail (`EditNotOpened`), and a copy may be
cut short because fwrite and fclose are not checked.  The three scores are one
score, a name is whether it is empty.

A record has 72 bytes and stdio writes 4096 at a time, so a full disk or a crash
cuts a file inside a record as well as between two.  `torn` says which files end in
part of a record.  Nobody reads that part, and a copy leaves it out
(`update_student_to_file` reads whole records), but a registration appends behind
it: what is read from there as a record is the end of one and the beginning of
another.  Registration is therefore three actions in one: `AppendWhole`,
`AppendPart` (a full disk; the program reports success all the same) and
`AppendBehindPart`, whose record is any member of the constant `Garbled`, which
may be all of `Students`, with `NoName`, the empty user name, among the names.
(That everything appended later is out of alignment as well shows as one garbled
record per registration; what their parts spell is not followed.)  `MaxRecords`
bounds the file.

The history variable `trouble` records a *loss* (a crash or a short write), a
*double* (a registration that could not read the file while the user was in it,
or that appended behind a torn record) and a *clash* (a score for an id that
several records have, in particular 0, the id of every student who has not set
one).  `StudentDirectory` is the abstract promise: a directory in which every
operation changes one student atomically.  After a loss students may be missing,
but those who are there are as they were; after a clash one of the students who
shared the id is left (`Merge`); after a double a step may show one entry as
anything (`Garble`) and touches no other; after a double and a clash nothing is
promised.

### SelectServer, SocketServersProofs

`readfds`, `client_fds`, `client_count` and the descriptor table are separate
variables, as in the code, and one round is Select, at most one Accept, and the
scan of the slots against the `tempfds` of that Select.  The limit on
descriptors is chosen at the start, so that both the rejection of a client for
want of a slot and the failure of accept for want of a descriptor occur; accept
may also fail for any other reason (`AcceptFails`), taking the connection with it
or not (`AcceptAborted`).
`MCSelectServer` is its instance for liveness; its safety is checked in
`MCSocketServers`, beside the other servers.

### UdpEcho, MCSocketServers

A network of datagrams that may be lost, doubled and overtaken, with clients on
several hosts.  `kind` says which pair of programs runs.  The server answers to the
address that recvfrom stored; in the broadcast server that is only the port,
because client_len starts as the size of itself (`udp_broadcast/server.c:57`), and
so the reply goes to that port of the server's own host (`Reached`).  The client
waits for a reply without a timeout and prints whatever comes.

`MCSocketServers` is the composition of the select server, the epoll servers and
the UDP programs: a behaviour is a run of one of the three, and the other two
stay as they start.

### EpollServer, SocketServersProofs

Both versions over one environment, the version chosen in the initial state.
`edges` are the events epoll has to report.  Version 1 is `server.c`: blocking
sockets, one accept and one recv of `Chunk` units per event; `curfds` is both
its count and the maxevents argument.  Version 2 is `server_v2.c`: both loops go
on until EAGAIN and each recv is answered.  A send to a peer that has closed may
bring a reset, the first send after a reset reports it, and one more is SIGPIPE.

### FileTransfer, FileTransferProofs

`server_demo.c` and any number of `client_demo.c`.  An answer is three kinds of
writes, and a read returns any prefix of what has arrived; a unit of the stream
is eight bytes or more of one write, which is what the client reads for a size.
The server serves one connection at a time, the others wait in `backlog`.
`ReadResponse` is the client's strstr over one read, which may find the marker,
lose the size behind it, or take a size for an answer; the history variable
`slipped` records that the client has read out of step.  `Write` blocks on a full
buffer; to a client that is gone it is lost or ends the server by SIGPIPE.

The size is what fstat found; the contents are what read returns afterwards
(`SendData`): it may end before the size is reached, because read fails or the
file was truncated, and it may go on beyond it, by `MaxGrowth` units, because the
file grew.  The client counts what it reads (`got`) and not what its write took of
it, so that `saved` may have less; the history variable `lost` says so.  That a
file is edited in place while it is sent is not modelled.

### Containers, AbstractSequence, DataStructuresProofs

Each operation of the five files is an action; they share the variables: cells
that malloc hands out lowest first and free returns, the two ends, the size, and the array.  One lives at a
time (`kind`), and one action is one call of the library, with its loops and its
early returns.  `AbstractSequence` is the promise to the caller, a sequence, and
`ImplementsSequence` the refinement: items is what a walk from `first` finds.

### SearchTree, MazeSearch, MCDataStructures, DataStructuresProofs

`SearchTree` is the run of `bst.c`: insertions, a walk, a deletion, a walk.  `node`
says what is at each address, one for every insertion that may call malloc.  The
recursions of insert and deleteNode go down one branch and are functions from the
depth to the node they have come to (`Found`, `Rightmost`); the one of
search_middle takes both branches and is a function from the depth and the node
to what is written (`InOrder`).  `MaxN` addresses bound the numbers given.
`MazeSearch` is `MazePath`, one step per turn of the loop; the verdict "outside"
is the read of a square that does not exist.  `MazeAssumption` says of the mazes
what main's has and its search relies on: the open squares lie in the array, and
beyond the edge there is something to look at only from the start, when every
other way from it is used up, or from the end, where the search stops (`Enclosed`).  `MCDataStructures` puts these
programs, which do not interact, into one instance: each behaviour is a run of
one of them.

## 3. What TLC checks

| Run | Instance | What it shows |
|---|---|---|
| pool | 3 workers, ring of 2, 5 tasks, 1 spurious wakeup, pthread_create may fail | every pool property below, and the refinement of TaskPool |
| pool_init_hang | 2 workers, ring of 1 | violation: a failed start-up does not return |
| http | 2 clients, one too long, 2 descriptors, 2 workers, ring of 1, 2 segments, every fault | ownership of descriptors, replies, edges, liveness, and that the server is a user of TaskPool |
| http_emfile | 3 clients, 1 descriptor, 1 worker | violation: a failed accept leaves a connection pending although a descriptor is free |
| response | files of up to 4 bytes, chunks of 2, buffer of 3, numbers from -1 to 5, 1 edit | order, length and completeness of bodies, ranges |
| threads | 2 producers of 2 items, 3 consumers, 1 spurious wakeup; 2 threads of 2 rounds, 1 failed push; the bridge in both builds, 2 starts, 1 signal, 2 posted messages; 3 units through the pipe, 2 per read | exactly once, no lost wakeup or update, nothing used after it was dropped, everybody returns |
| students | 2 users, ids 0 and 1, 2 scores, 3 records, 3 garbled ones, every fault; 2 windows of either kind, ids up to 3, 2 writes | refinement of StudentDirectory, uniqueness, survival of the copy, torn records or not; what a window shows and acts on, the samples |
| students_crash | one id, one score | violation: a crash loses a student |
| select | 3 clients, 2 slots, 1 or 3 descriptors, 1 message each, every fault | everybody is served |
| sockets | both epoll versions, 2 clients, 3 units each, 2 per recv, 2 events per wait, every fault; 2 UDP clients on 2 hosts with 2 and 1 lines, 1 doubled datagram; the select server as in `select` | blocking, counting, nothing behind an edge; which replies a UDP client can print, and when it gets one; agreement of the select server's records, and that it never blocks |
| structures | 4 cells, 2 values, arrays of 3, 4 insertions into the tree, mazes of 3 by 3 inside a wall | refinement of a sequence, sorted walks, the search decides |
| transfer | 2 clients with 2 and 1 commands, or with 3 and none, 2 files, missing or of 0 or 2 units, growing by 1, 2 units per read, a buffer of 2 | what is saved, downloads end |

Why the bounds are enough for the hazards they are for:

- pool: five tasks go round a ring of two twice and a half, so head and tail wrap
  in every relative position and main blocks on a full ring; with three workers
  a signal can go to a sleeper while another worker is between its test and its
  wait and a third steals the task.  The proofs remove these bounds.
- http: with two descriptors both clients can be open, one number can be
  reused while the other client is queued, and accept fails before, between and after
  both connections; a ring of one makes submit block; with two workers one can be in
  send_all while the other goes on.
- response: a range can lie inside, at the ends of and beyond the file; a chunk
  can be sent in two parts; a body takes two reads.
- threads: three consumers for two producers leave sleepers at the close; two
  threads are enough to lose an update; a second start meets whatever the first
  left, and the one signal can fall anywhere; a message takes two reads and each
  read two writes.
- select: the third client meets a full table, and a slot or a number freed in a
  round is taken in the next.
- sockets: data, more data than one recv takes, and the end of the stream can fall
  behind one edge, as can two connections.  A second line of a UDP client can meet
  the late or doubled reply to its first; the second client shares host, port or
  neither with it.
- students: two records are the least that an edit can mix up; the third is for the
  second record of a user or a garbled one.  The garbled ones are of nobody, of a
  student who is no longer one (his role), and with a score nobody gave; the proofs
  take any.  The `VIEW` lets TLC identify states that differ only in a `temp.dat`
  or an `edit` that nobody reads before it is written again, and the windows are
  symmetric.  With three ids and
  two writes a window can hold a row that another deleted and a third replaced;
  two windows may start at once and find each other between count and insertion.
- structures: with four cells the doubly linked list has a sentinel and three
  nodes, so that a position is reached from either end and a middle node has
  neighbours that are not the sentinel, and freed cells are reused; four numbers
  make a tree whose deleted node has two subtrees, the left with a right branch;
  the mazes have detours, dead ends and start in the border or inside it, and
  ways longer than the stack's initial two.
- transfer: a file of 2 units is read in one piece or in two, and cut short or
  written short at either end; a third unit is growth, which stays in the stream for
  the next command; a buffer of 2 holds the end of one answer with the beginning of
  the next, and blocks the server; the first client's second command follows a
  complete, failed, cut or slipped download, and after a slip a third can arrive
  with it in one read; the second client waits its turn.

The main properties:

- pool: `TasksAccounted` (the ring holds the pending tasks in order, and each
  task is in one place or handled once), `NoLostWakeup`, `QuietWhenReturned`
  (after destroy, or a failed init, no thread is left and nothing is pending),
  `CallsReturn`, and the refinement of `TaskPool`, which with the fairness of
  that module says that every accepted task is handled.
- http: `OneHolder`: an open descriptor is held in exactly one of epoll, main's
  local, the ring and the workers, and a closed number nowhere.  `ReplyOnce`:
  one answer, to a client that sent something, and 400 exactly where the head read
  is incomplete or too long.  `NoStrandedConnection`: pending connections always
  have an edge, an event in the batch or the running accept loop, unless an error
  of accept ended that loop.  `EveryRequestConcluded`: if everyone reads, everybody
  who sends or hangs up is closed in the end, but for those whom such an error
  stranded.  `UsesTaskPool` is the refinement of `TaskPool` by the server: its
  safety always, its fairness if everyone reads.
- response: `BodySound`: `BodyInOrder` (consecutive bytes from the announced start,
  never more than Content-Length) and `CompleteUnlessCut`; `RangeAnswered`,
  `WorkerReleased`.
- threads: `NothingLost` (`EachItemOnce` and `NoLostWakeup`), `HeldWhileUsed` (the
  spinning thread finds every member it uses, and a stopped bridge has no
  thread), `CopiedInOrder`, and `EveryoneReturns`: main of the queue returns, the
  counters compare and find nothing lost, the pipe's processes end, stop()
  returns.
- students: `ImplementsDirectory`; `UsernamesUnique` (records with one user name are
  one record, or after a clash copies of one; only a registration that could not
  read the file or followed a torn record changes that); `CopySurvives`; of the
  windows, `WindowsTellTruth` (`AimsRight`: Update and Delete reach nobody but the
  student that was selected; `OwnWritesShown`: MainWindow does not hide that its
  list lacks its own write) and `SeedsRight`.
- select: `EveryClientServed`.
- sockets: `NeverBlocksNorForgets`: `CountMatches`, and `EdgesSuffice` (version 1
  does not block, version 2 leaves nothing behind an edge); `InStep`: whatever
  is lost or reordered, a UDP client prints the reply to the line it sent, unless a
  datagram was doubled, its own recvfrom failed or broadcast clients of two hosts
  have one port; `EveryoneServed`: leavers are closed, lines are answered.
  `NeverMisled` of the select server: its type invariant, `RecordsAgree` and
  `NeverBlocks`.
- structures: `WellLinked` and `ImplementsSequence` of the containers; `WalkSorts`:
  each walk of the tree lists in ascending order what it was given, each number
  as often as it was given, less the one deleted; `SearchDecides`: the search tells a
  way that is one, or that there is none.
- transfer: `WholeInStep`: a client that says it received a file has units of that
  file only, in order, and all of them unless its own write lost some, unless it
  was out of step; `EveryDownloadEnds`, except out of step, for a missing file and
  where the server ends an answer before the announced size (`CutShort`).

### Fairness

Every thread of the servers that can take a step eventually takes one: weak
fairness per thread or process (pool, threads, http) or of the one thread
(select, sockets, response).  Nothing is assumed of clients, faults, spurious wakeups, or of the
call that begins a submit or ends the loop.  In particular `SendRest` of the HTTP
server is not fair: send_all retries EAGAIN for as long as a client stays and does
not read (`server.c:253-275`), so one such client keeps a worker, and as many as there
are workers keep the pool.  The liveness of `http` is therefore stated under
`EveryoneReads` (no worker is in send_all for ever), and so is the fairness in
`UsesTaskPool`; the fairness of `Process` in the pool's own module is the same
assumption, that process_client_connection returns.  Weak fairness is enough for the
mutex of the pool because the tasks and the wakeups that compete for it are
bounded.  `WorkerReleased` assumes that a client either reads or leaves and that
TCP delivers: the code has no timeout, so a silent client keeps a worker.  The
liveness of the servers is for clients that send finitely often; version 2 of
the epoll server would stay in its recv loop with a client that never pauses.
In `sockets` the UDP servers and clients go on, and a datagram that was not lost
arrives; whether one is lost is nobody's duty.  In `threads` the write of m_running
reaches the other thread in the end, callbacks return, and a call that fails (a
read of the pipe, a push) is never owed, so that a reader that would wait for ever
is not freed by an error.  In `transfer` the server and the reads of each client go on; the users owe
nothing, neither a command nor a departure.  `structures` has safety only: the
programs are sequential and their loops end inside a step, except the search,
whose steps are bounded by its marks.

### Deadlock

Deadlock is checked where the only legal stop is the end of the program, which
the modules state as `Finished` and `Ended` (http, threads), and in `students`,
where a menu or a window always offers a step.  It is off in `pool`, where a
failed start-up may wait in pthread_join for ever (the subject of
pool_init_hang), in `response` (the process may be killed), in `select` and `sockets`, where the clients may have said all they
will, in `structures`, where the tree and the maze programs end, and in
`transfer`, where a missing or cut file makes client and server wait for each other.

## 4. What is proved

`ThreadPoolProofs`, for every number of workers, every ring size, every number
of tasks and of spurious wakeups, from `ConstantsAssumption` alone:

- `TypeCorrect`, `TasksCorrect`, `WakeupsKept`, `ReturnsQuiet`: the safety
  properties of the run `pool`, TypeOK, TasksAccounted, NoLostWakeup and
  QuietWhenReturned; `RingCorrect`, `ExactlyOnce`, `DestroySafe` and `FailSafe`
  are the two conjuncts of the second and of the fourth;
- `Invariance` (`Spec => []IInv`), from which they follow, and `NeverRejected`
  (`SubmitNeverRejected`: the branch of thread_pool_submit that refuses a
  descriptor is dead);
- `ImplementsSafely`: every behaviour of the pool is one of `TaskPool!SafeSpec`.

None of the properties is inductive.  `RingHoldsPending` needs to know that a
put happens only when the ring is not full and a take only when it is not empty,
which is a fact about the thread that is inside the section and therefore about
the mutex.  `IInv` adds three groups.  *Control* ties the mutex, the wait sets
and `stop` to the places of the threads: whoever is between lock and unlock
holds the mutex, and `stop` changes only where main is.  *Waits* says what a
thread knows that is about to sleep, sleeps or has exited: the ring was empty, or
full, and the mutex has kept it so.  *Accounting* says where each task that left
the ring is: with one worker or handled.  Initiation, consecution (one step per
action, one below it per conjunct the action can disturb) and the consequences
are separate lemmas; the temporal steps are the usual rule of invariants.
The wrap-around `(a + 1) % QueueSize` is a lemma (`NextSlot`).

The other modules of proofs follow the same pattern: an inductive invariant, one
lemma per action and, where an action touches few variables, a lemma about what
all such steps leave alone; then the properties as its consequences.  TLC checked
every one of these invariants on the runs' instances before it was proved.  Why
each is needed:

| Module | For every | Proved | What the invariant adds to the properties |
|---|---|---|---|
| `HttpServerProofs` | set of clients, number of descriptors, workers, slots of the ring, segments | `TypeCorrect`, `HeldOnce` (OneHolder), `AnsweredOnce` (ReplyOnce, an action property), `NobodyStranded` (NoStrandedConnection), `UsesPoolSafely` | OneHolder counts holders, which no step can be followed through; the invariant says that the places of a number exclude each other (*Apart*) and that every open one has one (*Known*), what an event in the array may denote (*Events*), and whom a number denotes (*Connected*). What a worker has read of its client's head, and what is left unread, decide between an answer and 400 (*Counted*, *Untouched*). |
| `HttpResponseProofs` | size of files, chunk, socket buffer, number of edits | `TypeCorrect`, `BodyCorrect` (BodySound), `RangesAnswered` (RangeAnswered); `RangeInsideFile`, `RangeExact`, `RangeRefused` of the header's parser alone | *Body* relates what was sent, what send_all still holds, the file offset and content_len; *Inside* says that the announced run lies in the file until somebody edits it. |
| `ThreadProgramsProofs` | set of producers and consumers (finite set of threads for the counters), length, buffer, number of starts, messages, signals, failures | `QueueCorrect` (NothingLost), `HeldThroughout` (HeldWhileUsed), `CopyInOrder` (CopiedInOrder), `CountedRight`, `TypesCorrect` (TypesOK) | Of the queue, the places of a number exclude each other, as in HttpServer. Of the bridge, which members are held at each place of each thread. Of the copies, that output, the rest of the buffer, the pipe and what is unread are the message, in this order. Of the counters, that `count` is the number of (thread, round) pairs whose write is done: a set, since a sum over the threads would need induction. |
| `SocketServersProofs` | finite set of clients, chunk, length of the events array; set of clients of the select server, number of slots, descriptors and messages; set of UDP clients, hosts and ports, number of lines and doubled datagrams | `EdgesTrusted` (NeverBlocksNorForgets), `SetsTrusted` (NeverMisled), `StaysInStep` (InStep), `TypesCorrect` (TypesOK) | Between the calls at which the property speaks, an event has to be followed through the batch: *Announced*, *StillReadable*, and that no event is in a batch twice. Of the select loop, what is left of select's answer is still true when the loop comes to it (*Answer*): no step makes a descriptor unreadable that is still to be served. Of UDP, whose every datagram is and where it can go (*Asked*, *Answered*), and that an undisturbed client has at most one under way, about its last line (*OneUnderWay*). |
| `StudentProgramsProofs` | sets of users, ids, scores and garbled records, number of records; set of windows, number of rows and writes | `TypeCorrect`, `OneRecordEach` (UsernamesUnique), `CopyKept` (CopySurvives), `Implements` (ImplementsDirectory); `TruthTold` (WindowsTellTruth), `SamplesRight` (SeedsRight), `TypesCorrect` (TypesOK) | Between the three steps of an edit, its contents are one change away from the file (*Prepared*, *OneChange*: of one student, of those who share an id, or of one entry by a doubled record), the copy is those contents or a beginning of them (*Copied*), records of one name are alike (*Singles*) and the session agrees with the record in what its student cannot edit (*Mine*), both until a registration doubles or garbles a record. Of the windows, an id is the number of an insertion, in the table and in every old list (*Numbered*), a selection stands for such a number (*Aimed*), and at most one window is between counting and inserting, with what it has inserted so far (*OneSeeds*, *Sown*). |
| `FileTransferProofs` | set of clients, sizes, growth, chunk, buffer | `TypeCorrect`, `DownloadWhole` (WholeInStep) | Client and server are in one answer, the client behind, and what lies between them is in the stream (*Exchange*), which of it the client has counted and which kept (*Kept*); between answers nothing is under way (*Quiet*), or contents of a file that grew, over which the next read is bound to slip (*Spoiled*). |
| `DataStructuresProofs` | set of values, finite set of cells, capacity of the array; numbers of the width of an int, any number of them; size of the maze and of the stack, set of enclosed mazes | `NeitherLeaksNorDangles` (WellLinked), `Refinement` (ImplementsSequence), `TreeSorts` (WalkSorts), `DepthFirstDecides` (SearchDecides) | WellLinked and the abstract sequence speak of walks, which no assignment to a link can be followed through; the invariant names the sequence of cells and says of each cell only what its own link is (*Lead*, *Back*), and that these cells, and the sentinel, are all that is in use. Of the search, the stack is a way over marked squares (*IsWay*), each square on it has tried the directions before the one it left by (*Tried*), and of a square that was given up every neighbour is marked (*GivenUp*), so that when the stack is empty the marks are all that can be reached (*Settled*). Of the tree, each node has an interval of numbers, those for which a search comes to it (*Fits*): a child takes the part of it on its side of the node's number (*Leftwards*, *Rightwards*), where there is no child no node's number is in that part, and two intervals are one inside the other or apart (*Nested*, *Above*). Each count is how often its number was given (*Counted*). |

Six results go beyond single properties:

- `ImplementsSafely` of the pool and `UsesPoolSafely` of the server meet in
  `TaskPool!SafeSpec`: main submits only while the pool is open and has room, and
  what the pool promises is all the server relies on.
- `Implements` is the whole of `ImplementsDirectory`, for StudentDirectory states no
  fairness: a file rewritten in three steps, with crashes and short writes
  between and within them, inside a record too, is a directory of atomic changes,
  and the damage of shared ids and garbled records is what `StudentDirectory` allows.
- `Refinement` is the whole of `ImplementsSequence`, for five containers over one
  memory: every call of each of them is one step of a sequence, in memory of any
  size, whichever malloc fails.  That what the caller sees is a walk, and that the
  walk ends, is an induction over its length, which is done on a set of naturals
  (`Induction`); that the walk, a function defined by recursion, has the values of
  its defining equation is `Recursion`.
- `TreeSorts` is about a recursion over both subtrees.  That it ends within `MaxN`
  levels follows from the numbers: the nodes in a child's interval are fewer than
  those in its parent's, by at least the parent (`SubFacts`), so an induction over the
  number of nodes in an interval covers every walk (`WalkFacts`).  The intervals make
  the two changes of the tree local: a node hung in an empty half (`HangLeft`,
  `HangRight`), and a node taken off, after which the interval of a node below it grows
  by what the deleted node parted (`TakenOff`); since the walk lists the nodes in the
  order of their numbers whatever their links are, a deletion can lose nothing.
- `NobodyStranded` has no hypotheses: with any number of clients and descriptors, a
  pending connection without an edge, an event or a running accept loop means that
  the loop's last round ended with an error other than EAGAIN (`cutShort`).  The run
  http_emfile shows that this happens and what follows.
- `PartsSpec` (in four modules): a behaviour of a composition such as MCSpec of
  MCThreadPrograms is one of each part, so that what is proved of a part holds in
  the runs' specifications.  The tree and the maze search start only in the
  behaviours that run them, so `PartsInvariance` of `DataStructuresProofs` is about
  the composition itself: the invariant of whichever program runs.

The assumptions are those that the modules name (ConstantsAssumption,
CountersAssumption, UdpAssumption and so on) and TLC evaluates: sizes are positive,
markers such as NoFd are not values, the sets that are counted are finite.
The modules that a composition instantiates name theirs as operators
(`SelectAssumption`, `TreeAssumption`, `MazeAssumption` and so on), and the composition
assumes them all (PartsAssumption).  That of the tree says that a number is an int;
its theorem needs no more of the numbers than that they lie between two bounds.

Three matters of form.  A least element, such as the lowest free descriptor or the
first record found, exists because the order of the naturals is well-founded
(`WFMin`); arguments that are usually inductions take the least counterexample
instead, such as that the n-th row of a list exists (`NthIsThere`), or the lemma
`Induction`, which speaks of a set of naturals where the library's speaks of a
predicate.  Steps with a
choice of several arms are IF chains or disjunctions rather than CASE.  A module
that is used through INSTANCE has its own copies of Cardinality, SetToBag and the
sum of bags; small lemmas (`SameCardinality`) identify them with the library's.

Only model-checked:

- liveness under fairness and anything about ENABLED: CallsReturn,
  EveryRequestConcluded, WorkerReleased, EveryoneReturns, EveryClientServed,
  EveryoneServed, EveryDownloadEnds, and the fairness in ImplementsTaskPool and
  UsesTaskPool, of which the theorems prove the safety part.

## 5. Where the code departs from what it says

Three departures are runs that TLC must refute:

- *pool_init_hang*: the failure path of `thread_pool_init` sets `stop` and
  broadcasts without the mutex (`server.c:704-706`); a worker that has tested
  the predicate and not yet gone to sleep misses both, and pthread_join waits
  for it for ever.
- *http_emfile*: an accept that fails, for want of a descriptor here, leaves the
  loop (`server.c:834`) with connections pending behind an edge that has been
  consumed; when a descriptor is free again nobody looks, and they wait for the next
  client.  The property asks for no more than that a pending connection is accepted
  if a descriptor is free from then on.
- *students_crash*: the data file is removed before the copy is renamed
  (`student.c:192`).

Others are in the models as behaviour, and no property claims their absence:

- `Sigpipe` (HttpResponse, EpollServer version 2): send without MSG_NOSIGNAL,
  and SIGPIPE is not ignored, so a client that hangs up can end the process.
- HttpResponse: error answers to HEAD have a body (`server.c:358` and the
  answers of handle_request); `bytes=0-abc` is read as 0-0 and answered by 206;
  a suffix range of an empty file gives start 0 and end -1; a directory is
  served with 200, its st_size as Content-Length and no body.
- StudentStore: modifying the score of id 0 turns every student without an id
  into the first one (`admin.c:305`); registration takes a file it cannot read
  for an empty one (`register.c:36`); short writes are not noticed
  (`student.c:181`, and `register.c:90`, where fclose writes: the user is told that
  he is registered); a file that ends inside a record makes the next registration a
  garbled record; a second record of a user is edited by one edit and not by
  another; MAX_STUDENT is not enforced.
- SelectServer: while a connection is pending that accept fails for, for want of a
  descriptor or otherwise, the loop never reaches the clients (`server.c:83`), which
  is the exception `Starved` of its liveness properties; the limit is on slots, so FD_SET may be
  given numbers from FD_SETSIZE on.
- EpollServer version 1: of two connections behind one edge the second waits for
  a third; what one recv leaves waits for the next send; data and the end of the
  stream behind one edge leave the descriptor open; a reset ends the server.
- FileTransfer: a read that returns the marker together with what follows, or a
  failed fopen of the client, puts the client out of step; it may then save
  other bytes and print "File received successfully!", and main prints
  "文件下载完成" (`client_demo.c:187`) whatever receive_file returned.  For a file
  that is missing the server sends the marker and no size
  (`server_demo.c:31-35`), and both wait.  They also wait for each other when the
  server's loop ends before the announced size, because read fails (a directory, a
  bad disk) or the file was truncated (`server_demo.c:52`).  When the file grew, what
  is sent beyond the size is taken for the next answer.  The client's write is not
  checked (`client_demo.c:64`), so on a full disk it reports a file that is not whole.
- Containers: pop and dequeue answer -1 for an empty container, which a caller
  cannot tell from a -1 that was stored (values here are positive).
- SearchTree: deleteNode answers 0 after a deletion below the root
  (`bst.c:95-99`, against the comment at line 60).
- MazeSearch: Pass and FootPrint test with `>` and only upper bounds
  (`mazeDemo.c:201, 209`), so that a maze without a way and with a start in the
  border is searched outside its array.

- UdpEcho: neither program has a timeout, so a lost datagram blocks the client
  until the next reply to its port, and after a doubled one every reply it prints
  is to an earlier line.  The broadcast server passes 4 as the length of
  client_addr (`udp_broadcast/server.c:57`), so it replies to its own host: only a
  client on the server's host is answered, or one there that happens to have the
  port of the client that asked.
- The Qt windows: a change that was made but could not be read back is reported
  as a success, and the list stays as it was (`StudentModel.cpp`, the last lines
  of its three operations); a refused operation reloads nothing, so a list that
  another window made stale stays so until an operation succeeds; an update writes
  every field of the form, so of two windows that change one student the second
  undoes the first; MySQL counts changed rows, so an update that changes nothing
  is reported as "No row updated. The id may not exist."; seeding that stops half
  way is never completed, for the table is no longer empty.
- RosBridge: after Ctrl-C the spinning thread ends while m_running, the button
  and the label still say that it runs; a Ctrl-C between rclcpp::init and the
  node's constructor, or before the spinning thread has added the node
  (`RosBridge.cpp:103`), ends the program by an exception nobody catches; messages
  posted before stop() may be shown after "stopped".
- PipeCopy: pipe_demo returns 0 although its output or its read failed.
- SharedCounters: main ignores the -1 of a push whose allocation failed.

## 6. Not modelled

- Start-up of the servers (socket, bind, listen) beyond its result; of the paths
  in the HTTP server everything but the first test that fails; MIME types.
- The prints of `bst.c` in the other two orders, the other prints of the data
  structures, calls with a NULL container, and the generic macros of `list.h`.
- In FileTransfer, the menu's invalid commands, which send nothing, local input, and
  files edited in place while they are sent.
- The view operations of the student system, which only print, and
  `migrate_data.c`, a one-shot conversion.
- Of IO_programming, dup_redirect, pread_demo and mmap_cat (a few system calls
  each), and the failures of pipe, fork and open, which end the program at once.
- pop of RAII_lock_wrapper, which no program calls; the fgets of the UDP clients at
  the end of their input, which neither checks; the start-up of the UDP programs
  beyond its result.
- Of the Qt demos, the contents of a form (one value), validation and wording, the
  layout, the row a QTableWidget makes current when it gets the keyboard focus, and
  what a status does that the bridge emits to a window already being destroyed.
- MySQL_server: its programs are templates, some with parts to be filled in by the
  learner, in which every menu entry is one statement for a database outside the
  repository; nothing is kept between two statements.
- The language demonstrations, the smart pointers and pthread_demo among them:
  each prints what a feature of the language does, and the threads of pthread_demo
  share only their output.  QLable_demo, quick3d and the skeletons have no state.

## 7. Plan

Every component that keeps state between its steps has its module, and every
safety property that a run checks is proved for any size.  What is left for the
tools is what they cannot do here: liveness stays with TLC.  Of the code, the
failures of malloc in `bst.c` and `mazeDemo.c`, which the programs do not check, and
the macros of `list.h`, which nothing in the repository uses, would come next.
