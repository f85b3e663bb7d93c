# Verification of the AESD character driver, socket server and examples

This directory holds TLA+ models of this repository's programs, the TLC runs
that check them on small instances, and TLAPS proofs for every instance.
`PROJECT.json` lists components, runs, mutants, the map from definitions to
source lines, findings, hazards and theorems.

## The system

| part | state | operations | hard behaviour |
|---|---|---|---|
| circular buffer (`aesd-char-driver/aesd-circular-buffer.c`) | 10 slots, `in_offs`, `out_offs`, `full`, `char_size` | init, add entry, two searches | empty and full look alike; incremental `char_size`; who frees the dropped entry |
| driver (`aesd-char-driver/main.c`) | the buffer, the unfinished line (`line_buf`, `line_len`), a mutex; `f_pos` per open file | open, release, read, write, llseek, ioctl, load, unload | concurrent calls, allocation and user-memory failures in the middle of a write, signals while waiting, `f_pos` shared outside the mutex |
| socket server (`server/aesdsocket.c`) | list of handler threads, the shared data file descriptor, the listening socket, signal flag | setup, daemon mode, accept, receive packets, write them, execute seek commands, send the file back, time stamps, shutdown | threads share one descriptor and its position; blocking calls against shutdown; which number a descriptor gets |
| byte vector (`server/vector.c`) | array, length, capacity | init, append, carry over, close | growth by doubling; overlap on carry over |
| system calls example (`examples/systemcalls/systemcalls.c`) | the process's children and descriptors | `do_system`, `do_exec`, `do_exec_redirect` | `wait` returns any thread's child; `open`, `fork` and `execv` fail one by one |
| `examples/threading`, `finder-app` | little | a thread with a timed mutex; a file writer | |

The server's handler threads open the device the driver provides (or a plain
file in the other build) and use it through one shared descriptor: they write
a packet, seek with the driver's `AESDCHAR_IOCSEEKTO` ioctl, and read the whole
device back.  The driver owns one circular buffer; the buffer stores pointers to
memory the driver allocates and frees.

What makes each part correct: the buffer holds the most recent entries in
order, hands dropped memory back exactly once and finds every byte; the driver
never touches memory it does not own, leaks nothing, always gives the mutex
back, and its reads and writes are atomic; the server sends each client the
file as it is after its packet, and terminates when it is told to; a call of the
example reports its own command's outcome, sends its output where it was asked
to, and leaves no child behind.  Where the code does not do so, it is said below
(*What the violations show*, *What else the code does not keep*).

## Modules

| module | models |
|---|---|
| `CircularBuffer` | the functions of the circular buffer as operators on records with the fields of the C structs |
| `CircularBufferSpec` | the buffer alone as a state machine, and its properties |
| `EntryLog` | its contract: a log of the `MAX` most recent entries |
| `AesdChar` | the driver: `EXTENDS CircularBuffer` |
| `LineDevice` | the driver's contract: atomic reads and writes on a list of lines |
| `AesdCharLines` | the driver with a history variable, shown to implement `LineDevice` |
| `Vector` | the functions of `vector.c` as operators |
| `RecvLines` | the receive path of `handle_connection`: `EXTENDS Vector` |
| `AesdSocket` | the server: main, handler threads, timer, clients, descriptors |
| `SystemCalls` | the system calls example: calling threads, children, descriptors, output |
| `LeastNumber`, `RingProofs` | lemmas: induction by a least counterexample, the operators of `CircularBuffer` |
| `CircularBufferProofs`, `AesdCharProofs`, `AesdCharLinesProofs`, `RecvLinesProofs`, `AesdSocketProofs`, `SystemCallsProofs` | the theorems about the module of that name |
| `MC...` | the requests, chunks and scripts of the runs |

Definitions named after a plausible bug and introduced by `Mutation:` are used
by nothing in the models.  Each shows that a property can fail: substituted for
the definition after it, it makes TLC report the property violated.

### The circular buffer

The loops of the two searches are one walk: `Continues` is the loop condition,
`Slot` the element looked at, `CountBefore` the running count.  `MAX` is any
number of slots a `uint8_t` can index.

### The driver

`dev->buf`, `line_buf`, `line_len` and the mutex are variables of these names.
`heap` maps each address to the bytes of the object allocated there, so that a
use after free, an overrun or a leak is visible; bytes of fresh memory are
`UNINIT`.  `call[p]` is the system call process `p` is in: its program counter,
its request, its private position and its result.

| code | actions |
|---|---|
| system call entry and the checks before the lock | `Enter` |
| `mutex_lock_interruptible` | `Lock`, `Interrupted` |
| `aesd_read` | `aesd_read` |
| `aesd_llseek`, `aesd_ioctl` | `aesd_llseek`, `aesd_ioctl`, `StoreSeek` |
| `aesd_write` | `aesd_write` and `aesd_write_no_room` (the first allocation), `aesd_write_byte`, `aesd_write_line`, `aesd_write_fault`, `aesd_write_no_entry` (a pass of the loop), `aesd_write_done` |
| system call return | `Leave` |
| open, release, load, unload | actions of the handler's name |

A handler's accesses to the device are protected by the mutex, so a step may
cover as much of a handler as long as it touches `filp->f_pos` at most once.
The system call layer copies the position before `read` and `write` and stores
it back afterwards; for a character device it does so without a lock, and also
after a `write`, which does not move it.  `FailSites` names the kernel services
that may fail in a run.  `SIZE_T` stands for 2^64, the number of values of the
type to which `llseek`'s comparison converts.

### The receive path

`RecvLines` is one handler thread from `recv` to `write`, byte by byte: chunks
of any shape, a growing buffer, short writes, carry over.  `vector_append` is
split at the passes of its loop.  `memcpy` in `vector_carryover` is called on
overlapping ranges, which C leaves undefined; `CopyOrders` says which results
are possible.  The run takes the result of current C libraries (as if copied
from the start); with the other one, `NothingLost` fails.

Both builds are in the model: `device`, which never changes, says which.  With
the device, `PutTerminator` replaces the byte behind a line by a zero byte and
`ScanLine` is the `sscanf` on the string that then starts at `written`, with what
follows it up to where the two ways meet: a command is executed and skipped,
anything else is written, and the byte is put back on either way.  A command is
a `NAME` and a `NUMBER`; `sscanf` skips ends of lines before a number, so that
only the terminator keeps it from reading on.

The byte behind a line may lie behind the buffer.  The code does not look:
`PutTerminator` then sets aside whatever is there (any byte), the store changes
none of the vector's bytes, and the ghost `overrun` records that it has happened.
What such a store does to its true owner is not modelled; the thread goes on as
if nobody had missed the byte, and `ScanLine` stores it back.

### The server

`AesdSocket` takes lines as its data.  `fds` is the process's descriptor table:
each number is free, one of the standard descriptors the process was started
with (`Std`), `/dev/null`, the socket of the system log (if there is a `LOGGER`;
`openlog` is called before anything else and takes the lowest number), the
server's own socket, a client's socket, or an open file with its position.  The
lowest free number is handed out next.  A system call looks its descriptor up
when it is entered and acts on what the number means at that moment, so a stale
`data_file.fd` reaches a closed descriptor or a client's socket as it does in the
program.  A call that has to wait stays on the socket it has found: `waits_on[t]`
is the client thread `t`'s call waits for.  Closing the number, or giving it to
another file, neither wakes the call nor moves it; only that client's sending,
reading or closing does.  The accepted sockets are blocking, so `recv`, `send`,
and, when `data_file.fd` has become a socket, `read` and `write` can wait, the
last three with `data_file.mtx` held.

| code | actions |
|---|---|
| `handle_connection` | `packet`, `recv`, `recv_ends` (outer loop and receiving); `ioctl`, `lock_write`, `write`, `write_fails` (a line); `close_data`, `open_data` or `lock_lseek`, `lseek` (rewinding); `lock_read`, `read`, `read_ends`, `send`, `send_fails` (the reply); `waits` (a call blocks); `no_memory` (an allocation fails: behind `recv`, behind the write loop, before or behind the `send` of a line); `thread_cleanup` |
| `write_timestamp` | `write_timestamp_lock`, `write_timestamp`, `write_timestamp_waits` |
| `main`, setup | `main_bind`, `daemonize`, `main_listen`; `gives_up` (a failed call, or a signal before the handlers are installed) |
| `main`, accept loop | `main_top`, `accept`, `accept_fails`, `no_node` (`malloc` of the list node fails), `spawn`, `reap`, `scan_ends`, `drain`, `cleanup` |
| `sig_handler`, `SIGPIPE` | `sig_handler`, `sigpipe` |
| clients (external) | `connect`, `client_send`, `client_read`, `client_close` |

`spawn` may leave the thread uncreated, which the code does not notice.  With
`DAEMON`, `daemonize` is the child's part; the parent closes its copies and ends.
What clients do is a plan chosen at the start: the lines each sends, whether
they are patient and connect one after the other, and how often the timer
expires.  A client closes when it has its answer, the clients in `Hasty` at any
time.

`USE_AESD_CHAR_DEVICE` selects the build.  The device keeps `MAX` lines and its
`write` leaves the position alone, as `AesdChar` has it; the plain file is
written at the position.  Lines are taken to have one length, so a line written
over another replaces it exactly, and a line is read in one step: what happens
between two bytes of a line happens between two lines as well.  `open` and the
store of its result are one step; two handlers that open at the same time leave
one descriptor unused in either order.  `lseek` to the start of a plain file
does not fail.

### The system calls example

Threads of one process call the three functions again and again, and another
part of the program has children of its own.  `call[t]` is the call thread `t`
is in or has returned from, `proc[p]` the child with pid `p`: forked, running its
command, ended (a zombie), or reaped.  A child gets a copy of the descriptor
table, and since it has one thread and memory of its own, `dup2`, `close` and
`execv` are one step.  `wait` returns any child that has ended, for any thread;
without children it fails at once and the loop around it goes on, which changes
nothing.  `system` is external: it waits for its own child, and fails when
another thread's `wait` was first.  `sink` collects whose output went where, and
opening `outputfile` empties it.

| code | actions |
|---|---|
| a call, and its arguments | `Call` |
| the parent | `open`, `open_fails`, `fork`, `fork_fails`, `close`, `wait` |
| `system` in `do_system` | `fork`, `fork_fails`, `system_waitpid`, `system_no_child` |
| the child | `child_execs`, `child_exits` (`dup2` or `execv` fails) |
| the command, the rest of the program (external) | `command_ends`, `host_fork` |

## Runs

| run | question | bounds |
|---|---|---|
| `ring` | does the buffer implement `EntryLog`, count its bytes, and find every byte? | 4 slots, 2 addresses, sizes 1 and 2: every offset and every mix of sizes after a wrap |
| `driver_faults` | do mutex, memory and stored lines survive every failure? | 2 slots, 2 processes, every service may fail, 5 addresses (2 entries, the line, a new entry, one lost) |
| `driver_calls` | are the calls linearizable, and do seeks land where they should on a shared file? | two lines and an unfinished one; writes that hold a piece of a line and more than a line, and every handler with arguments for its early returns |
| `driver_live` | does every call return? | 1 slot, writes of more than a line against a read, a seek and an ioctl; allocations and waiting may fail |
| `driver_krealloc` | is all that is stored what was written? (no) | as `driver_faults` |
| `recv_lines` | is every complete line written or executed, exactly once and whole, and does the thread never wait with one in its buffer? | both builds, first capacity 2, chunks of 1, 2, 3 and 5 bytes, 7 bytes in all: two doublings for one chunk, carry over with and without overlap, a line that ends at the capacity, a command and one that only the next line completes |
| `recv_bounds` | does the thread write only to bytes it has allocated? (no) | as `recv_lines`, build with the device, no failing `malloc` |
| `server_file` | in the build with a plain file: who owns descriptors and mutex, where can a time stamp go, and what can keep a packet from being handled, or the server from ending? | 2 clients at once with a line each, or one with a line, one without and 2 time stamps; one may leave at any time |
| `server_device` | in the build with the device: are mutex and listening socket safe from confused descriptors, and are replies right when clients come one at a time? | device of 2 lines, started as a daemon without a standard input, so that the log's socket is 0; two clients at once (3 lines, or a line and a seek command), or one after the other with 5 lines and commands in every grouping; socket buffers of one line; allocations and `pthread_create` may fail |
| `server_stuck` | does a handler finish its packet? (no) | device; a client with a line and one with a seek command, both of which read and close |
| `server_release` | is the data file closed when nobody uses it? (no) | 2 clients with a line each |
| `exec` | do result, output and child belong to the right call, and does it return? | 2 threads, any functions and outcomes, 2 children in all (two calls at once, or a call and another's child), one descriptor for `outputfile`: a leaked one makes the next `open` fail |

Eviction needs more lines than slots, and what an eviction does does not depend
on the number of slots (the proofs cover every number), so two slots suffice
for the driver.  `MaxLine` bounds the unfinished line together with the data of
the writes under way, `MaxLost` the objects lost by `krealloc`.  Addresses and
processes are interchangeable and used as symmetry sets in the runs without
liveness.

Fairness (`driver_live`): every process in a system call keeps running (`WF`
of its steps), and a process that waits for the mutex gets it if it is free
again and again (`SF` of `Lock`), since the kernel's mutex hands over to its
first waiter.  No process is assumed to start a call or to be interrupted.

Fairness (`recv_lines`): the passes of `vector_append` go on; `malloc` need not
fail.

Fairness (`server_file`): every thread of the server keeps running (`WF` of its
steps; a thread that waits for the mutex gets it eventually because the others,
with finite input, stop asking for it).  Nothing is assumed of the clients, which
the code cannot make do anything: they need not connect, send, read or close.
`ShutsDown` and `PacketsHandled` name the state in which the server waits for one
of them instead.

Fairness (`server_stuck`, `server_release`): these violations are found even if,
beyond that, every connected client sends what it has, reads, and closes when it
has its answer.

Fairness (`exec`): threads and children keep running, and commands end.

### What the violations show

`driver_krealloc`: `dev->line_buf = krealloc(dev->line_buf, ...)` overwrites the
only pointer to the started line when it fails, and `line_len` keeps the length
of the lost bytes.  The next write allocates a new buffer, stores its data behind
that many bytes nobody has written, and the line is stored and read with them.

`recv_bounds`: with the device, `*(new_line+1) = '\0'` is behind the buffer if
the line ends with a full buffer, since `vector_append` grows only when the data
do not fit.  A line as long as the buffer does it: one of `VECTOR_BASE_SIZE` (4096)
bytes, or of a doubling of it.  Allocators that round sizes up hide it.

`server_stuck`: handlers rewind the device by closing and opening the shared
descriptor, outside of the mutex.  When two do so at a time, one closes what the
other has just opened, and a client's socket can get the number in
`data_file.fd`.  A handler that then locks the mutex and reads waits for that
client.  The client has sent its line and waits for its answer, and its own
handler waits for the mutex: nobody is left to make a step, although every client
is well-behaved.  In the run the handler waits for its own client, which takes two
connections; with three it may be any other.

`server_release`: connections are reaped, and the file closed when none is left,
only behind an `accept` that has returned a new connection.  The last client's
handler is complete, its socket and the data file stay open, and the driver
cannot be unloaded until somebody connects again or the server ends.

### What else the code does not keep

Met while modelling, reachable in the models, and the reason for the conditions
of some properties:

- *Replies* (`aesdsocket.c`, 260-278).  When two handlers rewind the device before
  either reads, the first reads to the end and the second starts there.  The
  plain file is rewound in a critical section that ends before that of the read
  begins; another thread may use the position in between.  So `ReplyIsFile` is
  stated for clients that come one at a time with the device, as is `NoFdLeak`.
- *Shutdown* (178, 540, 566).  A handler whose client is silent is in a blocking
  `recv` and does not look at `sig_received`; a connection whose thread could not
  be created is never complete.  `ShutsDown` names the first and is checked without
  the second.
- *Time stamps* (479, 557).  `data_file.fd` keeps the number of the closed file,
  and the next `accept` returns it: a time stamp may go to that client.
  `StaleWindow` says when at most.
- *Daemon* (443-445).  Nothing has closed 0, 1 and 2 when `open("/dev/null")` and
  `dup(0)` are called, so the three results are new descriptors (`DaemonFds`) and
  nothing is redirected.
- *Memory* (251).  When the `vector_init` behind a packet fails, which is not
  looked at, the capacity is 0, and the next `vector_append` doubles it for ever.
  `AppendReturns` excludes it.  `NothingLost` is stated for a `memcpy` that copies
  from the start on.
- *Driver*.  `NoLeak` does not count an object that a failing `krealloc` has lost
  (`main.c`, 170).  A write that runs out of memory behind a complete line fails
  with `ENOMEM` although it has taken lines (222); `LineDevice` permits it.
- *System calls example*.  When two threads wait at the same time, one may be
  handed the other's child; the other then asks `wait` for ever (73, 128), which
  `CallsReturn` excludes.  When `fork` fails, `do_exec_redirect` returns with
  `outputfile` open (114-116), although the comment above it (87) says that it
  will be closed: `fork_fails` leaves `fds` alone, and no property says otherwise.

## Proofs

Every invariant, action property and refinement that a passing run checks is
also a theorem, for every value of the constants that the assumptions below
allow.  Assumptions on constants say what the code relies on: `MAX` fits a
`uint8_t`, lines and sizes are not empty, the descriptors a process starts with
are standard ones, model values differ.  TLC evaluates them on the instances.

| theorem | for | hypotheses beyond the module's |
|---|---|---|
| `TypeCorrect`, `RingShapeCorrect`, `CharSizeCorrect`, `ImplementsLogCorrect`, `FindsPositionsCorrect`, `FindsBytesCorrect` | circular buffer | |
| `DriverTyped`, `MutexHeldExactly`, `MemorySafe`, `NothingLeaks`, `LinesOnlyGrow` | driver | none: any service may fail |
| `PositionsStayInside`, `SeeksLandCorrect` | driver | `Halves(H)`, `[]Fits(H)` |
| `EntriesAreWritten` | driver | `krealloc` does not fail, `UNINIT` is no byte |
| `EntriesAreWholeLines` | driver | no failing `krealloc`, `get_user` or allocation of an entry; users write no zero bytes |
| `DriverLinearizable` | driver, `LineDevice` | the same services, `Halves(H)`, `[]Fits(H)` |
| `VectorTyped`, `NoLineIsLeftWaiting`, `LinesAreWhole`, `CommandsAreExact` | receive path | |
| `ForwardCopiesLoseNothing` | receive path | `memcpy` copies forward |
| `MutexCorrect`, `ListenerStays`, `NoDescriptorLeaks`, `StaleOnlyAtFirst` | server, both builds | |
| `ServerTyped` | server, both builds | finitely many connections |
| `DescriptorsOwned` | server, plain file | at least ten descriptors |
| `RepliesAreFile` | server, device | at least ten descriptors, scripts are sequences |
| `TypeHolds`, `ResultsExact`, `ChildrenReaped`, `OutputsExact` | system calls example | |

Why the hypotheses: `Halves(H)` says that `SIZE_T` is twice `H` and that an
`llseek` offset is a signed number of that width, `Fits(H)` that the device holds
fewer than `H` bytes, which it does as long as it fits into memory; the driver
compares a signed sum after converting it to an unsigned one, and with a fuller
device a negative position would pass.  With a failing service the driver really
does what the theorem excludes: `driver_krealloc` shows it for `krealloc`, and a
write whose `get_user` or allocation of an entry fails leaves bytes behind in the
line that its caller was told had not been taken.  `memcpy` on overlapping ranges
may do anything else.  With fewer than ten descriptors the data file may find
none.  Clients that come one at a time are a condition of `ReplyIsFile` and, with
the device, of `NoFdLeak` and `StaleWindow` themselves: `server_stuck` shows what
happens otherwise.

### The arguments

*Circular buffer.*  `TypeOK`, `RingShape` and `CharSizeIsTotal` are inductive
together: that `char_size` stays the total needs the subtracted entry to be the
oldest of the contents, which is what the shape of the ring says; that it stays a
natural number needs the total.  `RingProofs` holds the argument as lemmas about
an arbitrary ring: arithmetic of the offsets modulo `MAX`, the contents before
and after an addition to a full and to a part-filled ring, and the total of a
sequence with an entry appended or its head dropped.  The total is stated as the
existence of a running sum (`TotalSize`).  The searches follow the same sum:
`CountBefore` is shown to be it, and a position lies between two of its values.

*Driver.*  The inductive invariant is `CharInv == CallInv /\ BufInv /\ MemInv`.
`CallInv` ties what a call holds to where it is (an open file, a loaded module,
the mutex); without it a step of a call that is elsewhere could not be excluded.
`BufInv` is the ring of the last paragraph.  `MemInv` says who owns the heap: the
objects are exactly those of the held entries, the line under construction and
those `krealloc` has lost, each with one owner and as long as its owner thinks;
and a write loop has room for what is left of its data, since the loop does not
look at the capacity again.  `HeapSafe` and `NoLeak` follow from it, but are not
inductive: they do not say that two owners differ.  `SeekInv` says what a
validated seek that has not been stored yet aims at, and survives other handlers
because the mutex is held.  `PosInv(H)` bounds every position, stored and
private.  `BytesInv(S)` says that all bytes up to `line_len` and in entries are in
`S`, with `S` the written bytes for `EntriesAreWritten`.

*Driver, refinement.*  In `AesdCharLinesProofs` the history variable `snap` is the
device as others may see it.  `LinesInv` says that it is the device itself unless
a write loop is under way, and then (`Written`) the device is `Take(snap, d)` with
`d` the bytes the loop has done.  A pass of the loop appends one byte to `d` and
does not change `snap`; the step that leaves the loop is `Write` of `LineDevice`.
A read is `Read` with the bytes of one entry, by the lemmas about the search.

*Receive path.*  `IInv` adds to the types of the vector where the line ends that
the search has found or not found (`SearchInv`), that what has been written ends
with a line unless a short write is under way (`WholeInv`), that written, executed
and held bytes are together what was received (`LostInv`), and that `sscanf`,
stopped by the terminator, reads one line (`ScanInv`).  `VectorTyped` speaks of
what is copied, searched and written, not of the terminator: `StoresInside` is
false.

*Server.*  `MutexExact` is not inductive alone: starting a thread puts its handler
at the first step, which would take a handler out of its critical section if the
connection had one already.  The invariant adds that a connection that has not
been accepted has no handler, and that the one main is about to start a thread
for has none.  `FdInv` is the one about descriptors: the list has no connection
twice and counts the active ones (`ListInv`); clients that come one at a time have
at most one handler at work (`AloneInv`); every socket is of a connection in the
list and every file that of `data_file.fd` (`OwnInv`), but between a handler's
close and its open, when the number in `data_file.fd` is free.  With the plain
file `OwnInv` always holds, with the device when clients come one at a time.
`WaitsInv` says where a thread may wait and on whose socket: a handler in `recv` or
`send` on its own client's, and in `read` or `write` on nobody's as long as
`data_file.fd` is the file.  `RoomInv` bounds the descriptors that are
neither files nor sockets by those of the setup, so that the data file finds one.
`ReplyInv` says for each place of a handler what of the reply has been sent and
where the position of the file is: in the read loop, the lines between the
reply's start and the position.

*System calls example.*  `IInv` says what a call has at each place (`CallsInv`),
that a call between its open and its close has a descriptor of `outputfile` that
is no other call's (`FilesInv`), and what a child's table and its output are (`TableInv`,
`SinkInv`, if the process was started with a standard output).

What recursive functions compute is proved by a least counterexample
(`LeastNumber`): the library's induction theorems take an operator as a
parameter.  `LineDevice`'s `Take`, the count of the ring and `FlattenSeq` are each
shown to have a solution, by giving it, and only one.

### Model-checked only

Liveness and `ENABLED` are out of the prover's reach: `CallsReturn` of the driver
and of the example, `AppendReturns`, `ShutsDown` and `PacketsHandled` are checked
by TLC on the instances of the runs.  The violations are counterexamples, found by
TLC.

## Plan

1. An abstract specification of the server for clients that come one at a time
   (a packet is taken, and answered with the file, at one moment), and that
   `AesdSocket` implements it; `ReplyInv` is the core of the argument.
2. The same for the receive path: a splitter of a stream into lines.
3. The positions the plain file is written at after it was opened again.

## Not modelled

The load and unload scripts, the server's start script and the build and
emulator scripts (shell around single commands), `queue.h` beyond the list
operations the server uses (third-party), the autotest example (constants),
`writer.c` and the finder scripts (straight-line I/O in one process) and the
debug output.  The threading example is one thread that sleeps, locks, sleeps and
unlocks; nothing it promises takes more than one assignment to break.  Of the
server: the address lookup (`main_bind` takes an address that could be bound),
the reconnection of `syslog` when its socket is lost, what a store behind the
receive buffer destroys, and signals that
interrupt a handler's system call: the signals are taken to be delivered to the
main thread, which does not block them.  Of the driver: registration of the
device number (its failure leaves the module unloaded, as does that of
`cdev_add`, which is modelled), and overflow of positions beyond 2^63.  Of the
system calls example: `system(NULL)`, reuse of pids, and what the program has in
its stdio buffers when a child calls `exit`.
