----------------------------- MODULE AesdSocket -----------------------------
(***************************************************************************)
(* The socket server of server/aesdsocket.c: the main thread, one handler  *)
(* thread per connection, the timer's thread, and the clients.             *)
(*                                                                         *)
(* Data are lines: recv returns some of the lines a client has sent (how   *)
(* chunks become lines is RecvLines), a file is a sequence of lines and a  *)
(* file position counts lines.  All lines are taken to have one length, so *)
(* that a line written at a position replaces the line there.  A step is   *)
(* at most one system call on the descriptors the threads share.           *)
(***************************************************************************)
EXTENDS Integers, Sequences, FiniteSetsExt

CONSTANTS
  Conns,                 \* the connections clients make
  Plans,                 \* what clients do: the lines each sends, and whether they
                         \* are patient and connect one after the other; and how
                         \* often the timer expires
  Commands,              \* the lines that are AESDCHAR_IOCSEEKTO commands
  Target,                \* the entry each command seeks to
  TIMESTAMP,             \* the line write_timestamp writes
  USE_AESD_CHAR_DEVICE,  \* the build: the character device or a plain file
  MAX,                   \* the number of lines the device keeps
  MaxFds,                \* bound: file descriptors
  SOCKET_BUFFER,         \* bound: lines a client has not read yet
  Std,                   \* the standard descriptors that are open at the start
  LOGGER,                \* whether openlog reaches a system log
  DAEMON,                \* whether the server is started with -d
  MallocFails,           \* whether malloc and pthread_create may fail
  Hasty,                 \* the clients that may close before their reply
  NONE                   \* no thread

ASSUME MaxAssumption == MAX \in Nat \ {0}
ASSUME PlansAssumption ==
  /\ \A plan \in Plans : Conns \subseteq DOMAIN plan.script /\ plan.patient \in BOOLEAN /\ plan.ticks \in Nat
  /\ Commands \subseteq DOMAIN Target /\ \A line \in Commands : Target[line] \in Nat
  /\ Hasty \subseteq Conns
ASSUME FdsAssumption == Std \subseteq 0 .. 2 /\ MaxFds \in Nat \ 0 .. 2

TIMER == "timer"  \* the timer's thread

ASSUME ThreadsAssumption == TIMER \notin Conns /\ NONE \notin Conns \cup {TIMER}

VARIABLES
  fds,        \* the process's descriptors: <<"free">>, <<"std">>, <<"null">>, <<"bound">>,
              \* <<"listen">>, <<"log">>, <<"sock", c>> or <<"file", position>>
  file,       \* the lines of the data file or device
  data_fd,    \* data_file.fd
  mtx,        \* data_file.mtx: the thread that holds it
  sig_received,
  main,       \* the main thread: where it is
  sock_fd,    \* the listening socket
  list,       \* the SLIST of connections, head first
  scan,       \* the part of list that SLIST_FOREACH_SAFE has not visited
  active_conns,
  thread,     \* the handler thread of each connection
  waits_on,   \* for each thread the client on whose socket its system call waits,
              \* NONE if it does not wait
  timer,      \* the timer's thread: where it is
  ticks,      \* how often the timer will still expire
  client,     \* the client of each connection
  inbox,      \* lines sent by the client and not received
  outbox,     \* lines sent to the client and not read
  reply       \* ghost: the lines sent for the packets last received, and from
              \* which line of the file on they should be

ioVars == <<fds, file, data_fd>>
connVars == <<list, scan, active_conns>>
mainVars == <<sig_received, main, sock_fd, connVars>>
timerVars == <<timer, ticks>>
netVars == <<client, inbox, outbox>>
restVars == <<mtx, thread, timerVars, waits_on, netVars, reply>>
vars == <<ioVars, mainVars, restVars>>

Alive == main # "exited"

\* The server listens.
Up == main \notin {"setup", "daemon", "listen", "exited"}

FREE == <<"free">>
NULL_DEV == <<"null">>
BOUND == <<"bound">>
LISTEN == <<"listen">>
LOG == <<"log">>
NO_FD == -1

(***************************************************************************)
(* File descriptors.                                                       *)
(***************************************************************************)

Fds == 0 .. MaxFds - 1

FreeFds(t) == {f \in Fds : t[f] = FREE}

\* The lowest free descriptor of the table t, -1 with EMFILE.
Lowest(t) == IF FreeFds(t) = {} THEN NO_FD ELSE Min(FreeFds(t))

NewFd == Lowest(fds)

IsFile(f) == f \in Fds /\ fds[f][1] = "file"
IsSock(f) == f \in Fds /\ fds[f][1] = "sock"

Opened(t, what) == IF Lowest(t) = NO_FD THEN t ELSE [t EXCEPT ![Lowest(t)] = what]

Closed(f) == [g \in Fds |-> IF g = f THEN FREE ELSE fds[g]]

Position(f) == fds[f][2]

Peer(f) == fds[f][2]

\* A write to the plain file replaces the line at the position, or is added
\* behind the last; the device adds it and drops its oldest line if it is full.
FileWritten(f, line) ==
  IF USE_AESD_CHAR_DEVICE
    THEN IF Len(file) < MAX THEN Append(file, line) ELSE Append(Tail(file), line)
    ELSE IF Position(f) < Len(file)
           THEN [file EXCEPT ![Position(f) + 1] = line]
           ELSE Append(file, line)

\* The driver's write leaves the position alone.
WritePosition(f) ==
  IF USE_AESD_CHAR_DEVICE THEN fds ELSE [fds EXCEPT ![f] = <<"file", Position(f) + 1>>]

Gone(c) == client[c].state = "closed"

(***************************************************************************)
(* System calls on sockets.  A call looks its descriptor up once, when it  *)
(* is entered; if it has to wait it stays on the socket it has found, also *)
(* when the descriptor is closed or becomes another file in the meantime.  *)
(***************************************************************************)

Threads == Conns \cup {TIMER}

\* The client on whose socket a call of thread t on f is, NONE if on no socket.
On(t, f) == IF waits_on[t] # NONE THEN waits_on[t] ELSE IF IsSock(f) THEN Peer(f) ELSE NONE

\* Whether a call of thread t on f is on an open file.
OnFile(t, f) == waits_on[t] = NONE /\ IsFile(f)

\* Thread t goes on: the call it was in, if any, has returned.
Returns(t) == waits_on' = [waits_on EXCEPT ![t] = NONE]

Full(c) == Len(outbox[c]) >= SOCKET_BUFFER

\* A socket blocks while its buffer is full.  What is sent to a client that has
\* closed is lost, or fails, or raises SIGPIPE, which ends the process.
SocketAccepts(c, line) ==
  /\ c # NONE
  /\ IF Gone(c)
       THEN UNCHANGED outbox
       ELSE /\ ~Full(c)
            /\ outbox' = [outbox EXCEPT ![c] = Append(@, line)]

SocketFails(c) == c # NONE => Gone(c)

\* Thread t enters a call on f that has to wait for client c.
Waits(t, f) ==
  /\ waits_on[t] = NONE
  /\ IsSock(f)
  /\ ~Gone(Peer(f))
  /\ waits_on' = [waits_on EXCEPT ![t] = Peer(f)]

\* write(data_file.fd, line) by thread t: the number may by now be that of a closed
\* descriptor or of a client's socket.
WriteData(t, line) ==
  \/ /\ OnFile(t, data_fd)
     /\ file' = FileWritten(data_fd, line)
     /\ fds' = WritePosition(data_fd)
     /\ UNCHANGED outbox
  \/ /\ SocketAccepts(On(t, data_fd), line)
     /\ UNCHANGED <<file, fds>>

WriteDataFails(t) == ~OnFile(t, data_fd) /\ SocketFails(On(t, data_fd))

(***************************************************************************)
(* Clients (external): they connect, send their lines, read what is sent   *)
(* to them and close.                                                      *)
(***************************************************************************)

Idle(c) == client[c].state = "new" \/ thread[c].pc = "done"

connect(c) ==
  /\ Up
  /\ client[c].state = "new"
  /\ client[c].patient => \A d \in Conns : Idle(d)
  /\ client' = [client EXCEPT ![c].state = "pending"]
  /\ UNCHANGED <<ioVars, mtx, mainVars, thread, timerVars, waits_on, inbox, outbox, reply>>

client_send(c) ==
  /\ Alive
  /\ client[c].state \in {"pending", "open"}
  /\ client[c].sent < Len(client[c].script)
  /\ client' = [client EXCEPT ![c].sent = @ + 1]
  /\ inbox' = [inbox EXCEPT ![c] = Append(@, client[c].script[client[c].sent + 1])]
  /\ UNCHANGED <<ioVars, mtx, mainVars, thread, timerVars, waits_on, outbox, reply>>

client_read(c) ==
  /\ Alive
  /\ client[c].state = "open"
  /\ outbox[c] # <<>>
  /\ outbox' = [outbox EXCEPT ![c] = Tail(@)]
  /\ UNCHANGED <<ioVars, mtx, mainVars, thread, timerVars, waits_on, client, inbox, reply>>

\* A client has its answer when its handler waits for more and nothing is
\* left to read.
Answered(c) ==
  /\ outbox[c] = <<>>
  /\ \/ thread[c].pc = "done"
     \/ thread[c].pc = "recv" /\ inbox[c] = <<>> /\ client[c].sent = Len(client[c].script)

client_close(c) ==
  /\ Alive
  /\ client[c].state = "open"
  /\ c \in Hasty \/ Answered(c)
  /\ client' = [client EXCEPT ![c].state = "closed"]
  /\ outbox' = [outbox EXCEPT ![c] = <<>>]
  /\ UNCHANGED <<ioVars, mtx, mainVars, thread, timerVars, waits_on, inbox, reply>>

sig_handler ==
  /\ main \notin {"setup", "exited"}
  /\ ~sig_received
  /\ sig_received' = TRUE
  /\ UNCHANGED <<ioVars, main, sock_fd, connVars, restVars>>

(***************************************************************************)
(* The handler threads.                                                    *)
(***************************************************************************)

At(c, label) == Alive /\ thread[c].pc = label

Goto(c, label) == thread' = [thread EXCEPT ![c].pc = label]

\* The handler goes on to label, and nothing else changes, or but the mutex.
Moves(c, label) ==
  /\ Returns(c)
  /\ Goto(c, label) /\ UNCHANGED <<ioVars, mtx, mainVars, timerVars, netVars, reply>>

LocksAndMoves(c, label) ==
  /\ mtx = NONE /\ mtx' = c
  /\ Goto(c, label) /\ UNCHANGED <<ioVars, mainVars, timerVars, waits_on, netVars, reply>>

UnlocksAndMoves(c, label) ==
  /\ mtx' = NONE
  /\ Returns(c)
  /\ Goto(c, label) /\ UNCHANGED <<ioVars, mainVars, timerVars, netVars, reply>>

\* The head of the outer loop.
packet(c) == At(c, "packet") /\ Moves(c, IF sig_received THEN "exit" ELSE "recv")

\* Mutation: seek_done is not reset for the next packet.
SeekDoneKept(c) == thread[c].seek_done

\* seek_done at the head of the outer loop.
SeekDoneReset(c) == FALSE

\* The client whose socket the handler's client_fd, or the call it waits in, is.
ClientOf(c) == On(c, thread[c].fd)

\* The handler takes the first n lines of what client p has sent and goes on to
\* label.
Receives(c, p, n, label) ==
  /\ thread' = [thread EXCEPT ![c].pc = label, ![c].seek_done = SeekDoneReset(c),
                              ![c].batch = SubSeq(inbox[p], 1, n)]
  /\ inbox' = [inbox EXCEPT ![p] = SubSeq(@, n + 1, Len(@))]
  /\ Returns(c)
  /\ reply' = [reply EXCEPT ![c] = [from |-> 0, lines |-> <<>>]]
  /\ UNCHANGED <<ioVars, mtx, mainVars, timerVars, client, outbox>>

\* recv returns some of what has arrived.
recv(c) ==
  /\ At(c, "recv")
  /\ ClientOf(c) # NONE
  /\ \E n \in 1 .. Len(inbox[ClientOf(c)]) : Receives(c, ClientOf(c), n, "lines")

\* The client has closed, or the descriptor is no socket any more.
recv_ends(c) == At(c, "recv") /\ SocketFails(ClientOf(c)) /\ Moves(c, "exit")

HasLine(c) == At(c, "lines") /\ thread[c].batch # <<>>

IsCommand(line) == USE_AESD_CHAR_DEVICE /\ line \in Commands

\* A line that sscanf takes for a command: the ioctl, without data_file.mtx, on
\* whatever data_file.fd is; its failure is logged only.
ioctl(c) ==
  LET target == Target[Head(thread[c].batch)]
      ok == IsFile(data_fd) /\ target < Len(file)
  IN
  /\ HasLine(c)
  /\ IsCommand(Head(thread[c].batch))
  /\ fds' = IF ok THEN [fds EXCEPT ![data_fd] = <<"file", target>>] ELSE fds
  /\ reply' = [reply EXCEPT ![c].from = IF ok THEN target
                                        ELSE IF thread[c].seek_done THEN @ ELSE -1]
  /\ thread' = [thread EXCEPT ![c].seek_done = TRUE, ![c].batch = Tail(@)]
  /\ UNCHANGED <<file, data_fd, mtx, mainVars, timerVars, waits_on, netVars>>

lock_write(c) ==
  HasLine(c) /\ ~IsCommand(Head(thread[c].batch)) /\ LocksAndMoves(c, "write")

write(c) ==
  /\ At(c, "write")
  /\ WriteData(c, Head(thread[c].batch))
  /\ Returns(c)
  /\ mtx' = NONE
  /\ thread' = [thread EXCEPT ![c].pc = "lines", ![c].batch = Tail(@)]
  /\ UNCHANGED <<data_fd, mainVars, timerVars, client, inbox, reply>>

\* Mutation: the error path leaves the mutex locked.
write_fails_locked(c) == At(c, "write") /\ WriteDataFails(c) /\ Moves(c, "exit")

write_fails(c) == At(c, "write") /\ WriteDataFails(c) /\ UnlocksAndMoves(c, "exit")

LinesDone(c) == At(c, "lines") /\ thread[c].batch = <<>>

\* The device is rewound by closing and opening it again.
close_data(c) ==
  /\ LinesDone(c)
  /\ USE_AESD_CHAR_DEVICE
  /\ ~thread[c].seek_done
  /\ fds' = Closed(data_fd)
  /\ Goto(c, "open")
  /\ UNCHANGED <<file, data_fd, mtx, mainVars, timerVars, waits_on, netVars, reply>>

open_data(c) ==
  /\ At(c, "open")
  /\ data_fd' = NewFd
  /\ fds' = Opened(fds, <<"file", 0>>)
  /\ Goto(c, "lock")
  /\ UNCHANGED <<file, mtx, mainVars, timerVars, waits_on, netVars, reply>>

\* The plain file is rewound by lseek, in a critical section of its own.
lock_lseek(c) == LinesDone(c) /\ ~USE_AESD_CHAR_DEVICE /\ LocksAndMoves(c, "lseek")

lseek(c) ==
  /\ At(c, "lseek")
  /\ IsFile(data_fd)
  /\ fds' = [fds EXCEPT ![data_fd] = <<"file", 0>>]
  /\ mtx' = NONE
  /\ Goto(c, "lock")
  /\ UNCHANGED <<file, data_fd, mainVars, timerVars, waits_on, netVars, reply>>

lock_read(c) ==
  /\ At(c, "lock") \/ (LinesDone(c) /\ thread[c].seek_done)
  /\ LocksAndMoves(c, "read")

\* The bytes of one line are read.
read(c) ==
  LET p == On(c, data_fd) IN
  /\ At(c, "read")
  /\ \/ /\ OnFile(c, data_fd)
        /\ Position(data_fd) < Len(file)
        /\ thread' = [thread EXCEPT ![c].pc = "send", ![c].line = file[Position(data_fd) + 1]]
        /\ fds' = [fds EXCEPT ![data_fd] = <<"file", Position(data_fd) + 1>>]
        /\ UNCHANGED inbox
     \/ /\ p # NONE
        /\ inbox[p] # <<>>
        /\ thread' = [thread EXCEPT ![c].pc = "send", ![c].line = Head(inbox[p])]
        /\ inbox' = [inbox EXCEPT ![p] = Tail(@)]
        /\ UNCHANGED fds
  /\ Returns(c)
  /\ UNCHANGED <<file, data_fd, mtx, mainVars, timerVars, client, outbox, reply>>

AtEnd(c) ==
  IF OnFile(c, data_fd) THEN Position(data_fd) >= Len(file) ELSE SocketFails(On(c, data_fd))

\* Mutation: the end of the read loop leaves the mutex locked.
read_ends_locked(c) == At(c, "read") /\ AtEnd(c) /\ Moves(c, "packet")

\* The end of the data, or an error, ends the reply.
read_ends(c) == At(c, "read") /\ AtEnd(c) /\ UnlocksAndMoves(c, "packet")

\* send takes the line.
Sends(c, label) ==
  /\ At(c, "send")
  /\ SocketAccepts(ClientOf(c), thread[c].line)
  /\ reply' = [reply EXCEPT ![c].lines = Append(@, thread[c].line)]
  /\ Returns(c)
  /\ Goto(c, label)
  /\ UNCHANGED <<ioVars, mainVars, timerVars, client, inbox>>

send(c) == Sends(c, "read") /\ UNCHANGED mtx

send_fails(c) == At(c, "send") /\ SocketFails(ClientOf(c)) /\ UnlocksAndMoves(c, "exit")

\* The call of handler c, if it is at one that may have to wait, is entered and
\* waits: for something to read, or, with data_file.mtx held, for room to write.
\* The accepted sockets are blocking.
waits(c) ==
  /\ Alive
  /\ \/ thread[c].pc = "recv" /\ Waits(c, thread[c].fd) /\ inbox[Peer(thread[c].fd)] = <<>>
     \/ thread[c].pc = "read" /\ Waits(c, data_fd) /\ inbox[Peer(data_fd)] = <<>>
     \/ thread[c].pc = "send" /\ Waits(c, thread[c].fd) /\ Full(Peer(thread[c].fd))
     \/ thread[c].pc = "write" /\ Waits(c, data_fd) /\ Full(Peer(data_fd))
  /\ UNCHANGED <<ioVars, mtx, mainVars, thread, timerVars, netVars, reply>>

\* vector_init or vector_append fails: behind recv, behind the write loop, or
\* before or behind the send of a line.
no_memory(c) ==
  /\ MallocFails
  /\ \/ /\ At(c, "recv")
        /\ ClientOf(c) # NONE
        /\ \E n \in 1 .. Len(inbox[ClientOf(c)]) : Receives(c, ClientOf(c), n, "exit")
     \/ LinesDone(c) /\ Moves(c, "exit")
     \/ At(c, "send") /\ waits_on[c] = NONE /\ UnlocksAndMoves(c, "exit")
     \/ Sends(c, "exit") /\ mtx' = NONE

\* Mutation: complete is not set.
thread_cleanup_silent(c) == At(c, "exit") /\ Moves(c, "none")

\* The last thing the thread does is to set complete.
thread_cleanup(c) == At(c, "exit") /\ Moves(c, "done")

handle_connection(c) ==
  \/ packet(c) \/ recv(c) \/ recv_ends(c) \/ ioctl(c)
  \/ lock_write(c) \/ write(c) \/ write_fails(c)
  \/ close_data(c) \/ open_data(c) \/ lock_lseek(c) \/ lseek(c)
  \/ lock_read(c) \/ read(c) \/ read_ends(c) \/ send(c) \/ send_fails(c)
  \/ waits(c) \/ thread_cleanup(c)

(***************************************************************************)
(* The timer's thread, of the build with a plain file.                     *)
(***************************************************************************)

write_timestamp_lock ==
  /\ ~USE_AESD_CHAR_DEVICE
  /\ Up
  /\ timer = "idle"
  /\ ticks > 0
  /\ mtx = NONE
  /\ mtx' = TIMER
  /\ timer' = "write"
  /\ ticks' = ticks - 1
  /\ UNCHANGED <<ioVars, mainVars, thread, waits_on, netVars, reply>>

\* Mutation: the error path leaves the mutex locked.
write_timestamp_locked ==
  /\ Alive
  /\ timer = "write"
  /\ \/ WriteData(TIMER, TIMESTAMP) /\ mtx' = NONE
     \/ WriteDataFails(TIMER) /\ UNCHANGED <<file, fds, outbox, mtx>>
  /\ Returns(TIMER)
  /\ timer' = "idle"
  /\ UNCHANGED <<data_fd, mainVars, thread, ticks, client, inbox, reply>>

write_timestamp ==
  /\ Alive
  /\ timer = "write"
  /\ \/ WriteData(TIMER, TIMESTAMP)
     \/ WriteDataFails(TIMER) /\ UNCHANGED <<file, fds, outbox>>
  /\ Returns(TIMER)
  /\ mtx' = NONE
  /\ timer' = "idle"
  /\ UNCHANGED <<data_fd, mainVars, thread, ticks, client, inbox, reply>>

write_timestamp_waits ==
  /\ Alive
  /\ timer = "write"
  /\ Waits(TIMER, data_fd) /\ Full(Peer(data_fd))
  /\ UNCHANGED <<ioVars, mtx, mainVars, thread, timerVars, netVars, reply>>

(***************************************************************************)
(* The main thread.                                                        *)
(***************************************************************************)

AllClosed == [f \in Fds |-> FREE]

\* cleanup and the end of the process, which closes what cleanup does not.
Ends ==
  /\ main' = "exited"
  /\ fds' = AllClosed
  /\ UNCHANGED <<data_fd, sock_fd, sig_received, connVars, restVars>>

\* A call of the setup has failed, or a signal has come before its handler was
\* installed.
gives_up ==
  /\ main \in {"setup", "listen"} \cup (IF DAEMON THEN {"daemon"} ELSE {})
  /\ Ends
  /\ UNCHANGED file

\* The table behind openlog, which connects to the log at once.
LoggedFds == IF LOGGER THEN Opened(fds, LOG) ELSE fds

\* The system log is opened, if there is one, the signal handlers are installed,
\* and an address is found to which a socket can be bound.
main_bind ==
  /\ main = "setup"
  /\ Lowest(LoggedFds) # NO_FD
  /\ sock_fd' = Lowest(LoggedFds)
  /\ fds' = Opened(LoggedFds, BOUND)
  /\ main' = "daemon"
  /\ UNCHANGED <<file, data_fd, sig_received, connVars, restVars>>

\* The table after dup(0), which fails if 0 is closed.
Dup0(t) == IF t[0] = FREE THEN t ELSE Opened(t, t[0])

\* Mutation: as daemons often do, the child first closes whatever lies behind
\* the standard descriptors.
DaemonFdsClosing ==
  Dup0(Dup0(Opened([f \in Fds |-> IF f > 2 THEN FREE ELSE fds[f]], NULL_DEV)))

\* The child's table after open("/dev/null") and dup(0) twice.
DaemonFds == Dup0(Dup0(Opened(fds, NULL_DEV)))

\* With -d the child goes on and the parent, after closing its own copies, exits.
daemonize ==
  /\ main = "daemon"
  /\ fds' = IF DAEMON THEN DaemonFds ELSE fds
  /\ main' = "listen"
  /\ UNCHANGED <<file, data_fd, sock_fd, sig_received, connVars, restVars>>

\* The socket listens.  The plain file is created or wiped and closed again;
\* data_file.fd keeps its number.
main_listen ==
  /\ main = "listen"
  /\ NewFd # NO_FD
  /\ fds[sock_fd] = BOUND
  /\ fds' = [fds EXCEPT ![sock_fd] = LISTEN]
  /\ data_fd' = NewFd
  /\ file' = IF USE_AESD_CHAR_DEVICE THEN file ELSE <<>>
  /\ main' = "top"
  /\ UNCHANGED <<sock_fd, sig_received, connVars, restVars>>

\* The conditions of the accept loop.
main_top ==
  /\ main = "top"
  /\ main' = IF sig_received THEN "drain" ELSE "accept"
  /\ scan' = <<>>
  /\ UNCHANGED <<ioVars, sock_fd, sig_received, list, active_conns, restVars>>

Pending == {c \in Conns : client[c].state = "pending"}

\* accept and the insertion of the connection into the list.
accept(c) ==
  /\ main = "accept"
  /\ c \in Pending
  /\ NewFd # NO_FD
  /\ fds' = Opened(fds, <<"sock", c>>)
  /\ client' = [client EXCEPT ![c].state = "open"]
  /\ thread' = [thread EXCEPT ![c].fd = NewFd]
  /\ list' = <<c>> \o list
  /\ main' = "spawn"
  /\ UNCHANGED <<file, data_fd, mtx, sock_fd, sig_received, scan, active_conns, timerVars, waits_on, inbox, outbox, reply>>

\* No connection: go on asking unless a signal has come.  No descriptor: the
\* server gives up.
accept_fails ==
  /\ main = "accept"
  /\ \/ Pending = {} /\ sig_received
     \/ Pending # {} /\ NewFd = NO_FD
  /\ IF sig_received
       THEN main' = "drain" /\ UNCHANGED <<ioVars, sock_fd, sig_received, connVars, restVars>>
       ELSE Ends /\ UNCHANGED file

\* Mutation: the data file is opened for every connection.
OpensAlways == TRUE

\* Whether the new connection is the only one.
OpensData == active_conns = 0

\* The data file is opened for the first connection, and the thread created;
\* its vector_init may fail.  Nobody notices when pthread_create fails: the
\* connection is counted and stays in the list.
spawn ==
  /\ main = "spawn"
  /\ IF OpensData
       THEN data_fd' = NewFd /\ fds' = Opened(fds, <<"file", 0>>)
       ELSE UNCHANGED <<data_fd, fds>>
  /\ \E label \in {"packet"} \cup (IF MallocFails THEN {"exit", "none"} ELSE {}) :
       Goto(Head(list), label)
  /\ active_conns' = active_conns + 1
  /\ scan' = list
  /\ main' = "scan"
  /\ UNCHANGED <<file, mtx, sock_fd, sig_received, list, timerVars, waits_on, netVars, reply>>

Complete(c) == thread[c].pc = "done"

\* Mutation: the socket is left open.
ReapedFdsOpen(c) == fds

\* The descriptors after close(client_fd).
ReapedFds(c) == Closed(thread[c].fd)

\* Mutation: the connection stays in the list.
RemovedNever(c) == list

\* SLIST_REMOVE.
Removed(c) ==
  LET place == CHOOSE i \in 1 .. Len(list) : list[i] = c
  IN  [i \in 1 .. Len(list) - 1 |-> IF i < place THEN list[i] ELSE list[i + 1]]

\* The next connection of the list: reap it if its thread is complete.
reap ==
  /\ main \in {"scan", "drain"}
  /\ scan # <<>>
  /\ scan' = Tail(scan)
  /\ IF Complete(Head(scan))
       THEN /\ fds' = ReapedFds(Head(scan))
            /\ list' = Removed(Head(scan))
            /\ active_conns' = active_conns - 1
       ELSE UNCHANGED <<fds, list, active_conns>>
  /\ UNCHANGED <<file, data_fd, sock_fd, sig_received, main, restVars>>

\* Mutation: the data file is closed while a connection is left.
NoConnsButOne == active_conns <= 1

NoConns == active_conns = 0

scan_ends ==
  /\ main = "scan"
  /\ scan = <<>>
  /\ fds' = IF NoConns THEN Closed(data_fd) ELSE fds
  /\ main' = "top"
  /\ UNCHANGED <<file, data_fd, sock_fd, sig_received, connVars, restVars>>

\* Behind the accept loop the list is visited again and again.
drain ==
  /\ main = "drain"
  /\ scan = <<>>
  /\ active_conns > 0
  /\ scan' = list
  /\ UNCHANGED <<ioVars, sock_fd, sig_received, main, list, active_conns, restVars>>

\* unlink, timer_delete, cleanup and the end of the process.
cleanup ==
  /\ main = "drain"
  /\ scan = <<>>
  /\ active_conns = 0
  /\ file' = IF USE_AESD_CHAR_DEVICE THEN file ELSE <<>>
  /\ Ends

\* The call of thread t on f is on the socket of a client that has closed.
OnGone(t, f) == On(t, f) # NONE /\ Gone(On(t, f))

\* SIGPIPE, which the server does not handle.
sigpipe ==
  /\ \/ \E c \in Conns : At(c, "send") /\ OnGone(c, thread[c].fd)
     \/ \E c \in Conns : At(c, "write") /\ OnGone(c, data_fd)
     \/ Alive /\ timer = "write" /\ OnGone(TIMER, data_fd)
  /\ Ends
  /\ UNCHANGED file

\* The list node of a new connection is written to although malloc has failed.
no_node ==
  /\ main = "accept"
  /\ MallocFails
  /\ Pending # {} /\ NewFd # NO_FD
  /\ Ends
  /\ UNCHANGED file

main_thread ==
  \/ main_bind \/ daemonize \/ main_listen \/ main_top \/ accept_fails \/ spawn \/ reap
  \/ scan_ends \/ drain \/ cleanup
  \/ \E c \in Conns : accept(c)

Init ==
  /\ fds = [f \in Fds |-> IF f \in Std THEN <<"std">> ELSE FREE] /\ file = <<>> /\ data_fd = 0 /\ mtx = NONE
  /\ sig_received = FALSE
  /\ main = "setup" /\ sock_fd = 0 /\ list = <<>> /\ scan = <<>> /\ active_conns = 0
  /\ thread = [c \in Conns |-> [pc |-> "none", fd |-> NO_FD, batch |-> <<>>,
                                line |-> NONE, seek_done |-> FALSE]]
  /\ timer = "idle"
  /\ waits_on = [t \in Threads |-> NONE]
  /\ \E plan \in Plans :
       /\ client = [c \in Conns |-> [state |-> "new", sent |-> 0,
                                      script |-> plan.script[c], patient |-> plan.patient]]
       /\ ticks = plan.ticks
  /\ inbox = [c \in Conns |-> <<>>] /\ outbox = [c \in Conns |-> <<>>]
  /\ reply = [c \in Conns |-> [from |-> -1, lines |-> <<>>]]

client_step(c) == client_send(c) \/ client_read(c) \/ client_close(c)

\* The process has ended.
Exited == main = "exited" /\ UNCHANGED vars

Next ==
  \/ main_thread
  \/ \E c \in Conns : handle_connection(c) \/ no_memory(c)
  \/ write_timestamp_lock \/ write_timestamp \/ write_timestamp_waits
  \/ \E c \in Conns : connect(c) \/ client_step(c)
  \/ sig_handler \/ sigpipe \/ no_node \/ gives_up
  \/ Exited

Spec == Init /\ [][Next]_vars

\* Every thread keeps running.
ServerFairness ==
  /\ WF_vars(main_thread)
  /\ WF_vars(write_timestamp \/ write_timestamp_waits)
  /\ \A c \in Conns : WF_vars(handle_connection(c))

\* A client that is connected sends what it has to send, reads and closes.
ClientFairness == \A c \in Conns : WF_vars(client_step(c))

FairSpec == Spec /\ ServerFairness

FairClientsSpec == FairSpec /\ ClientFairness

(***************************************************************************)
(* Properties.                                                             *)
(***************************************************************************)

\* The descriptor table, the mutex, main and the count of connections; a
\* connection reaped twice would make the count negative.
TypeOK ==
  /\ fds \in [Fds -> {FREE, NULL_DEV, LISTEN, BOUND, LOG, <<"std">>}
                       \cup ({"sock"} \X Conns) \cup ({"file"} \X Nat)]
  /\ data_fd \in Fds \cup {NO_FD} /\ sock_fd \in Fds
  /\ mtx \in Threads \cup {NONE}
  /\ waits_on \in [Threads -> Conns \cup {NONE}]
  /\ main \in {"setup", "daemon", "listen", "top", "accept", "spawn", "scan", "drain", "exited"}
  /\ active_conns \in 0 .. Cardinality(Conns)

\* Where a handler is inside a critical section of data_file.mtx.
Critical == {"write", "lseek", "read", "send"}

\* The threads inside a critical section.
Inside == {c \in Conns : thread[c].pc \in Critical}
            \cup (IF timer = "write" THEN {TIMER} ELSE {})

\* data_file.mtx is held by the one thread that is in a critical section and by
\* nobody else: no early return keeps it, also when descriptors are confused.
MutexExact == Inside = IF mtx = NONE THEN {} ELSE {mtx}

Running(c) == thread[c].pc \notin {"none", "done"}

\* In the build with a plain file, a running handler's client_fd is its client's
\* socket, a call it waits in is on that socket, and data_file.fd is the open file,
\* whoever connects and leaves: no thread is reaped before it is complete and the
\* file is not closed under one.
FdsOwned ==
  main # "exited" => \A c \in Conns : Running(c) =>
    fds[thread[c].fd] = <<"sock", c>> /\ waits_on[c] \in {NONE, c} /\ IsFile(data_fd)

\* Clients come one at a time.
Patient == \A c \in Conns : client[c].patient

\* At the head of the accept loop every socket and file that is open is one the
\* server will close: the data file or the socket of a connection in the list.
\* With the device this holds when clients come one at a time.
NoFdLeak ==
  main = "top" /\ (USE_AESD_CHAR_DEVICE => Patient) =>
    /\ active_conns = Len(list)
    /\ \A f \in Fds : IsFile(f) \/ IsSock(f) =>
         f = data_fd \/ \E i \in 1 .. Len(list) : thread[list[i]].fd = f

\* When clients come one at a time, the reply to a packet is the file as it is
\* after the packet: from its start, or from where the packet's seek command led.
ReplyIsFile ==
  \A c \in Conns :
    Patient /\ main # "exited" /\ thread[c].pc = "recv" /\ reply[c].from >= 0 =>
      reply[c].lines = SubSeq(file, reply[c].from + 1, Len(file))

\* From the time it is bound until the process ends sock_fd is the server's
\* socket: no handler's close of a descriptor it does not own any more reaches
\* it, and neither does the start as a daemon, also without a standard input.
ListenerKept == main \notin {"setup", "exited"} => fds[sock_fd] \in {BOUND, LISTEN}

\* Somebody waits for a client to send its next line or to close.
SenderAwaited == \E d \in Conns : thread[d].pc = "recv" /\ waits_on[d] # NONE

\* Somebody waits, with data_file.mtx held, for a client to read.
ReaderAwaited ==
  \/ \E d \in Conns : thread[d].pc = "send" /\ waits_on[d] # NONE
  \/ timer = "write" /\ waits_on[TIMER] # NONE

\* In the build with a plain file nothing but a client that neither sends nor
\* closes, or does not read, keeps the server from ending after a signal: not the
\* competition for data_file.mtx, not the timer, not a connection that is accepted,
\* completed or reaped meanwhile.  (With the device PacketsFinish fails.)
ShutsDown == sig_received ~> main = "exited" \/ SenderAwaited \/ ReaderAwaited

\* Where a handler is between the packet it has received and the next.
InPacket(c) == Alive /\ thread[c].pc \in {"lines", "write", "open", "lseek", "lock", "read", "send"}

\* In the build with a plain file nothing but a client that does not read, its own
\* or another one's, keeps a handler from coming back for the next packet.
PacketsHandled == \A c \in Conns : InPacket(c) ~> ~InPacket(c) \/ ReaderAwaited


\* The number data_file.fd keeps when the file is closed may become a client's
\* socket, and a time stamp may go there, only while main has accepted the first
\* connection and not yet opened the file again.  With the device this holds when
\* clients come one at a time.
StaleWindow ==
  main # "exited" /\ (USE_AESD_CHAR_DEVICE => Patient) /\ IsSock(data_fd) =>
    main = "spawn" /\ active_conns = 0

\* No connection is left or waiting to be accepted that needs the data file.
Unused == Up /\ Pending = {} /\ \A i \in 1 .. Len(list) : Complete(list[i])

\* "close the data now that no one is using it", so that the driver can be
\* unloaded: when no handler is left, the file is closed or somebody connects.
DataReleased == Unused ~> (~Unused \/ ~IsFile(data_fd))
=============================================================================
