-------------------------- MODULE AesdSocketProofs --------------------------
(***************************************************************************)
(* The theorems about the socket server, for any number of connections and *)
(* of descriptors and any scripts: its mutex, what it does with its        *)
(* descriptors and its list of connections, and its replies.               *)
(***************************************************************************)
EXTENDS AesdSocket, LeastNumber, SequenceTheorems, TLAPS

-----------------------------------------------------------------------------
(* The mutex.                                                                *)

\* Every connection has a handler with a place in the code.
Shape == DOMAIN thread = Conns /\ \A c \in Conns : "pc" \in DOMAIN thread[c]

MutexInv == Shape /\ MutexExact

\* The effect of a step of handler c on where the handlers are.
GoesTo(c, label) ==
  Shape' /\ \A d \in Conns : thread'[d].pc = IF d = c THEN label ELSE thread[d].pc

\* Goto moves one handler and leaves the others where they are.
LEMMA GotoEffect ==
  ASSUME Shape, NEW c \in Conns, NEW label, Goto(c, label)
  PROVE  GoesTo(c, label)
BY DEF Shape, Goto, GoesTo

\* A handler that neither enters nor leaves a critical section.
LEMMA StaysSide ==
  ASSUME MutexInv, NEW c \in Conns, NEW label, GoesTo(c, label),
         thread[c].pc \in Critical <=> label \in Critical,
         UNCHANGED <<mtx, timer>>
  PROVE  MutexInv'
BY DEF MutexInv, MutexExact, Inside, GoesTo

\* A handler that takes the mutex and enters.
LEMMA Enters ==
  ASSUME MutexInv, NEW c \in Conns, NEW label, GoesTo(c, label),
         label \in Critical, mtx = NONE, mtx' = c, timer' = timer
  PROVE  MutexInv'
BY ThreadsAssumption DEF MutexInv, MutexExact, Inside, GoesTo

\* A handler that leaves and gives the mutex back.
LEMMA Leaves ==
  ASSUME MutexInv, NEW c \in Conns, NEW label, GoesTo(c, label),
         thread[c].pc \in Critical, label \notin Critical, mtx' = NONE, timer' = timer
  PROVE  MutexInv'
BY ThreadsAssumption DEF MutexInv, MutexExact, Inside, GoesTo

\* A step of somebody else.
LEMMA NoHandlerMoves ==
  ASSUME MutexInv, UNCHANGED <<thread, mtx, timer>>
  PROVE  MutexInv'
BY DEF MutexInv, MutexExact, Inside, Shape

\* Handler c receives some lines and goes on to label.
Gets(c, label) == At(c, "recv") /\ \E p, n : Receives(c, p, n, label)

\* Every step of a handler keeps the mutex exact.
LEMMA HandlerKeepsMutex ==
  ASSUME MutexInv, NEW c \in Conns, handle_connection(c) \/ no_memory(c)
  PROVE  MutexInv'
<1>0. Shape
  BY DEF MutexInv
<1>1. CASE packet(c)
  <2> DEFINE label == IF sig_received THEN "exit" ELSE "recv"
  <2>1. GoesTo(c, label)
    BY <1>0, <1>1, GotoEffect DEF packet, Moves
  <2>2. thread[c].pc \notin Critical /\ label \notin Critical /\ UNCHANGED <<mtx, timer>>
    BY <1>1 DEF packet, At, Moves, timerVars, Critical
  <2> QED
    BY <2>1, <2>2, StaysSide
<1>2. CASE recv(c)
  <2>1. GoesTo(c, "lines")
    BY <1>0, <1>2 DEF recv, Receives, GoesTo, Shape
  <2>2. thread[c].pc \notin Critical /\ "lines" \notin Critical /\ UNCHANGED <<mtx, timer>>
    BY <1>2 DEF recv, Receives, At, timerVars, Critical
  <2> QED
    BY <2>1, <2>2, StaysSide
<1>3. CASE recv_ends(c)
  <2>1. GoesTo(c, "exit")
    BY <1>0, <1>3, GotoEffect DEF recv_ends, Moves
  <2>2. thread[c].pc \notin Critical /\ "exit" \notin Critical /\ UNCHANGED <<mtx, timer>>
    BY <1>3 DEF recv_ends, At, Moves, timerVars, Critical
  <2> QED
    BY <2>1, <2>2, StaysSide
<1>4. CASE ioctl(c)
  <2>1. GoesTo(c, thread[c].pc)
    BY <1>0, <1>4 DEF ioctl, GoesTo, Shape
  <2>2. UNCHANGED <<mtx, timer>>
    BY <1>4 DEF ioctl, timerVars
  <2> QED
    BY <2>1, <2>2, StaysSide
<1>5. CASE lock_write(c)
  <2>1. GoesTo(c, "write")
    BY <1>0, <1>5, GotoEffect DEF lock_write, LocksAndMoves
  <2>2. "write" \in Critical /\ mtx = NONE /\ mtx' = c /\ timer' = timer
    BY <1>5 DEF lock_write, LocksAndMoves, timerVars, Critical
  <2> QED
    BY <2>1, <2>2, Enters
<1>6. CASE write(c)
  <2>1. GoesTo(c, "lines")
    BY <1>0, <1>6 DEF write, GoesTo, Shape
  <2>2. thread[c].pc \in Critical /\ "lines" \notin Critical /\ mtx' = NONE /\ timer' = timer
    BY <1>6 DEF write, At, timerVars, Critical
  <2> QED
    BY <2>1, <2>2, Leaves
<1>7. CASE write_fails(c)
  <2>1. GoesTo(c, "exit")
    BY <1>0, <1>7, GotoEffect DEF write_fails, UnlocksAndMoves
  <2>2. thread[c].pc \in Critical /\ "exit" \notin Critical /\ mtx' = NONE /\ timer' = timer
    BY <1>7 DEF write_fails, At, UnlocksAndMoves, timerVars, Critical
  <2> QED
    BY <2>1, <2>2, Leaves
<1>8. CASE close_data(c)
  <2>1. GoesTo(c, "open")
    BY <1>0, <1>8, GotoEffect DEF close_data
  <2>2. thread[c].pc \notin Critical /\ "open" \notin Critical /\ UNCHANGED <<mtx, timer>>
    BY <1>8 DEF close_data, LinesDone, At, timerVars, Critical
  <2> QED
    BY <2>1, <2>2, StaysSide
<1>9. CASE open_data(c)
  <2>1. GoesTo(c, "lock")
    BY <1>0, <1>9, GotoEffect DEF open_data
  <2>2. thread[c].pc \notin Critical /\ "lock" \notin Critical /\ UNCHANGED <<mtx, timer>>
    BY <1>9 DEF open_data, At, timerVars, Critical
  <2> QED
    BY <2>1, <2>2, StaysSide
<1>10. CASE lock_lseek(c)
  <2>1. GoesTo(c, "lseek")
    BY <1>0, <1>10, GotoEffect DEF lock_lseek, LocksAndMoves
  <2>2. "lseek" \in Critical /\ mtx = NONE /\ mtx' = c /\ timer' = timer
    BY <1>10 DEF lock_lseek, LocksAndMoves, timerVars, Critical
  <2> QED
    BY <2>1, <2>2, Enters
<1>11. CASE lseek(c)
  <2>1. GoesTo(c, "lock")
    BY <1>0, <1>11, GotoEffect DEF lseek
  <2>2. thread[c].pc \in Critical /\ "lock" \notin Critical /\ mtx' = NONE /\ timer' = timer
    BY <1>11 DEF lseek, At, timerVars, Critical
  <2> QED
    BY <2>1, <2>2, Leaves
<1>12. CASE lock_read(c)
  <2>1. GoesTo(c, "read")
    BY <1>0, <1>12, GotoEffect DEF lock_read, LocksAndMoves
  <2>2. "read" \in Critical /\ mtx = NONE /\ mtx' = c /\ timer' = timer
    BY <1>12 DEF lock_read, LocksAndMoves, timerVars, Critical
  <2> QED
    BY <2>1, <2>2, Enters
<1>13. CASE read(c)
  <2>1. GoesTo(c, "send")
    BY <1>0, <1>13 DEF read, GoesTo, Shape
  <2>2. thread[c].pc \in Critical /\ "send" \in Critical /\ UNCHANGED <<mtx, timer>>
    BY <1>13 DEF read, At, timerVars, Critical
  <2> QED
    BY <2>1, <2>2, StaysSide
<1>14. CASE read_ends(c)
  <2>1. GoesTo(c, "packet")
    BY <1>0, <1>14, GotoEffect DEF read_ends, UnlocksAndMoves
  <2>2. thread[c].pc \in Critical /\ "packet" \notin Critical /\ mtx' = NONE /\ timer' = timer
    BY <1>14 DEF read_ends, At, UnlocksAndMoves, timerVars, Critical
  <2> QED
    BY <2>1, <2>2, Leaves
<1>15. CASE send(c)
  <2>1. GoesTo(c, "read")
    BY <1>0, <1>15, GotoEffect DEF send, Sends
  <2>2. thread[c].pc \in Critical /\ "read" \in Critical /\ UNCHANGED <<mtx, timer>>
    BY <1>15 DEF send, Sends, At, timerVars, Critical
  <2> QED
    BY <2>1, <2>2, StaysSide
<1>16. CASE send_fails(c) \/ (At(c, "send") /\ UnlocksAndMoves(c, "exit"))
  <2>1. GoesTo(c, "exit")
    BY <1>0, <1>16, GotoEffect DEF send_fails, UnlocksAndMoves
  <2>2. thread[c].pc \in Critical /\ "exit" \notin Critical /\ mtx' = NONE /\ timer' = timer
    BY <1>16 DEF send_fails, At, UnlocksAndMoves, timerVars, Critical
  <2> QED
    BY <2>1, <2>2, Leaves
<1>17. CASE LinesDone(c) /\ Moves(c, "exit")
  <2>1. GoesTo(c, "exit")
    BY <1>0, <1>17, GotoEffect DEF Moves
  <2>2. thread[c].pc \notin Critical /\ "exit" \notin Critical /\ UNCHANGED <<mtx, timer>>
    BY <1>17 DEF LinesDone, At, Moves, timerVars, Critical
  <2> QED
    BY <2>1, <2>2, StaysSide
<1>18. CASE thread_cleanup(c)
  <2>1. GoesTo(c, "done")
    BY <1>0, <1>18, GotoEffect DEF thread_cleanup, Moves
  <2>2. thread[c].pc \notin Critical /\ "done" \notin Critical /\ UNCHANGED <<mtx, timer>>
    BY <1>18 DEF thread_cleanup, At, Moves, timerVars, Critical
  <2> QED
    BY <2>1, <2>2, StaysSide
<1>19. CASE waits(c)
  BY <1>19, NoHandlerMoves DEF waits, timerVars
<1>20. CASE Gets(c, "exit")
  <2>1. GoesTo(c, "exit")
    BY <1>0, <1>20 DEF Gets, Receives, GoesTo, Shape
  <2>2. thread[c].pc \notin Critical /\ "exit" \notin Critical /\ UNCHANGED <<mtx, timer>>
    BY <1>20 DEF Gets, Receives, At, timerVars, Critical
  <2> QED
    BY <2>1, <2>2, StaysSide
<1>21. CASE Sends(c, "exit") /\ mtx' = NONE
  <2>1. GoesTo(c, "exit")
    BY <1>0, <1>21, GotoEffect DEF Sends
  <2>2. thread[c].pc \in Critical /\ "exit" \notin Critical /\ mtx' = NONE /\ timer' = timer
    BY <1>21 DEF Sends, At, timerVars, Critical
  <2> QED
    BY <2>1, <2>2, Leaves
<1> QED
  BY <1>1, <1>2, <1>3, <1>4, <1>5, <1>6, <1>7, <1>8, <1>9, <1>10, <1>11, <1>12, <1>13,
     <1>14, <1>15, <1>16, <1>17, <1>18, <1>19, <1>20, <1>21
  DEF handle_connection, no_memory, Gets

\* A handler exists only for an accepted connection: those not accepted yet,
\* and the one main is about to create a thread for, are nowhere in the code.
Waiting ==
  /\ list \in Seq(Conns)
  /\ DOMAIN client = Conns /\ \A c \in Conns : "state" \in DOMAIN client[c]
  /\ \A c \in Conns : client[c].state \in {"new", "pending"} => thread[c].pc = "none"
  /\ main = "spawn" => /\ list # <<>> /\ thread[Head(list)].pc = "none"
                       /\ client[Head(list)].state \notin {"new", "pending"}

\* A step of handler c leaves everybody else's place alone.
OnlyMoves(c) ==
  /\ thread[c].pc # "none"
  /\ \A d \in Conns : d # c => thread'[d].pc = thread[d].pc
  /\ UNCHANGED <<main, list, client>>

\* Every handler action is such a step.
LEMMA HandlerMovesItself ==
  ASSUME Shape, NEW c \in Conns, handle_connection(c) \/ no_memory(c)
  PROVE  OnlyMoves(c)
<1> USE DEF OnlyMoves, At, mainVars, connVars, netVars
<1>1. CASE packet(c) \/ recv_ends(c) \/ thread_cleanup(c) \/ (LinesDone(c) /\ Moves(c, "exit"))
  BY <1>1 DEF Shape, packet, recv_ends, thread_cleanup, LinesDone, Moves, Goto
<1>2. CASE recv(c) \/ Gets(c, "exit")
  BY <1>2 DEF Shape, recv, Gets, Receives
<1>3. CASE ioctl(c)
  BY <1>3 DEF Shape, ioctl, HasLine
<1>4. CASE lock_write(c) \/ lock_lseek(c) \/ lock_read(c)
  BY <1>4 DEF Shape, lock_write, lock_lseek, lock_read, LocksAndMoves, Goto, HasLine, LinesDone
<1>5. CASE write_fails(c) \/ read_ends(c) \/ send_fails(c) \/ (At(c, "send") /\ UnlocksAndMoves(c, "exit"))
  BY <1>5 DEF Shape, write_fails, read_ends, send_fails, UnlocksAndMoves, Goto
<1>6. CASE write(c)
  BY <1>6 DEF Shape, write
<1>7. CASE close_data(c) \/ open_data(c) \/ lseek(c) \/ send(c) \/ Sends(c, "exit")
  BY <1>7 DEF Shape, close_data, open_data, lseek, send, Sends, Goto, LinesDone
<1>8. CASE read(c)
  BY <1>8 DEF Shape, read
<1>9. CASE waits(c)
  BY <1>9 DEF waits
<1> QED
  BY <1>1, <1>2, <1>3, <1>4, <1>5, <1>6, <1>7, <1>8, <1>9 DEF handle_connection, no_memory, Gets

\* So it does not disturb the connections that wait for their handler.
LEMMA HandlerKeepsWaiting ==
  ASSUME Shape, Waiting, NEW c \in Conns, OnlyMoves(c)
  PROVE  Waiting'
<1>1. list # <<>> => Head(list) \in Conns
  BY DEF Waiting
<1> QED
  BY <1>1 DEF Waiting, OnlyMoves

Inv == MutexInv /\ Waiting

\* The clients change their own state only.
LEMMA ClientKeepsInv ==
  ASSUME Inv, NEW c \in Conns, connect(c) \/ client_step(c)
  PROVE  Inv'
<1>0. list # <<>> => Head(list) \in Conns
  BY DEF Inv, Waiting
<1>1. UNCHANGED <<thread, mtx, timer, main, list>>
  BY DEF connect, client_step, client_send, client_read, client_close, mainVars, connVars, timerVars
<1>2. MutexInv'
  BY <1>1, NoHandlerMoves DEF Inv
<1>3. /\ DOMAIN client' = Conns /\ \A d \in Conns : "state" \in DOMAIN client'[d]
      /\ \A d \in Conns : client'[d].state \in {"new", "pending"} => client[d].state \in {"new", "pending"}
  BY DEF Inv, Waiting, connect, client_step, client_send, client_read, client_close
<1> QED
  BY <1>0, <1>1, <1>2, <1>3 DEF Inv, Waiting

\* The steps of the timer's thread lock, wait and unlock.
LEMMA TimerKeepsInv ==
  ASSUME Inv, write_timestamp_lock \/ write_timestamp \/ write_timestamp_waits
  PROVE  Inv'
<1>1. UNCHANGED <<thread, main, list, client>>
  BY DEF write_timestamp_lock, write_timestamp, write_timestamp_waits, mainVars, connVars, netVars
<1>2. Waiting' /\ Shape'
  BY <1>1 DEF Inv, MutexInv, Shape, Waiting
<1>3. CASE write_timestamp_lock
  BY <1>1, <1>2, <1>3, ThreadsAssumption
  DEF write_timestamp_lock, Inv, MutexInv, MutexExact, Inside
<1>4. CASE write_timestamp
  BY <1>1, <1>2, <1>4, ThreadsAssumption
  DEF write_timestamp, Inv, MutexInv, MutexExact, Inside
<1>5. CASE write_timestamp_waits
  <2>1. UNCHANGED <<mtx, timer>>
    BY <1>5 DEF write_timestamp_waits, timerVars
  <2> QED
    BY <1>1, <1>2, <2>1, NoHandlerMoves DEF Inv
<1> QED
  BY <1>3, <1>4, <1>5

\* Creating a thread for the connection just accepted.
LEMMA SpawnKeepsInv ==
  ASSUME Inv, spawn
  PROVE  Inv'
<1>1. Head(list) \in Conns /\ thread[Head(list)].pc = "none"
  BY DEF Inv, Waiting, spawn
<1>2. PICK label \in {"packet", "exit", "none"} : Goto(Head(list), label)
  BY DEF spawn
<1>3. GoesTo(Head(list), label)
  BY <1>1, <1>2, GotoEffect DEF Inv, MutexInv
<1>4. label \notin Critical /\ "none" \notin Critical /\ UNCHANGED <<mtx, timer>>
  BY <1>2 DEF spawn, Critical, timerVars
<1>5. MutexInv'
  BY <1>1, <1>3, <1>4, StaysSide DEF Inv
<1>6. /\ UNCHANGED <<list, client>> /\ main' = "scan"
      /\ \A c \in Conns : client[c].state \in {"new", "pending"} => c # Head(list)
  BY DEF spawn, netVars, Inv, Waiting
<1>7. Waiting'
  BY <1>3, <1>6 DEF Inv, Waiting, GoesTo
<1> QED
  BY <1>5, <1>7 DEF Inv

\* accept puts a connection whose handler does not exist yet at the head of the
\* list.
LEMMA AcceptKeepsInv ==
  ASSUME Inv, NEW c \in Conns, accept(c)
  PROVE  Inv'
<1>1. /\ Shape'
      /\ \A d \in Conns : thread'[d].pc = thread[d].pc
      /\ UNCHANGED <<mtx, timer>>
  BY DEF Inv, MutexInv, Shape, accept, timerVars
<1>2. MutexInv'
  BY <1>1 DEF Inv, MutexInv, MutexExact, Inside
<1>3. /\ thread[c].pc = "none"
      /\ list' \in Seq(Conns) /\ list' # <<>> /\ Head(list') = c
  BY DEF Inv, Waiting, accept, Pending
<1>4. /\ DOMAIN client' = Conns /\ \A d \in Conns : "state" \in DOMAIN client'[d]
      /\ client'[c].state = "open"
      /\ \A d \in Conns : d # c => client'[d] = client[d]
  BY DEF Inv, Waiting, accept
<1> QED
  BY <1>1, <1>2, <1>3, <1>4 DEF Inv, Waiting

\* The other steps of main leave the handlers alone; reap shortens the list.
LEMMA MainKeepsInv ==
  ASSUME Inv, \/ main_bind \/ daemonize \/ main_listen \/ main_top \/ accept_fails
              \/ reap \/ scan_ends \/ drain \/ cleanup \/ sigpipe \/ no_node \/ gives_up
  PROVE  Inv'
<1>1. UNCHANGED <<thread, mtx, timer, client>> /\ main' # "spawn"
  BY DEF main_bind, daemonize, main_listen, main_top, accept_fails, reap, scan_ends, drain,
         cleanup, sigpipe, no_node, gives_up, Ends, restVars, timerVars, netVars
<1>2. MutexInv'
  BY <1>1, NoHandlerMoves DEF Inv
<1>3. list' \in Seq(Conns)
  <2>1. CASE reap
    <3>1. ASSUME NEW c PROVE Removed(c) \in Seq(Conns)
      BY DEF Inv, Waiting, Removed
    <3> QED
      BY <2>1, <3>1 DEF reap, Inv, Waiting
  <2>2. CASE ~reap
    BY <2>2 DEF main_bind, daemonize, main_listen, main_top, accept_fails, scan_ends, drain,
                cleanup, sigpipe, no_node, gives_up, Ends, connVars, Inv, Waiting
  <2> QED
    BY <2>1, <2>2
<1> QED
  BY <1>1, <1>2, <1>3 DEF Inv, Waiting

\* The invariant is inductive.
LEMMA Inductive == Inv /\ [Next]_vars => Inv'
<1> SUFFICES ASSUME Inv, [Next]_vars PROVE Inv'
  OBVIOUS
<1>1. CASE main_thread
  BY <1>1, AcceptKeepsInv, MainKeepsInv, SpawnKeepsInv DEF main_thread
<1>2. ASSUME NEW c \in Conns, handle_connection(c) \/ no_memory(c) PROVE Inv'
  BY <1>2, HandlerKeepsMutex, HandlerMovesItself, HandlerKeepsWaiting DEF Inv, MutexInv
<1>3. CASE write_timestamp_lock \/ write_timestamp \/ write_timestamp_waits
  BY <1>3, TimerKeepsInv
<1>4. ASSUME NEW c \in Conns, connect(c) \/ client_step(c) PROVE Inv'
  BY <1>4, ClientKeepsInv
<1>5. CASE sig_handler \/ UNCHANGED vars
  <2>1. UNCHANGED <<thread, mtx, timer, client, main, list>>
    BY <1>5 DEF sig_handler, vars, mainVars, connVars, restVars, timerVars, netVars
  <2>2. MutexInv'
    BY <2>1, NoHandlerMoves DEF Inv
  <2> QED
    BY <2>1, <2>2 DEF Inv, Waiting
<1>6. CASE sigpipe \/ no_node \/ gives_up
  BY <1>6, MainKeepsInv
<1> QED
  BY <1>1, <1>2, <1>3, <1>4, <1>5, <1>6 DEF Next, Exited

\* data_file.mtx is always held by exactly the thread inside a critical section
\* of handle_connection or write_timestamp, for any connections, scripts,
\* descriptors and failures, in both builds.
THEOREM MutexCorrect == Spec => []MutexExact
<1>1. Init => Inv
  BY DEF Init, Inv, MutexInv, Shape, MutexExact, Inside, Waiting, Critical
<1>2. Inv => MutexExact
  BY DEF Inv, MutexInv
<1> QED
  BY <1>1, <1>2, Inductive, PTL DEF Spec

-----------------------------------------------------------------------------
(* The invariant.                                                            *)

FdKinds == {FREE, NULL_DEV, LISTEN, BOUND, LOG, <<"std">>} \cup ({"sock"} \X Conns) \cup ({"file"} \X Nat)

Setup == {"setup", "daemon", "listen"}

InList(c) == \E i \in 1 .. Len(list) : list[i] = c

\* The types of what TypeOK is about, and of the handlers' descriptors.
FdTypes ==
  /\ fds \in [Fds -> FdKinds]
  /\ data_fd \in Fds \cup {NO_FD} /\ sock_fd \in Fds
  /\ mtx \in Threads \cup {NONE}
  /\ main \in Setup \cup {"top", "accept", "spawn", "scan", "drain", "exited"}
  /\ \A c \in Conns : "fd" \in DOMAIN thread[c] /\ thread[c].fd \in Fds \cup {NO_FD}

\* No number that is closed or written to is the listening socket's.
ListenerInv ==
  /\ main \notin {"setup", "exited"} =>
       /\ fds[sock_fd] \in {BOUND, LISTEN}
       /\ \A c \in Conns : thread[c].fd # sock_fd
  /\ main \notin Setup \cup {"exited"} => data_fd # sock_fd
  /\ main \in Setup => \A c \in Conns : thread[c].pc = "none" /\ thread[c].fd = NO_FD

\* No connection is twice in the list, or visited that is not in it.
ListInv ==
  /\ list \in Seq(Conns) /\ \A i, j \in 1 .. Len(list) : list[i] = list[j] => i = j
  /\ scan \in Seq(Conns) /\ \A i, j \in 1 .. Len(scan) : scan[i] = scan[j] => i = j
  /\ \A i \in 1 .. Len(scan) : InList(scan[i])
  /\ active_conns \in Nat /\ active_conns <= Len(list)
  /\ main # "exited" => active_conns = Len(list) - (IF main = "spawn" THEN 1 ELSE 0)
  /\ main \in Setup => list = <<>>
  /\ \A c \in Conns : /\ client[c].state \in {"new", "pending"} => ~InList(c)
                      /\ Running(c) => InList(c)
                      /\ InList(c) => thread[c].fd \in Fds


\* Clients that come one at a time: only one of them has a handler at work.
AloneInv ==
  /\ \A c \in Conns : "patient" \in DOMAIN client[c]
  /\ Patient => \A c, d \in Conns : ~Idle(c) /\ ~Idle(d) => c = d

\* Whether the descriptors are kept apart: always with the plain file, and with
\* the device when clients come one at a time.
Apart == USE_AESD_CHAR_DEVICE => Patient

Reopening == \E c \in Conns : thread[c].pc = "open"

Dangling == data_fd = NO_FD \/ fds[data_fd] = FREE

\* The sockets are those of the list, and there is at most one open file, the
\* one data_file.fd names, but for the time between a handler's close and open.
OwnInv ==
  main # "exited" =>
    /\ \A f \in Fds : \A c \in Conns : fds[f] = <<"sock", c>> <=> InList(c) /\ thread[c].fd = f
    /\ \A f \in Fds : IsFile(f) =>
         f = data_fd /\ (active_conns > 0 \/ main \in {"scan", "drain"})
    /\ active_conns > 0 \/ main = "scan" => IsFile(data_fd) \/ data_fd = NO_FD \/ Reopening
    /\ Reopening => USE_AESD_CHAR_DEVICE /\ Dangling

ApartInv == Apart => OwnInv

FdInv == Inv /\ FdTypes /\ ListenerInv /\ ListInv /\ AloneInv /\ ApartInv

-----------------------------------------------------------------------------
(* The descriptor table.                                                     *)

\* What Opened does: the lowest free descriptor, if there is one, is taken.
LEMMA OpenedIs ==
  ASSUME NEW t \in [Fds -> FdKinds], NEW what \in FdKinds
  PROVE  /\ Lowest(t) \in Fds \cup {NO_FD}
         /\ Lowest(t) # NO_FD => t[Lowest(t)] = FREE
         /\ Lowest(t) = NO_FD => \A f \in Fds : t[f] # FREE
         /\ Opened(t, what) \in [Fds -> FdKinds]
         /\ \A f \in Fds : Opened(t, what)[f] = IF f = Lowest(t) THEN what ELSE t[f]
<1>1. FreeFds(t) \in SUBSET Nat /\ FreeFds(t) \subseteq Fds /\ Fds \subseteq Nat
  BY FdsAssumption DEF FreeFds, Fds
<1>2. FreeFds(t) # {} => Lowest(t) \in FreeFds(t)
  BY <1>1, MinOfSet DEF Lowest
<1>3. FreeFds(t) = {} => Lowest(t) = NO_FD /\ \A f \in Fds : t[f] # FREE
  BY DEF Lowest, FreeFds
<1>4. NO_FD \notin Nat
  BY DEF NO_FD
<1>5. /\ Lowest(t) \in Fds \cup {NO_FD}
      /\ Lowest(t) # NO_FD => Lowest(t) \in Fds /\ t[Lowest(t)] = FREE
      /\ Lowest(t) = NO_FD => \A f \in Fds : t[f] # FREE
  BY <1>1, <1>2, <1>3, <1>4 DEF FreeFds
<1>6. NO_FD \notin Fds
  BY <1>1, <1>4
<1> QED
  BY <1>5, <1>6 DEF Opened

\* -1 is no descriptor.
LEMMA NoDescriptor == NO_FD \notin Fds
BY FdsAssumption DEF NO_FD, Fds

\* The kinds of descriptors differ.
LEMMA NamesDiffer ==
  /\ FREE \notin {BOUND, LISTEN} /\ FREE[1] # "file" /\ FREE[1] # "sock"
  /\ \A c \in Conns : <<"sock", c>> \notin {FREE, BOUND, LISTEN, LOG, NULL_DEV, <<"file", 0>>}
  /\ <<"file", 0>>[1] = "file" /\ BOUND[1] # "file" /\ LISTEN[1] # "file" /\ LOG[1] # "file"
  /\ BOUND[1] # "sock" /\ LISTEN[1] # "sock" /\ LOG[1] # "sock"
BY DEF FREE, BOUND, LISTEN, LOG, NULL_DEV

\* What a descriptor refers to says what kind it is.
LEMMA KindsDiffer ==
  ASSUME NEW k \in FdKinds
  PROVE  /\ k[1] = "file" => k[2] \in Nat /\ k # FREE /\ k \notin {BOUND, LISTEN}
         /\ k[1] = "file" => \A c \in Conns : k # <<"sock", c>>
         /\ k[1] = "sock" => k[2] \in Conns /\ k = <<"sock", k[2]>>
BY DEF FdKinds, FREE, BOUND, LISTEN, LOG, NULL_DEV

-----------------------------------------------------------------------------
(* What a step of a handler does to the descriptors.                         *)

FdsStep ==
  \/ UNCHANGED <<fds, data_fd>>
  \/ /\ IsFile(data_fd) /\ data_fd' = data_fd
     /\ \E p \in Nat : fds' = [fds EXCEPT ![data_fd] = <<"file", p>>]

HandlerStep(c) ==
  /\ Alive /\ Running(c)
  /\ mtx' \in {mtx, NONE, c}
  /\ DOMAIN thread' = Conns
  /\ \A d \in Conns : /\ "pc" \in DOMAIN thread'[d] /\ "fd" \in DOMAIN thread'[d]
                      /\ thread'[d].fd = thread[d].fd
                      /\ d # c => thread'[d].pc = thread[d].pc
  /\ thread'[c].pc # "none"
  /\ UNCHANGED <<mainVars, client>>
  /\ \/ FdsStep /\ thread[c].pc # "open" /\ thread'[c].pc # "open"
     \/ /\ USE_AESD_CHAR_DEVICE /\ thread[c].pc # "open" /\ thread'[c].pc = "open"
        /\ data_fd' = data_fd /\ fds' = Closed(data_fd)
     \/ /\ thread[c].pc = "open" /\ thread'[c].pc # "open"
        /\ data_fd' = NewFd /\ fds' = Opened(fds, <<"file", 0>>)

\* Goto moves one handler and leaves the descriptors of all alone.
LEMMA GotoKeepsFds ==
  ASSUME Shape, FdTypes, NEW c \in Conns, NEW label, Goto(c, label)
  PROVE  /\ DOMAIN thread' = Conns
         /\ \A d \in Conns : /\ "pc" \in DOMAIN thread'[d] /\ "fd" \in DOMAIN thread'[d]
                             /\ thread'[d].fd = thread[d].fd
                             /\ d # c => thread'[d].pc = thread[d].pc
         /\ thread'[c].pc = label
BY DEF Shape, FdTypes, Goto

\* A write to the data file moves its position.
LEMMA WriteMovesPosition ==
  ASSUME FdTypes, NEW t, NEW line, WriteData(t, line), data_fd' = data_fd
  PROVE  FdsStep
<1>1. CASE IsFile(data_fd) /\ fds' = WritePosition(data_fd)
  <2>1. Position(data_fd) + 1 \in Nat
    BY <1>1, KindsDiffer DEF FdTypes, IsFile, Position
  <2> QED
    BY <1>1, <2>1 DEF WritePosition, FdsStep
<1>2. CASE UNCHANGED fds
  BY <1>2 DEF FdsStep
<1> QED
  BY <1>1, <1>2 DEF WriteData, OnFile

\* Every action of a handler is such a step.
LEMMA HandlerSteps ==
  ASSUME Shape, FdTypes, NEW c \in Conns, handle_connection(c) \/ no_memory(c)
  PROVE  HandlerStep(c)
<1> USE DEF At, Running, HandlerStep
<1>1. CASE packet(c) \/ recv_ends(c) \/ thread_cleanup(c) \/ (LinesDone(c) /\ Moves(c, "exit"))
  BY <1>1, GotoKeepsFds DEF packet, recv_ends, thread_cleanup, LinesDone, Moves, FdsStep, ioVars, netVars
<1>2. CASE recv(c) \/ Gets(c, "exit")
  BY <1>2 DEF Shape, FdTypes, recv, Gets, Receives, FdsStep, ioVars
<1>3. CASE ioctl(c)
  <2>1. FdsStep
    BY <1>3, PlansAssumption DEF ioctl, IsCommand, FdsStep
  <2> QED
    BY <1>3, <2>1 DEF Shape, FdTypes, ioctl, HasLine, netVars
<1>4. CASE lock_write(c) \/ lock_lseek(c) \/ lock_read(c)
  BY <1>4, GotoKeepsFds DEF lock_write, lock_lseek, lock_read, LocksAndMoves, HasLine, LinesDone, FdsStep,
     ioVars, netVars
<1>5. CASE write_fails(c) \/ read_ends(c) \/ send_fails(c) \/ (At(c, "send") /\ UnlocksAndMoves(c, "exit"))
  BY <1>5, GotoKeepsFds DEF write_fails, read_ends, send_fails, UnlocksAndMoves, FdsStep, ioVars, netVars
<1>6. CASE write(c)
  <2>1. FdsStep
    BY <1>6, WriteMovesPosition DEF write
  <2> QED
    BY <1>6, <2>1 DEF Shape, FdTypes, write
<1>7. CASE close_data(c)
  <2>1. Goto(c, "open") /\ At(c, "lines") /\ USE_AESD_CHAR_DEVICE
        /\ data_fd' = data_fd /\ fds' = Closed(data_fd) /\ UNCHANGED <<mtx, mainVars, client>>
    BY <1>7 DEF close_data, LinesDone, netVars
  <2> QED
    BY <2>1, GotoKeepsFds
<1>8. CASE open_data(c)
  <2>1. Goto(c, "lock") /\ At(c, "open") /\ data_fd' = NewFd /\ fds' = Opened(fds, <<"file", 0>>)
        /\ UNCHANGED <<mtx, mainVars, client>>
    BY <1>8 DEF open_data, netVars
  <2> QED
    BY <2>1, GotoKeepsFds
<1>9. CASE lseek(c)
  <2>1. FdsStep
    BY <1>9 DEF lseek, FdsStep
  <2>2. Goto(c, "lock") /\ At(c, "lseek") /\ mtx' = NONE /\ UNCHANGED <<mainVars, client>>
    BY <1>9 DEF lseek, netVars
  <2> QED
    BY <2>1, <2>2, GotoKeepsFds
<1>10. CASE send(c) \/ (Sends(c, "exit") /\ mtx' = NONE)
  BY <1>10, GotoKeepsFds DEF send, Sends, FdsStep, ioVars
<1>11. CASE read(c)
  <2>1. FdsStep
    <3>1. CASE IsFile(data_fd) /\ fds' = [fds EXCEPT ![data_fd] = <<"file", Position(data_fd) + 1>>]
      <4>1. Position(data_fd) + 1 \in Nat
        BY <3>1, KindsDiffer DEF FdTypes, IsFile, Position
      <4> QED
        BY <1>11, <3>1, <4>1 DEF read, FdsStep
    <3>2. CASE UNCHANGED fds
      BY <1>11, <3>2 DEF read, FdsStep
    <3> QED
      BY <1>11, <3>1, <3>2 DEF read, OnFile
  <2> QED
    BY <1>11, <2>1 DEF Shape, FdTypes, read
<1>12. CASE waits(c)
  BY <1>12 DEF Shape, FdTypes, waits, FdsStep, ioVars, netVars
<1> QED
  BY <1>1, <1>2, <1>3, <1>4, <1>5, <1>6, <1>7, <1>8, <1>9, <1>10, <1>11, <1>12
  DEF handle_connection, no_memory, Gets

-----------------------------------------------------------------------------
(* Handlers and the timer.                                                   *)

\* A handler, or the timer's thread, changes only what data_file.fd names.
LEMMA FdsStepKeeps ==
  ASSUME FdTypes, FdsStep
  PROVE  /\ fds' \in [Fds -> FdKinds] /\ data_fd' = data_fd
         /\ \A f \in Fds : IsFile(f)' <=> IsFile(f)
         /\ \A f \in Fds : ~IsFile(f) => fds'[f] = fds[f]
<1>1. CASE UNCHANGED <<fds, data_fd>>
  BY <1>1 DEF FdTypes, IsFile
<1>2. CASE IsFile(data_fd) /\ data_fd' = data_fd /\ \E p \in Nat : fds' = [fds EXCEPT ![data_fd] = <<"file", p>>]
  <2>1. PICK p \in Nat : fds' = [fds EXCEPT ![data_fd] = <<"file", p>>]
    BY <1>2
  <2>2. data_fd \in Fds /\ <<"file", p>> \in FdKinds /\ <<"file", p>>[1] = "file"
    BY <1>2 DEF IsFile, FdKinds
  <2>3. fds' \in [Fds -> FdKinds]
        /\ \A f \in Fds : fds'[f] = IF f = data_fd THEN <<"file", p>> ELSE fds[f]
    BY <2>1, <2>2 DEF FdTypes
  <2> QED
    BY <1>2, <2>2, <2>3 DEF IsFile
<1> QED
  BY <1>1, <1>2 DEF FdsStep

\* What closing a descriptor does.
LEMMA ClosedIs ==
  ASSUME FdTypes, NEW f
  PROVE  /\ Closed(f) \in [Fds -> FdKinds]
         /\ \A g \in Fds : Closed(f)[g] = IF g = f THEN FREE ELSE fds[g]
BY DEF FdTypes, Closed, FdKinds

\* A handler keeps the types.
LEMMA HandlerKeepsTypes ==
  ASSUME FdTypes, NEW c \in Conns, HandlerStep(c)
  PROVE  FdTypes'
<1>1. fds' \in [Fds -> FdKinds] /\ data_fd' \in Fds \cup {NO_FD}
  <2>1. CASE FdsStep
    BY <2>1, FdsStepKeeps DEF FdTypes
  <2>2. CASE data_fd' = data_fd /\ fds' = Closed(data_fd)
    BY <2>2, ClosedIs DEF FdTypes
  <2>3. CASE data_fd' = NewFd /\ fds' = Opened(fds, <<"file", 0>>)
    <3>1. <<"file", 0>> \in FdKinds
      BY DEF FdKinds
    <3> QED
      BY <2>3, <3>1, OpenedIs DEF FdTypes, NewFd
  <2> QED
    BY <2>1, <2>2, <2>3 DEF HandlerStep
<1>2. UNCHANGED <<main, sock_fd>>
  BY DEF HandlerStep, mainVars
<1>3. mtx' \in Threads \cup {NONE}
  BY DEF HandlerStep, FdTypes, Threads
<1>4. \A d \in Conns : "fd" \in DOMAIN thread'[d] /\ thread'[d].fd \in Fds \cup {NO_FD}
  BY DEF HandlerStep, FdTypes
<1> QED
  BY <1>1, <1>2, <1>3, <1>4 DEF FdTypes

\* It does not touch the listening socket.
LEMMA HandlerKeepsListener ==
  ASSUME FdTypes, ListenerInv, NEW c \in Conns, HandlerStep(c)
  PROVE  ListenerInv'
<1>1. UNCHANGED <<main, sock_fd>> /\ main \notin Setup \cup {"exited"}
  BY DEF HandlerStep, mainVars, ListenerInv, Running, Alive
<1>2. fds[sock_fd] \in {BOUND, LISTEN} /\ data_fd # sock_fd /\ sock_fd \in Fds
  BY <1>1 DEF ListenerInv, FdTypes, Setup
<1>3. fds'[sock_fd] = fds[sock_fd] /\ data_fd' # sock_fd
  <2>1. CASE FdsStep
    <3>1. ~IsFile(sock_fd)
      BY <1>2 DEF IsFile, BOUND, LISTEN
    <3> QED
      BY <1>2, <2>1, <3>1, FdsStepKeeps
  <2>2. CASE data_fd' = data_fd /\ fds' = Closed(data_fd)
    BY <1>2, <2>2, ClosedIs
  <2>3. CASE data_fd' = NewFd /\ fds' = Opened(fds, <<"file", 0>>)
    <3>1. <<"file", 0>> \in FdKinds /\ fds \in [Fds -> FdKinds]
      BY DEF FdKinds, FdTypes
    <3>2. NewFd # sock_fd
      <4>1. NewFd # NO_FD => fds[NewFd] = FREE
        BY <3>1, OpenedIs DEF NewFd
      <4> QED
        BY <1>2, <4>1, NoDescriptor, NamesDiffer
    <3> QED
      BY <1>2, <2>3, <3>1, <3>2, OpenedIs DEF NewFd
  <2> QED
    BY <2>1, <2>2, <2>3 DEF HandlerStep
<1>4. \A d \in Conns : thread'[d].fd # sock_fd
  BY <1>1 DEF HandlerStep, ListenerInv, Setup
<1> QED
  BY <1>1, <1>2, <1>3, <1>4 DEF ListenerInv

\* It does not change the list, and its connection is in it.
LEMMA HandlerKeepsList ==
  ASSUME ListInv, NEW c \in Conns, HandlerStep(c)
  PROVE  ListInv'
<1>1. UNCHANGED <<main, list, scan, active_conns, client>>
  BY DEF HandlerStep, mainVars, connVars
<1>2. \A d \in Conns : InList(d)' <=> InList(d)
  BY <1>1 DEF InList
<1>3. InList(c) /\ \A d \in Conns : thread'[d].fd = thread[d].fd
                                   /\ (d # c => thread'[d].pc = thread[d].pc)
  BY DEF HandlerStep, ListInv
<1>4. \A d \in Conns : Running(d)' => InList(d)
  BY <1>3 DEF Running, ListInv
<1>5. \A i \in 1 .. Len(scan) : scan[i] \in Conns
  BY DEF ListInv
<1> QED
  BY <1>1, <1>2, <1>3, <1>4, <1>5 DEF ListInv

\* A handler that is done stays done.
LEMMA HandlerKeepsAlone ==
  ASSUME AloneInv, NEW c \in Conns, HandlerStep(c)
  PROVE  AloneInv'
<1>1. client' = client /\ \A d \in Conns : Idle(d) => Idle(d)'
  BY DEF HandlerStep, Idle, Running
<1> QED
  BY <1>1 DEF AloneInv, Patient

\* The one handler that closes and opens the device again has its place in the
\* table.
LEMMA HandlerKeepsOwn ==
  ASSUME Inv, FdTypes, ListInv, AloneInv, ApartInv, NEW c \in Conns, HandlerStep(c)
  PROVE  ApartInv'
<1> SUFFICES ASSUME Apart', main' # "exited" PROVE OwnInv'
  BY DEF ApartInv, OwnInv
<1>1. UNCHANGED <<main, list, active_conns, client>>
  BY DEF HandlerStep, mainVars, connVars
<1>2. Apart /\ OwnInv /\ main # "exited"
  BY <1>1 DEF ApartInv, Apart, Patient
<1>3. (\A d \in Conns : InList(d)' <=> InList(d)) /\ \A d \in Conns : thread'[d].fd = thread[d].fd
  BY <1>1 DEF InList, HandlerStep
<1>4. fds \in [Fds -> FdKinds] /\ data_fd \in Fds \cup {NO_FD} /\ <<"file", 0>> \in FdKinds
  BY DEF FdTypes, FdKinds
<1>5. active_conns > 0
  <2>1. PICK i \in 1 .. Len(list) : list[i] = c
    BY DEF HandlerStep, ListInv, InList
  <2>2. main = "spawn" => i # 1
    BY <2>1 DEF HandlerStep, Running, Inv, Waiting
  <2>3. Len(list) \in Nat /\ active_conns = Len(list) - (IF main = "spawn" THEN 1 ELSE 0)
    BY <1>2 DEF ListInv
  <2> QED
    BY <2>1, <2>2, <2>3
<1>6. CASE FdsStep /\ thread[c].pc # "open" /\ thread'[c].pc # "open"
  <2>1. /\ data_fd' = data_fd
        /\ \A f \in Fds : IsFile(f)' <=> IsFile(f)
        /\ \A f \in Fds : ~IsFile(f) => fds'[f] = fds[f]
        /\ fds' \in [Fds -> FdKinds]
    BY <1>6, FdsStepKeeps
  <2>2. Reopening' <=> Reopening
    BY <1>6 DEF Reopening, HandlerStep
  <2>3. \A f \in Fds : \A d \in Conns : fds'[f] = <<"sock", d>> <=> fds[f] = <<"sock", d>>
    BY <1>4, <2>1, KindsDiffer DEF IsFile
  <2>4. IsFile(data_fd)' <=> IsFile(data_fd)
    BY <1>4, <2>1 DEF IsFile
  <2>5. Dangling => Dangling'
    <3>1. data_fd \in Fds /\ fds[data_fd] = FREE => ~IsFile(data_fd)
      BY DEF IsFile, FREE
    <3> QED
      BY <1>4, <2>1, <3>1 DEF Dangling
  <2> QED
    BY <1>1, <1>2, <1>3, <2>1, <2>2, <2>3, <2>4, <2>5 DEF OwnInv
<1>7. CASE /\ USE_AESD_CHAR_DEVICE /\ thread[c].pc # "open" /\ thread'[c].pc = "open"
           /\ data_fd' = data_fd /\ fds' = Closed(data_fd)
  <2>1. \A g \in Fds : fds'[g] = IF g = data_fd THEN FREE ELSE fds[g]
    BY <1>7, ClosedIs
  <2>2. ~Reopening
    <3>1. \A d \in Conns : ~Idle(d) => d = c
      <4>1. ~Idle(c)
        BY DEF HandlerStep, Idle, Running, Inv, Waiting
      <4> QED
        BY <1>2, <1>7, <4>1 DEF AloneInv, Apart
    <3>2. \A d \in Conns : thread[d].pc = "open" => ~Idle(d)
      BY DEF Idle, Inv, Waiting
    <3> QED
      BY <1>7, <3>1, <3>2 DEF Reopening
  <2>3. IsFile(data_fd) \/ data_fd = NO_FD
    BY <1>2, <1>5, <2>2 DEF OwnInv
  <2>4. \A f \in Fds : \A d \in Conns : fds'[f] = <<"sock", d>> <=> fds[f] = <<"sock", d>>
    <3>1. data_fd \in Fds => \A d \in Conns : fds[data_fd] # <<"sock", d>>
      BY <1>4, <2>3, KindsDiffer, NoDescriptor DEF IsFile
    <3> QED
      BY <2>1, <3>1, NamesDiffer
  <2>5. Reopening'
    BY <1>7 DEF Reopening
  <2>6. Dangling'
    BY <1>4, <1>7, <2>1 DEF Dangling
  <2>7. \A f \in Fds : ~IsFile(f)'
    BY <1>2, <2>1 DEF OwnInv, IsFile, FREE
  <2> QED
    BY <1>1, <1>2, <1>3, <1>7, <2>4, <2>5, <2>6, <2>7 DEF OwnInv
<1>8. CASE /\ thread[c].pc = "open" /\ thread'[c].pc # "open"
           /\ data_fd' = NewFd /\ fds' = Opened(fds, <<"file", 0>>)
  <2>1. /\ NewFd \in Fds \cup {NO_FD}
        /\ NewFd # NO_FD => fds[NewFd] = FREE
        /\ \A f \in Fds : fds'[f] = IF f = NewFd THEN <<"file", 0>> ELSE fds[f]
    BY <1>4, <1>8, OpenedIs DEF NewFd
  <2>2. Reopening /\ USE_AESD_CHAR_DEVICE /\ Dangling
    BY <1>2, <1>8 DEF OwnInv, Reopening
  <2>3. ~Reopening'
    <3>1. \A d \in Conns : thread[d].pc = "open" => ~Idle(d)
      BY DEF Idle, Inv, Waiting
    <3>2. \A d \in Conns : thread[d].pc = "open" => d = c
      BY <1>2, <1>8, <2>2, <3>1 DEF AloneInv, Apart
    <3> QED
      BY <1>8, <3>2 DEF Reopening, HandlerStep
  <2>4. \A f \in Fds : ~IsFile(f)
    BY <1>2, <1>4, <2>2, NoDescriptor, NamesDiffer DEF OwnInv, IsFile, Dangling
  <2>5. \A f \in Fds : IsFile(f)' <=> f = NewFd
    BY <2>1, <2>4 DEF IsFile
  <2>6. \A f \in Fds : \A d \in Conns : fds'[f] = <<"sock", d>> <=> fds[f] = <<"sock", d>>
    BY <2>1, NoDescriptor, NamesDiffer
  <2>7. IsFile(data_fd)' \/ data_fd' = NO_FD
    BY <1>8, <2>1 DEF IsFile
  <2> QED
    BY <1>1, <1>2, <1>3, <1>5, <1>8, <2>3, <2>5, <2>6, <2>7 DEF OwnInv
<1> QED
  BY <1>6, <1>7, <1>8 DEF HandlerStep

\* A step of the timer, of a client or of a signal: the handlers and main stay
\* where they are.
OthersStep ==
  /\ FdsStep
  /\ mtx' \in Threads \cup {NONE}
  /\ UNCHANGED <<main, sock_fd, connVars, thread>>
  /\ \A c \in Conns : /\ "patient" \in DOMAIN client'[c]
                      /\ client'[c].patient = client[c].patient
                      /\ client'[c].state \in {"new", "pending"} => client[c].state \in {"new", "pending"}
  /\ Patient => \/ \A d \in Conns : Idle(d) => Idle(d)'
                \/ \E c \in Conns : \A d \in Conns : d # c => Idle(d)'

\* Every action of theirs is such a step.
LEMMA OthersSteps ==
  ASSUME Inv, FdTypes, AloneInv,
         \/ write_timestamp_lock \/ write_timestamp \/ write_timestamp_waits \/ sig_handler \/ UNCHANGED vars
         \/ \E c \in Conns : connect(c) \/ client_step(c)
  PROVE  OthersStep
<1>1. CASE write_timestamp_lock
  BY <1>1 DEF write_timestamp_lock, OthersStep, FdsStep, ioVars, mainVars, netVars, Threads, AloneInv, Idle
<1>2. CASE write_timestamp
  <2>1. FdsStep
    <3>1. CASE WriteData(TIMER, TIMESTAMP)
      BY <1>2, <3>1, WriteMovesPosition DEF write_timestamp
    <3>2. CASE UNCHANGED fds
      BY <1>2, <3>2 DEF write_timestamp, FdsStep
    <3> QED
      BY <1>2, <3>1, <3>2 DEF write_timestamp
  <2> QED
    BY <1>2, <2>1 DEF write_timestamp, OthersStep, mainVars, AloneInv, Idle
<1>3. CASE sig_handler \/ UNCHANGED vars
  <2>1. UNCHANGED <<fds, data_fd, main, sock_fd, connVars, thread, client, mtx>>
    BY <1>3 DEF sig_handler, vars, ioVars, mainVars, restVars, netVars
  <2> QED
    BY <2>1 DEF OthersStep, FdsStep, FdTypes, AloneInv, Idle
<1>4. ASSUME NEW c \in Conns, connect(c)
      PROVE  OthersStep
  <2>1. UNCHANGED <<fds, data_fd, main, sock_fd, connVars, thread, mtx>>
    BY <1>4 DEF connect, ioVars, mainVars
  <2>2. /\ client[c].state = "new" /\ client' = [client EXCEPT ![c].state = "pending"]
        /\ client[c].patient => \A d \in Conns : Idle(d)
        /\ DOMAIN client = Conns /\ \A d \in Conns : "state" \in DOMAIN client[d] /\ "patient" \in DOMAIN client[d]
    BY <1>4 DEF connect, Inv, Waiting, AloneInv
  <2>3. \A d \in Conns : /\ "patient" \in DOMAIN client'[d]
                         /\ client'[d].patient = client[d].patient
                         /\ client'[d].state \in {"new", "pending"} => client[d].state \in {"new", "pending"}
                         /\ d # c => client'[d] = client[d]
    BY <2>2
  <2>4. Patient => \A d \in Conns : d # c => Idle(d)'
    BY <2>1, <2>2, <2>3 DEF Patient, Idle
  <2> QED
    BY <2>1, <2>3, <2>4 DEF OthersStep, FdsStep, FdTypes
<1>5. ASSUME NEW c \in Conns, client_step(c)
      PROVE  OthersStep
  <2>1. UNCHANGED <<fds, data_fd, main, sock_fd, connVars, thread, mtx>>
    BY <1>5 DEF client_step, client_send, client_read, client_close, ioVars, mainVars
  <2>2. /\ DOMAIN client = Conns
        /\ \A d \in Conns : "state" \in DOMAIN client[d] /\ "patient" \in DOMAIN client[d]
    BY DEF Inv, Waiting, AloneInv
  <2>3. \A d \in Conns : /\ "patient" \in DOMAIN client'[d]
                         /\ client'[d].patient = client[d].patient
                         /\ client'[d].state \in {"new", "pending"} => client[d].state \in {"new", "pending"}
                         /\ client[d].state = "new" => client'[d].state = "new"
    <3>1. CASE client_send(c)
      BY <2>2, <3>1 DEF client_send
    <3>2. CASE client_read(c)
      BY <2>2, <3>2 DEF client_read
    <3>3. CASE client_close(c)
      BY <2>2, <3>3 DEF client_close
    <3> QED
      BY <1>5, <3>1, <3>2, <3>3 DEF client_step
  <2>4. \A d \in Conns : Idle(d) => Idle(d)'
    BY <2>1, <2>3 DEF Idle
  <2> QED
    BY <2>1, <2>3, <2>4 DEF OthersStep, FdsStep, FdTypes
<1>6. CASE write_timestamp_waits
  BY <1>6 DEF write_timestamp_waits, OthersStep, FdsStep, FdTypes, ioVars, mainVars, netVars, AloneInv, Idle
<1> QED
  BY <1>1, <1>2, <1>3, <1>4, <1>5, <1>6

\* They keep the invariant.
LEMMA OthersKeep ==
  ASSUME FdTypes, ListenerInv, ListInv, AloneInv, ApartInv, OthersStep
  PROVE  FdTypes' /\ ListenerInv' /\ ListInv' /\ AloneInv' /\ ApartInv'
<1>1. UNCHANGED <<main, sock_fd, list, scan, active_conns, thread>>
  BY DEF OthersStep, connVars
<1>2. /\ fds' \in [Fds -> FdKinds] /\ data_fd' = data_fd
      /\ \A f \in Fds : IsFile(f)' <=> IsFile(f)
      /\ \A f \in Fds : ~IsFile(f) => fds'[f] = fds[f]
  BY FdsStepKeeps DEF OthersStep
<1>3. FdTypes'
  BY <1>1, <1>2 DEF FdTypes, OthersStep
<1>4. ListenerInv'
  <2>1. fds[sock_fd] \in {BOUND, LISTEN} => fds'[sock_fd] = fds[sock_fd]
    BY <1>2, NamesDiffer DEF FdTypes, IsFile
  <2> QED
    BY <1>1, <1>2, <2>1 DEF ListenerInv
<1>5. \A c \in Conns : InList(c)' <=> InList(c)
  BY <1>1 DEF InList
<1>6. ListInv'
  <2>1. \A i \in 1 .. Len(scan) : scan[i] \in Conns
    BY DEF ListInv
  <2> QED
    BY <1>1, <1>5, <2>1 DEF ListInv, OthersStep, Running
<1>7. Patient' <=> Patient
  BY DEF Patient, OthersStep
<1>8. AloneInv'
  BY <1>7 DEF AloneInv, OthersStep
<1>9. ApartInv'
  <2> SUFFICES ASSUME Apart, OwnInv, main # "exited" PROVE OwnInv'
    BY <1>1, <1>7 DEF ApartInv, Apart, OwnInv
  <2>1. \A f \in Fds : \A d \in Conns : fds'[f] = <<"sock", d>> <=> fds[f] = <<"sock", d>>
    BY <1>2, KindsDiffer DEF IsFile, FdTypes
  <2>2. IsFile(data_fd)' <=> IsFile(data_fd)
    BY <1>2 DEF IsFile
  <2>3. Dangling => Dangling'
    <3>1. data_fd \in Fds /\ fds[data_fd] = FREE => ~IsFile(data_fd)
      BY NamesDiffer DEF IsFile
    <3> QED
      BY <1>2, <3>1 DEF Dangling, FdTypes
  <2>4. Reopening' <=> Reopening
    BY <1>1 DEF Reopening
  <2> QED
    BY <1>1, <1>2, <1>5, <2>1, <2>2, <2>3, <2>4 DEF OwnInv
<1> QED
  BY <1>3, <1>4, <1>6, <1>8, <1>9

-----------------------------------------------------------------------------
(* The main thread.                                                          *)

\* The parts of the invariant but the one of the mutex.
Parts == FdTypes /\ ListenerInv /\ ListInv /\ AloneInv /\ ApartInv

\* The end of the process closes everything.
LEMMA EndsKeeps ==
  ASSUME Parts, Ends
  PROVE  Parts'
<1>1. UNCHANGED <<data_fd, sock_fd, list, scan, active_conns, thread, client, mtx>> /\ main' = "exited"
      /\ fds' = AllClosed
  BY DEF Ends, connVars, restVars, netVars
<1>2. fds' \in [Fds -> FdKinds]
  BY <1>1 DEF AllClosed, FdKinds
<1>3. \A c \in Conns : InList(c)' <=> InList(c)
  BY <1>1 DEF InList
<1>4. \A i \in 1 .. Len(scan) : scan[i] \in Conns
  BY DEF ListInv, Parts
<1>5. FdTypes' /\ ListenerInv'
  BY <1>1, <1>2 DEF Parts, FdTypes, ListenerInv, Setup
<1>6. ListInv'
  BY <1>1, <1>3, <1>4 DEF Parts, ListInv, Running, Setup
<1>7. AloneInv' /\ ApartInv'
  BY <1>1 DEF Parts, AloneInv, ApartInv, OwnInv, Patient, Idle
<1> QED
  BY <1>5, <1>6, <1>7 DEF Parts

\* Main goes on without touching a descriptor.
LEMMA GoingOnKeeps ==
  ASSUME Parts, UNCHANGED <<fds, data_fd, sock_fd, list, active_conns, thread, client, mtx>>,
         scan' \in {scan, list, <<>>},
         \/ main' = main
         \/ main = "top" /\ main' \in {"accept", "drain"}
         \/ main = "accept" /\ main' = "drain"
  PROVE  Parts'
<1>1. \A c \in Conns : InList(c)' <=> InList(c)
  BY DEF InList
<1>2. /\ scan' \in Seq(Conns) /\ (\A i, j \in 1 .. Len(scan') : scan'[i] = scan'[j] => i = j)
      /\ \A i \in 1 .. Len(scan') : InList(scan'[i])
  <2>1. CASE scan' = scan
    BY <2>1 DEF Parts, ListInv
  <2>2. CASE scan' = list
    BY <2>2 DEF Parts, ListInv, InList
  <2>3. CASE scan' = <<>>
    BY <2>3
  <2> QED
    BY <2>1, <2>2, <2>3
<1>3. \A i \in 1 .. Len(scan') : scan'[i] \in Conns
  BY <1>2
<1>4. FdTypes' /\ ListenerInv'
  BY DEF Parts, FdTypes, ListenerInv, Setup
<1>5. ListInv'
  BY <1>1, <1>2, <1>3 DEF Parts, ListInv, Running, Setup
<1>6. AloneInv'
  BY DEF Parts, AloneInv, Patient, Idle
<1>7. ApartInv'
  BY <1>1 DEF Parts, ApartInv, OwnInv, Apart, Patient, IsFile, Reopening, Dangling
<1> QED
  BY <1>4, <1>5, <1>6, <1>7 DEF Parts

\* Before main listens there is no connection, no socket of one and no file.
NoConnection ==
  /\ list = <<>> /\ active_conns = 0
  /\ \A c \in Conns : ~InList(c) /\ thread[c].pc = "none" /\ thread[c].fd = NO_FD
  /\ Apart => \A f \in Fds : ~IsFile(f) /\ \A c \in Conns : fds[f] # <<"sock", c>>

\* The setup is such a time.
LEMMA SetupHasNone ==
  ASSUME Parts, main \in Setup
  PROVE  NoConnection
<1>1. list = <<>> /\ Len(list) = 0 /\ active_conns = 0
  BY DEF Parts, ListInv, Setup
<1>2. \A c \in Conns : ~InList(c) /\ thread[c].pc = "none" /\ thread[c].fd = NO_FD
  BY <1>1 DEF InList, Parts, ListenerInv
<1>3. main # "exited" /\ main \notin {"scan", "drain"}
  BY DEF Setup
<1>4. Apart => \A f \in Fds : ~IsFile(f) /\ \A c \in Conns : fds[f] # <<"sock", c>>
  BY <1>1, <1>2, <1>3 DEF Parts, ApartInv, OwnInv
<1> QED
  BY <1>1, <1>2, <1>4 DEF NoConnection

\* A step of the setup: it leaves every descriptor that is open, but the
\* listening socket, and opens no file and no socket of a connection.
LEMMA SetupKeeps ==
  ASSUME Parts, main \in Setup, main' \in {"daemon", "listen", "top"},
         UNCHANGED <<list, scan, active_conns, thread, client, mtx>>,
         fds' \in [Fds -> FdKinds], data_fd' \in Fds \cup {NO_FD}, sock_fd' \in Fds,
         fds'[sock_fd'] \in {BOUND, LISTEN}, main' = "top" => data_fd' # sock_fd',
         Apart => \A f \in Fds : ~IsFile(f)' /\ \A c \in Conns : fds'[f] # <<"sock", c>>
  PROVE  Parts'
<1>0. NoConnection
  BY SetupHasNone
<1>1. \A c \in Conns : ~InList(c)'
  BY <1>0 DEF InList, NoConnection
<1>2. FdTypes'
  BY DEF Parts, FdTypes, Setup
<1>3. ListenerInv'
  BY <1>0, NoDescriptor DEF NoConnection, ListenerInv, Setup
<1>4. ListInv'
  <2>1. scan = <<>> \/ Len(scan) = 0
    <3>1. \A i \in 1 .. Len(scan) : FALSE
      BY <1>0 DEF Parts, ListInv, NoConnection
    <3>2. Len(scan) \in Nat
      BY DEF Parts, ListInv
    <3> QED
      BY <3>1, <3>2
  <2>2. \A i \in 1 .. Len(scan) : FALSE
    BY <2>1
  <2>3. main # "spawn" /\ main' # "spawn" /\ main # "exited"
    BY DEF Setup
  <2> QED
    BY <1>0, <1>1, <2>2, <2>3 DEF Parts, ListInv, Running, NoConnection
<1>5. AloneInv'
  BY DEF Parts, AloneInv, Patient, Idle
<1>6. ~Reopening'
  BY <1>0 DEF Reopening, NoConnection
<1>7. Apart' <=> Apart
  BY DEF Apart, Patient
<1>8. ApartInv'
  BY <1>0, <1>1, <1>6, <1>7 DEF ApartInv, OwnInv, NoConnection
<1> QED
  BY <1>2, <1>3, <1>4, <1>5, <1>8 DEF Parts

\* The socket is bound to the lowest free descriptor.
LEMMA BindKeeps ==
  ASSUME Parts, main_bind
  PROVE  Parts'
<1>1. /\ main = "setup" /\ Lowest(LoggedFds) # NO_FD /\ sock_fd' = Lowest(LoggedFds) /\ fds' = Opened(LoggedFds, BOUND)
      /\ main' = "daemon" /\ UNCHANGED <<data_fd, list, scan, active_conns, thread, client, mtx>>
  BY DEF main_bind, connVars, restVars, netVars
<1>2. BOUND \in FdKinds /\ LOG \in FdKinds /\ fds \in [Fds -> FdKinds]
  BY DEF FdKinds, Parts, FdTypes
<1>5. LoggedFds \in [Fds -> FdKinds] /\ \A f \in Fds : LoggedFds[f] \in {fds[f], LOG}
  <2>1. /\ Opened(fds, LOG) \in [Fds -> FdKinds]
        /\ \A f \in Fds : Opened(fds, LOG)[f] \in {fds[f], LOG}
    BY <1>2, OpenedIs
  <2> QED
    BY <1>2, <2>1 DEF LoggedFds
<1>3. /\ sock_fd' \in Fds /\ fds' \in [Fds -> FdKinds]
      /\ \A f \in Fds : fds'[f] = IF f = sock_fd' THEN BOUND ELSE LoggedFds[f]
  BY <1>1, <1>2, <1>5, OpenedIs
<1>4. Apart => \A f \in Fds : ~IsFile(f)' /\ \A c \in Conns : fds'[f] # <<"sock", c>>
  BY <1>1, <1>3, <1>5, SetupHasNone, NamesDiffer DEF NoConnection, Setup, IsFile
<1> QED
  BY <1>1, <1>3, <1>4, SetupKeeps DEF Setup, Parts, FdTypes

\* The start as a daemon opens /dev/null and duplicates descriptor 0 at free
\* numbers.
LEMMA DaemonFdsAre ==
  ASSUME FdTypes
  PROVE  /\ DaemonFds \in [Fds -> FdKinds]
         /\ \A f \in Fds : DaemonFds[f] = fds[f] \/ (fds[f] = FREE /\ DaemonFds[f] \in {NULL_DEV, fds[0]})
<1> DEFINE Grows(t) == /\ t \in [Fds -> FdKinds]
                       /\ \A f \in Fds : t[f] = fds[f] \/ (fds[f] = FREE /\ t[f] \in {NULL_DEV, fds[0]})
<1>1. 0 \in Fds /\ NULL_DEV \in FdKinds /\ fds \in [Fds -> FdKinds]
  BY FdsAssumption DEF Fds, FdTypes, FdKinds
<1>2. Grows(Opened(fds, NULL_DEV))
  <2>1. /\ Lowest(fds) \in Fds \cup {NO_FD} /\ (Lowest(fds) # NO_FD => fds[Lowest(fds)] = FREE)
        /\ Opened(fds, NULL_DEV) \in [Fds -> FdKinds]
        /\ \A f \in Fds : Opened(fds, NULL_DEV)[f] = IF f = Lowest(fds) THEN NULL_DEV ELSE fds[f]
    BY <1>1, OpenedIs
  <2> QED
    BY <2>1, NoDescriptor
<1>3. ASSUME NEW t, Grows(t)
      PROVE  Grows(Dup0(t))
  <2>0. t \in [Fds -> FdKinds] /\ t[0] \in FdKinds /\ t[0] \in {NULL_DEV, fds[0]}
    BY <1>1, <1>3
  <2>1. /\ Lowest(t) \in Fds \cup {NO_FD} /\ (Lowest(t) # NO_FD => t[Lowest(t)] = FREE)
        /\ Opened(t, t[0]) \in [Fds -> FdKinds]
        /\ \A f \in Fds : Opened(t, t[0])[f] = IF f = Lowest(t) THEN t[0] ELSE t[f]
    BY <2>0, OpenedIs
  <2>2. CASE t[0] = FREE
    BY <1>3, <2>2 DEF Dup0
  <2>3. CASE t[0] # FREE
    <3>1. Dup0(t) = Opened(t, t[0])
      BY <2>3 DEF Dup0
    <3>2. \A f \in Fds : t[f] = FREE => fds[f] = FREE
      <4>1. NULL_DEV # FREE
        BY DEF NULL_DEV, FREE
      <4> QED
        BY <1>3, <4>1
    <3>3. \A f \in Fds : f = Lowest(t) => fds[f] = FREE
      BY <2>1, <3>2, NoDescriptor
    <3>4. \A f \in Fds : \/ Opened(t, t[0])[f] = fds[f]
                         \/ fds[f] = FREE /\ Opened(t, t[0])[f] \in {NULL_DEV, fds[0]}
      BY <1>3, <2>0, <2>1, <3>3
    <3> QED
      BY <2>1, <3>1, <3>4
  <2> QED
    BY <2>2, <2>3
<1> HIDE DEF Grows
<1>4. Grows(DaemonFds)
  BY <1>2, <1>3 DEF DaemonFds
<1> QED
  BY <1>4 DEF Grows

\* So it does not disturb the socket that is bound.
LEMMA DaemonKeeps ==
  ASSUME Parts, daemonize
  PROVE  Parts'
<1>1. /\ main = "daemon" /\ fds' \in {fds, DaemonFds} /\ main' = "listen"
      /\ UNCHANGED <<sock_fd, data_fd, list, scan, active_conns, thread, client, mtx>>
  BY DEF daemonize, connVars, restVars, netVars
<1>2. /\ fds' \in [Fds -> FdKinds]
      /\ \A f \in Fds : fds'[f] = fds[f] \/ (fds[f] = FREE /\ fds'[f] \in {NULL_DEV, fds[0]})
  BY <1>1, DaemonFdsAre DEF Parts, FdTypes
<1>3. sock_fd \in Fds /\ fds[sock_fd] \in {BOUND, LISTEN} /\ fds'[sock_fd] = fds[sock_fd] /\ 0 \in Fds
  BY <1>1, <1>2, NamesDiffer, FdsAssumption DEF Parts, FdTypes, ListenerInv, Fds
<1>4. Apart => \A f \in Fds : ~IsFile(f)' /\ \A c \in Conns : fds'[f] # <<"sock", c>>
  <2>1. NULL_DEV[1] # "file"
    BY DEF NULL_DEV
  <2>2. Apart => \A f \in Fds : fds[f][1] # "file" /\ \A c \in Conns : fds[f] # <<"sock", c>>
    BY <1>1, SetupHasNone DEF NoConnection, Setup, IsFile
  <2>3. Apart => \A f \in Fds : fds'[f][1] # "file" /\ \A c \in Conns : fds'[f] # <<"sock", c>>
    BY <1>2, <1>3, <2>1, <2>2, NamesDiffer
  <2> QED
    BY <2>3 DEF IsFile
<1> QED
  BY <1>1, <1>2, <1>3, <1>4, SetupKeeps DEF Setup, Parts, FdTypes

\* data_file.fd gets a number that is free.
LEMMA ListenKeeps ==
  ASSUME Parts, main_listen
  PROVE  Parts'
<1>1. /\ main = "listen" /\ NewFd # NO_FD /\ fds[sock_fd] = BOUND
      /\ fds' = [fds EXCEPT ![sock_fd] = LISTEN] /\ data_fd' = NewFd /\ main' = "top"
      /\ UNCHANGED <<sock_fd, list, scan, active_conns, thread, client, mtx>>
  BY DEF main_listen, connVars, restVars, netVars
<1>2. LISTEN \in FdKinds /\ fds \in [Fds -> FdKinds] /\ sock_fd \in Fds
  BY DEF FdKinds, Parts, FdTypes
<1>3. NewFd \in Fds /\ fds[NewFd] = FREE
  BY <1>1, <1>2, OpenedIs DEF NewFd
<1>4. NewFd # sock_fd
  BY <1>1, <1>3, NamesDiffer
<1>5. fds' \in [Fds -> FdKinds] /\ \A f \in Fds : fds'[f] = IF f = sock_fd THEN LISTEN ELSE fds[f]
  BY <1>1, <1>2
<1>6. Apart => \A f \in Fds : ~IsFile(f)' /\ \A c \in Conns : fds'[f] # <<"sock", c>>
  BY <1>1, <1>5, SetupHasNone, NamesDiffer DEF NoConnection, Setup, IsFile
<1> QED
  BY <1>1, <1>2, <1>3, <1>4, <1>5, <1>6, SetupKeeps DEF Setup

\* A new connection gets a free descriptor and is put at the head of the list.
LEMMA AcceptKeeps ==
  ASSUME Inv, Parts, NEW c \in Conns, accept(c)
  PROVE  Parts'
<1>1. /\ main = "accept" /\ client[c].state = "pending" /\ NewFd # NO_FD
      /\ fds' = Opened(fds, <<"sock", c>>)
      /\ client' = [client EXCEPT ![c].state = "open"]
      /\ thread' = [thread EXCEPT ![c].fd = NewFd]
      /\ list' = <<c>> \o list /\ main' = "spawn"
      /\ UNCHANGED <<data_fd, mtx, sock_fd, scan, active_conns>>
  BY DEF accept, Pending
<1>2. <<"sock", c>> \in FdKinds /\ fds \in [Fds -> FdKinds]
  BY DEF FdKinds, Parts, FdTypes
<1>3. PICK n \in Fds : n = NewFd
  BY <1>1, <1>2, OpenedIs DEF NewFd
<1>4. /\ fds[n] = FREE /\ fds' \in [Fds -> FdKinds]
      /\ \A f \in Fds : fds'[f] = IF f = n THEN <<"sock", c>> ELSE fds[f]
  <2>1. n = Lowest(fds) /\ n # NO_FD
    BY <1>1, <1>3 DEF NewFd
  <2>2. PICK k \in FdKinds : k = <<"sock", c>>
    BY <1>2
  <2>3. /\ Lowest(fds) # NO_FD => fds[Lowest(fds)] = FREE
        /\ Opened(fds, k) \in [Fds -> FdKinds]
        /\ \A f \in Fds : Opened(fds, k)[f] = IF f = Lowest(fds) THEN k ELSE fds[f]
    BY <1>2, OpenedIs
  <2> QED
    BY <1>1, <2>1, <2>2, <2>3
<1>5. /\ DOMAIN client = Conns /\ \A d \in Conns : "state" \in DOMAIN client[d] /\ "patient" \in DOMAIN client[d]
      /\ DOMAIN thread = Conns /\ \A d \in Conns : "pc" \in DOMAIN thread[d] /\ "fd" \in DOMAIN thread[d]
  BY DEF Inv, MutexInv, Shape, Waiting, Parts, AloneInv, FdTypes
<1>6. \A d \in Conns : /\ "fd" \in DOMAIN thread'[d] /\ thread'[d].pc = thread[d].pc
                       /\ thread'[d].fd = IF d = c THEN n ELSE thread[d].fd
  BY <1>1, <1>3, <1>5
<1>7. \A d \in Conns : /\ "patient" \in DOMAIN client'[d] /\ client'[d].patient = client[d].patient
                       /\ client'[d].state = IF d = c THEN "open" ELSE client[d].state
  BY <1>1, <1>5
<1>8. thread[c].pc = "none" /\ ~InList(c)
  BY <1>1 DEF Inv, Waiting, Parts, ListInv
<1>9. PICK m \in Nat : m = Len(list)
  BY DEF Parts, ListInv
<1>10. /\ list \in Seq(Conns) /\ list' \in Seq(Conns) /\ Len(list') = m + 1 /\ list'[1] = c
       /\ \A i \in 1 .. m : list'[i + 1] = list[i]
       /\ \A i \in 1 .. m + 1 : i = 1 \/ (i - 1 \in 1 .. m /\ list'[i] = list[i - 1])
  <2>1. list \in Seq(Conns) /\ <<c>> \in Seq(Conns) /\ Len(<<c>>) = 1 /\ <<c>>[1] = c
    BY DEF Parts, ListInv
  <2>2. /\ list' \in Seq(Conns) /\ Len(list') = 1 + m
        /\ \A i \in 1 .. 1 + m : list'[i] = IF i <= 1 THEN <<c>>[i] ELSE list[i - 1]
    BY <1>1, <1>9, <2>1, ConcatProperties
  <2>3. \A i \in 1 .. m : i + 1 \in 1 .. 1 + m /\ ~(i + 1 <= 1) /\ i + 1 - 1 = i
    OBVIOUS
  <2>4. \A i \in 1 .. m + 1 : i \in 1 .. 1 + m /\ (i = 1 \/ (i - 1 \in 1 .. m /\ ~(i <= 1)))
    OBVIOUS
  <2>5. 1 \in 1 .. 1 + m /\ 1 + m = m + 1
    OBVIOUS
  <2> QED
    BY <2>1, <2>2, <2>3, <2>4, <2>5
<1>11. \A d \in Conns : InList(d)' <=> d = c \/ InList(d)
  <2>1. ASSUME NEW d \in Conns, InList(d)' PROVE d = c \/ InList(d)
    <3>1. PICK i \in 1 .. m + 1 : list'[i] = d
      BY <1>10, <2>1 DEF InList
    <3>2. CASE i = 1
      BY <1>10, <3>1, <3>2
    <3>3. CASE i # 1
      <4>1. i - 1 \in 1 .. m
        BY <3>3
      <4> QED
        BY <1>9, <1>10, <3>1, <3>3, <4>1 DEF InList
    <3> QED
      BY <3>2, <3>3
  <2>2. InList(c)'
    <3>1. 1 \in 1 .. m + 1
      OBVIOUS
    <3> QED
      BY <1>10, <3>1 DEF InList
  <2>3. \A d \in Conns : InList(d) => InList(d)'
    <3>1. \A i \in 1 .. m : i + 1 \in 1 .. m + 1
      OBVIOUS
    <3> QED
      BY <1>9, <1>10, <3>1 DEF InList
  <2> QED
    BY <2>1, <2>2, <2>3
<1>12. FdTypes'
  <2>1. \A d \in Conns : "fd" \in DOMAIN thread'[d] /\ thread'[d].fd \in Fds \cup {NO_FD}
    BY <1>6 DEF Parts, FdTypes
  <2> QED
    BY <1>1, <1>4, <2>1 DEF Parts, FdTypes
<1>13. ListenerInv'
  <2>1. sock_fd \in Fds /\ fds[sock_fd] \in {BOUND, LISTEN} /\ data_fd # sock_fd
        /\ \A d \in Conns : thread[d].fd # sock_fd
    BY <1>1 DEF Parts, FdTypes, ListenerInv, Setup
  <2>2. n # sock_fd
    BY <1>4, <2>1, NamesDiffer
  <2> QED
    BY <1>1, <1>4, <1>6, <2>1, <2>2 DEF ListenerInv, Setup
<1>14. ListInv'
  <2>1. \A i, j \in 1 .. m + 1 : list'[i] = list'[j] => i = j
    <3>1. \A i \in 1 .. m : list[i] # c
      BY <1>8, <1>9 DEF InList
    <3>2. ASSUME NEW i \in 1 .. m + 1, NEW j \in 1 .. m + 1, list'[i] = list'[j]
          PROVE  i = j
      <4>1. CASE i = 1 \/ j = 1
        BY <1>10, <3>1, <3>2, <4>1
      <4>2. CASE i # 1 /\ j # 1
        <5>1. list[i - 1] = list[j - 1] /\ i - 1 \in 1 .. m /\ j - 1 \in 1 .. m
          BY <1>10, <3>2, <4>2
        <5>2. i - 1 = j - 1
          BY <1>9, <5>1 DEF Parts, ListInv
        <5> QED
          BY <5>2
      <4> QED
        BY <4>1, <4>2
    <3> QED
      BY <3>2
  <2>2. \A i \in 1 .. Len(scan) : scan[i] \in Conns /\ InList(scan[i])'
    <3>1. \A i \in 1 .. Len(scan) : scan[i] \in Conns /\ InList(scan[i])
      BY DEF Parts, ListInv
    <3>2. ASSUME NEW i \in 1 .. Len(scan)
          PROVE  InList(scan[i])'
      <4>1. PICK d \in Conns : d = scan[i] /\ InList(d)
        BY <3>1
      <4>2. InList(d)' /\ scan'[i] = d
        BY <1>1, <1>11, <4>1
      <4> QED
        BY <4>2 DEF InList
    <3> QED
      BY <3>1, <3>2
  <2>3. active_conns \in Nat /\ active_conns = m
    BY <1>1, <1>9 DEF Parts, ListInv
  <2>4. \A d \in Conns : /\ client'[d].state \in {"new", "pending"} => ~InList(d)'
                         /\ Running(d)' => InList(d)'
                         /\ InList(d)' => thread'[d].fd \in Fds
    BY <1>6, <1>7, <1>8, <1>11 DEF Parts, ListInv, Running
  <2>5. active_conns <= m + 1 /\ active_conns = m + 1 - 1
    BY <2>3
  <2> QED
    BY <1>1, <1>10, <2>1, <2>2, <2>3, <2>4, <2>5 DEF Parts, ListInv, Setup
<1>15. Patient' <=> Patient
  BY <1>7 DEF Patient
<1>16. AloneInv'
  <2>1. \A d \in Conns : Idle(d) => Idle(d)'
    BY <1>1, <1>6, <1>7, <1>8 DEF Idle
  <2> QED
    BY <1>7, <1>15, <2>1 DEF Parts, AloneInv
<1>17. ApartInv'
  <2> SUFFICES ASSUME Apart PROVE OwnInv'
    BY <1>15 DEF ApartInv, Apart
  <2>1. OwnInv
    BY DEF Parts, ApartInv
  <2>2. \A f \in Fds : \A d \in Conns : fds'[f] = <<"sock", d>> <=> InList(d)' /\ thread'[d].fd = f
    <3>1. ASSUME NEW f \in Fds, NEW d \in Conns
          PROVE  fds'[f] = <<"sock", d>> <=> InList(d)' /\ thread'[d].fd = f
      <4>0. fds[f] = <<"sock", d>> <=> InList(d) /\ thread[d].fd = f
        BY <1>1, <2>1 DEF OwnInv
      <4>1. CASE f = n /\ d = c
        BY <1>4, <1>6, <1>11, <4>1
      <4>2. CASE f = n /\ d # c
        <5>1. fds[f] # <<"sock", d>> /\ <<"sock", c>> # <<"sock", d>>
          BY <1>4, <4>2, NamesDiffer
        <5> QED
          BY <1>4, <1>6, <1>11, <4>0, <4>2, <5>1
      <4>3. CASE f # n /\ d = c
        BY <1>4, <1>6, <1>8, <4>0, <4>3
      <4>4. CASE f # n /\ d # c
        BY <1>4, <1>6, <1>11, <4>0, <4>4
      <4> QED
        BY <4>1, <4>2, <4>3, <4>4
    <3> QED
      BY <3>1
  <2>3. \A f \in Fds : IsFile(f)' <=> IsFile(f)
    BY <1>4, NamesDiffer DEF IsFile
  <2>4. ~Reopening'
    <3>1. ~Reopening
      <4>1. ASSUME NEW d \in Conns, thread[d].pc = "open"
            PROVE  FALSE
        <5>1. ~Idle(d) /\ ~Idle(c) /\ d # c
          BY <1>1, <1>8, <4>1 DEF Idle, Inv, Waiting
        <5>2. USE_AESD_CHAR_DEVICE
          BY <1>1, <2>1, <4>1 DEF OwnInv, Reopening
        <5> QED
          BY <5>1, <5>2 DEF Apart, Parts, AloneInv
      <4> QED
        BY <4>1 DEF Reopening
    <3> QED
      BY <1>6, <3>1 DEF Reopening
  <2>5. IsFile(data_fd)' <=> IsFile(data_fd)
    BY <1>1, <2>3 DEF IsFile
  <2>6. ~Reopening
    BY <1>6, <2>4 DEF Reopening
  <2> QED
    BY <1>1, <2>1, <2>2, <2>3, <2>4, <2>5, <2>6 DEF OwnInv
<1> QED
  BY <1>12, <1>13, <1>14, <1>16, <1>17 DEF Parts

\* The data file is opened for the first connection.
LEMMA SpawnKeeps ==
  ASSUME Inv, Parts, spawn
  PROVE  Parts'
<1>1. /\ main = "spawn" /\ main' = "scan" /\ scan' = list /\ active_conns' = active_conns + 1
      /\ UNCHANGED <<mtx, sock_fd, list, client>>
      /\ IF active_conns = 0 THEN data_fd' = NewFd /\ fds' = Opened(fds, <<"file", 0>>)
                             ELSE UNCHANGED <<data_fd, fds>>
  BY DEF spawn, netVars, OpensData
<1>2. PICK c \in Conns : /\ c = Head(list) /\ thread[c].pc = "none" /\ list # <<>>
                         /\ client[c].state \notin {"new", "pending"}
  BY <1>1 DEF Inv, Waiting
<1>3. PICK label \in {"packet", "exit", "none"} : Goto(c, label)
  BY <1>2 DEF spawn
<1>4. \A d \in Conns : /\ "fd" \in DOMAIN thread'[d] /\ thread'[d].fd = thread[d].fd
                       /\ thread'[d].pc = IF d = c THEN label ELSE thread[d].pc
  BY <1>3, GotoKeepsFds DEF Parts, Inv, MutexInv
<1>5. PICK m \in Nat : m = Len(list) /\ m > 0 /\ list[1] = c /\ active_conns = m - 1
  BY <1>1, <1>2 DEF Parts, ListInv
<1>6. (\A d \in Conns : InList(d)' <=> InList(d)) /\ InList(c)
  <2>1. 1 \in 1 .. m
    BY <1>5
  <2> QED
    BY <1>1, <1>5, <2>1 DEF InList
<1>7. /\ fds' \in [Fds -> FdKinds] /\ data_fd' \in Fds \cup {NO_FD}
      /\ \A f \in Fds : fds[f] # FREE => fds'[f] = fds[f]
      /\ active_conns = 0 => /\ data_fd' # NO_FD => fds[data_fd'] = FREE /\ data_fd' \in Fds
                             /\ \A f \in Fds : fds'[f] = IF f = data_fd' THEN <<"file", 0>> ELSE fds[f]
      /\ active_conns # 0 => UNCHANGED <<fds, data_fd>>
  <2>1. <<"file", 0>> \in FdKinds /\ fds \in [Fds -> FdKinds] /\ data_fd \in Fds \cup {NO_FD}
    BY DEF FdKinds, Parts, FdTypes
  <2>2. CASE active_conns = 0
    <3>1. /\ NewFd \in Fds \cup {NO_FD} /\ (NewFd # NO_FD => fds[NewFd] = FREE)
          /\ Opened(fds, <<"file", 0>>) \in [Fds -> FdKinds]
          /\ \A f \in Fds : Opened(fds, <<"file", 0>>)[f] = IF f = NewFd THEN <<"file", 0>> ELSE fds[f]
      BY <2>1, OpenedIs DEF NewFd
    <3>2. data_fd' = NewFd /\ fds' = Opened(fds, <<"file", 0>>)
      BY <1>1, <2>2
    <3> QED
      BY <2>2, <3>1, <3>2, NoDescriptor
  <2>3. CASE active_conns # 0
    BY <1>1, <2>1, <2>3
  <2> QED
    BY <2>2, <2>3
<1>8. FdTypes'
  BY <1>1, <1>4, <1>7 DEF Parts, FdTypes
<1>9. ListenerInv'
  <2>1. sock_fd \in Fds /\ fds[sock_fd] \in {BOUND, LISTEN} /\ data_fd # sock_fd
        /\ \A d \in Conns : thread[d].fd # sock_fd
    BY <1>1 DEF Parts, FdTypes, ListenerInv, Setup
  <2>2. fds'[sock_fd] = fds[sock_fd]
    BY <1>7, <2>1, NamesDiffer
  <2>3. data_fd' # sock_fd
    BY <1>7, <2>1, NamesDiffer, NoDescriptor
  <2> QED
    BY <1>1, <1>4, <2>1, <2>2, <2>3 DEF ListenerInv, Setup
<1>10. ListInv'
  <2>1. /\ list \in Seq(Conns) /\ \A i, j \in 1 .. Len(list) : list[i] = list[j] => i = j
        /\ \A i \in 1 .. Len(list) : list[i] \in Conns /\ InList(list[i])
    BY DEF Parts, ListInv, InList
  <2>2. active_conns' \in Nat /\ active_conns' = m
    BY <1>1, <1>5
  <2>3. \A d \in Conns : /\ client[d].state \in {"new", "pending"} => ~InList(d)'
                         /\ Running(d)' => InList(d)'
                         /\ InList(d)' => thread'[d].fd \in Fds
    BY <1>4, <1>6 DEF Parts, ListInv, Running
  <2> QED
    BY <1>1, <1>5, <1>6, <2>1, <2>2, <2>3 DEF ListInv, Setup
<1>11. AloneInv'
  <2>1. \A d \in Conns : Idle(d) => Idle(d)'
    BY <1>1, <1>2, <1>4 DEF Idle
  <2> QED
    BY <1>1, <2>1 DEF Parts, AloneInv, Patient
<1>12. ApartInv'
  <2> SUFFICES ASSUME Apart PROVE OwnInv'
    BY <1>1 DEF ApartInv, Apart, Patient
  <2>1. OwnInv
    BY DEF Parts, ApartInv
  <2>2. Reopening' <=> Reopening
    BY <1>2, <1>4 DEF Reopening
  <2>3. CASE active_conns # 0
    <3>1. active_conns > 0 /\ active_conns' > 0
      BY <1>1, <1>5, <2>3
    <3>2. UNCHANGED <<fds, data_fd>>
      BY <1>7, <2>3
    <3> QED
      BY <1>1, <1>4, <1>6, <2>1, <2>2, <3>1, <3>2 DEF OwnInv, IsFile, Dangling
  <2>4. CASE active_conns = 0
    <3>1. \A f \in Fds : ~IsFile(f)
      BY <1>1, <2>1, <2>4 DEF OwnInv
    <3>2. ~Reopening
      <4>1. ASSUME NEW d \in Conns, thread[d].pc = "open"
            PROVE  FALSE
        <5>0. Running(d)
          BY <4>1 DEF Running
        <5>1. PICK i \in 1 .. Len(list) : list[i] = d
          BY <5>0 DEF Parts, ListInv, InList
        <5>2. i = 1
          <6>0. m - 1 = 0
            BY <1>5, <2>4
          <6>1. m = 1
            BY <6>0
          <6> QED
            BY <1>5, <5>1, <6>1
        <5> QED
          BY <1>2, <1>5, <4>1, <5>1, <5>2
      <4> QED
        BY <4>1 DEF Reopening
    <3>3. \A f \in Fds : IsFile(f)' <=> f = data_fd'
      BY <1>7, <2>4, <3>1, NamesDiffer DEF IsFile
    <3>4. \A f \in Fds : \A d \in Conns : fds'[f] = <<"sock", d>> <=> fds[f] = <<"sock", d>>
      BY <1>7, <2>4, NoDescriptor, NamesDiffer
    <3>5. IsFile(data_fd)' \/ data_fd' = NO_FD
      BY <1>7, <2>4, NamesDiffer DEF IsFile
    <3> QED
      BY <1>1, <1>4, <1>6, <2>1, <2>2, <3>2, <3>3, <3>4, <3>5 DEF OwnInv
  <2> QED
    BY <2>3, <2>4
<1> QED
  BY <1>8, <1>9, <1>10, <1>11, <1>12 DEF Parts

\* SLIST_REMOVE takes the connection out of the list and leaves the others.
LEMMA RemovedIs ==
  ASSUME ListInv, NEW c \in Conns, InList(c)
  PROVE  /\ Removed(c) \in Seq(Conns) /\ Len(list) \in Nat /\ Len(list) > 0
         /\ Len(Removed(c)) = Len(list) - 1
         /\ \A i, j \in 1 .. Len(list) - 1 : Removed(c)[i] = Removed(c)[j] => i = j
         /\ \A d \in Conns : (\E i \in 1 .. Len(list) - 1 : Removed(c)[i] = d) <=> InList(d) /\ d # c
<1> DEFINE at == CHOOSE i \in 1 .. Len(list) : list[i] = c
<1>1. PICK m \in Nat : m = Len(list)
  BY DEF ListInv
<1>2. PICK p \in 1 .. m : p = at /\ list[p] = c
  BY <1>1 DEF InList
<1>3. \A i \in 1 .. m : list[i] \in Conns
  BY <1>1 DEF ListInv
<1> DEFINE r == [i \in 1 .. m - 1 |-> IF i < p THEN list[i] ELSE list[i + 1]]
<1>4. Removed(c) = r
  BY <1>1, <1>2 DEF Removed
<1>5. m - 1 \in Nat /\ m > 0 /\ \A i \in 1 .. m - 1 : i \in 1 .. m /\ i + 1 \in 1 .. m
  OBVIOUS
<1>6. r \in Seq(Conns) /\ Len(r) = m - 1
  BY <1>3, <1>5
<1>7. \A i, j \in 1 .. m : list[i] = list[j] => i = j
  BY <1>1 DEF ListInv
<1>8. ASSUME NEW i \in 1 .. m - 1, NEW j \in 1 .. m - 1, r[i] = r[j]
      PROVE  i = j
  <2>1. CASE i < p /\ j < p
    BY <1>5, <1>7, <1>8, <2>1
  <2>2. CASE i < p /\ ~(j < p)
    <3>1. list[i] = list[j + 1]
      BY <1>8, <2>2
    <3>2. i = j + 1
      BY <1>5, <1>7, <3>1
    <3> QED
      BY <2>2, <3>2
  <2>3. CASE ~(i < p) /\ j < p
    <3>1. list[i + 1] = list[j]
      BY <1>8, <2>3
    <3>2. i + 1 = j
      BY <1>5, <1>7, <3>1
    <3> QED
      BY <2>3, <3>2
  <2>4. CASE ~(i < p) /\ ~(j < p)
    <3>1. list[i + 1] = list[j + 1]
      BY <1>8, <2>4
    <3>2. i + 1 = j + 1
      BY <1>5, <1>7, <3>1
    <3> QED
      BY <3>2
  <2> QED
    BY <2>1, <2>2, <2>3, <2>4
<1>9. ASSUME NEW i \in 1 .. m - 1
      PROVE  (\E k \in 1 .. m : list[k] = r[i]) /\ r[i] # c
  <2>1. PICK k \in 1 .. m : r[i] = list[k] /\ k # p
    <3>1. CASE i < p
      BY <1>5, <3>1
    <3>2. CASE ~(i < p)
      <4>1. r[i] = list[i + 1] /\ i + 1 \in 1 .. m /\ i + 1 # p
        BY <1>5, <3>2
      <4> QED
        BY <4>1
    <3> QED
      BY <3>1, <3>2
  <2>2. list[k] # c
    BY <1>2, <1>7, <2>1
  <2> QED
    BY <2>1, <2>2
<1>10. ASSUME NEW k \in 1 .. m, list[k] # c
       PROVE  \E i \in 1 .. m - 1 : r[i] = list[k]
  <2>1. k # p
    BY <1>2, <1>10
  <2>2. CASE k < p
    <3>1. k \in 1 .. m - 1
      BY <2>2
    <3> QED
      BY <2>2, <3>1
  <2>3. CASE k > p
    <3>1. k - 1 \in 1 .. m - 1 /\ ~(k - 1 < p) /\ k - 1 + 1 = k
      BY <2>3
    <3>2. r[k - 1] = list[k]
      BY <3>1
    <3> QED
      BY <3>1, <3>2
  <2> QED
    BY <2>1, <2>2, <2>3
<1> HIDE DEF r
<1>11. \A d \in Conns : (\E i \in 1 .. m - 1 : r[i] = d) <=> InList(d) /\ d # c
  <2>1. ASSUME NEW d \in Conns, NEW i \in 1 .. m - 1, r[i] = d
        PROVE  InList(d) /\ d # c
    BY <1>1, <1>9, <2>1 DEF InList
  <2>2. ASSUME NEW d \in Conns, InList(d), d # c
        PROVE  \E i \in 1 .. m - 1 : r[i] = d
    <3>1. PICK k \in 1 .. m : list[k] = d
      BY <1>1, <2>2 DEF InList
    <3> QED
      BY <1>10, <2>2, <3>1
  <2> QED
    BY <2>1, <2>2
<1> QED
  BY <1>1, <1>4, <1>5, <1>6, <1>8, <1>11

\* The socket of a complete connection is closed and the connection removed.
LEMMA ReapKeeps ==
  ASSUME Inv, Parts, reap
  PROVE  Parts'
<1>1. /\ main \in {"scan", "drain"} /\ scan # <<>> /\ scan' = Tail(scan)
      /\ UNCHANGED <<data_fd, sock_fd, main, thread, client, mtx>>
  BY DEF reap, restVars, netVars
<1>2. PICK k \in Nat : k = Len(scan)
  BY DEF Parts, ListInv
<1>3. /\ scan \in Seq(Conns) /\ scan' \in Seq(Conns) /\ k > 0 /\ Len(scan') = k - 1
      /\ Head(scan) = scan[1] /\ \A i \in 1 .. k - 1 : scan'[i] = scan[i + 1]
  BY <1>1, <1>2 DEF Parts, ListInv
<1>4. PICK c \in Conns : c = Head(scan) /\ c = scan[1] /\ InList(c)
  BY <1>2, <1>3 DEF Parts, ListInv
<1>5. \A i \in 1 .. k - 1 : i + 1 \in 1 .. k /\ i + 1 # 1 /\ 1 \in 1 .. k
  OBVIOUS
<1>6. \A i \in 1 .. k - 1 : scan'[i] \in Conns /\ InList(scan[i + 1]) /\ scan'[i] # c
  BY <1>2, <1>3, <1>4, <1>5 DEF Parts, ListInv
<1>7. \A i, j \in 1 .. k - 1 : scan'[i] = scan'[j] => i = j
  <2>1. ASSUME NEW i \in 1 .. k - 1, NEW j \in 1 .. k - 1, scan'[i] = scan'[j]
        PROVE  i = j
    <3>1. i + 1 = j + 1
      BY <1>2, <1>3, <1>5, <2>1 DEF Parts, ListInv
    <3> QED
      BY <3>1
  <2> QED
    BY <2>1
<1>8. main \notin Setup \cup {"exited", "spawn"}
  BY <1>1 DEF Setup
<1>9. AloneInv'
  BY <1>1 DEF Parts, AloneInv, Patient, Idle
<1>10. CASE ~Complete(c)
  <2>1. UNCHANGED <<fds, list, active_conns>>
    BY <1>4, <1>10 DEF reap
  <2>2. \A d \in Conns : InList(d)' <=> InList(d)
    BY <2>1 DEF InList
  <2>3. FdTypes' /\ ListenerInv'
    BY <1>1, <2>1 DEF Parts, FdTypes, ListenerInv
  <2>4. \A i \in 1 .. k - 1 : InList(scan[i])'
    <3>1. ASSUME NEW i \in 1 .. k - 1
          PROVE  InList(scan[i])'
      <4>1. PICK d \in Conns : d = scan'[i] /\ d = scan[i + 1] /\ InList(d)
        BY <1>3, <1>6
      <4>2. InList(d)'
        BY <2>2, <4>1
      <4> QED
        BY <4>1, <4>2 DEF InList
    <3> QED
      BY <3>1
  <2>5. ListInv'
    BY <1>1, <1>3, <1>7, <1>8, <2>1, <2>2, <2>4 DEF Parts, ListInv, Running
  <2>6. ApartInv'
    BY <1>1, <2>1, <2>2 DEF Parts, ApartInv, OwnInv, Apart, Patient, IsFile, Reopening, Dangling
  <2> QED
    BY <1>9, <2>3, <2>5, <2>6 DEF Parts
<1>11. CASE Complete(c)
  <2>1. /\ fds' = Closed(thread[c].fd) /\ list' = Removed(c) /\ active_conns' = active_conns - 1
        /\ thread[c].pc = "done"
    BY <1>4, <1>11 DEF reap, ReapedFds, Complete
  <2>2. PICK f \in Fds : f = thread[c].fd
    BY <1>4 DEF Parts, ListInv
  <2>3. fds' \in [Fds -> FdKinds] /\ \A g \in Fds : fds'[g] = IF g = f THEN FREE ELSE fds[g]
    BY <2>1, <2>2, ClosedIs DEF Parts
  <2>4. PICK m \in Nat : m = Len(list) /\ m > 0 /\ active_conns = m
    BY <1>4, <1>8, RemovedIs DEF Parts, ListInv
  <2>5. /\ list' \in Seq(Conns) /\ Len(list') = m - 1
        /\ \A i, j \in 1 .. m - 1 : list'[i] = list'[j] => i = j
        /\ \A d \in Conns : (\E i \in 1 .. m - 1 : list'[i] = d) <=> InList(d) /\ d # c
    <3>1. /\ Removed(c) \in Seq(Conns) /\ Len(Removed(c)) = Len(list) - 1
          /\ \A i, j \in 1 .. Len(list) - 1 : Removed(c)[i] = Removed(c)[j] => i = j
          /\ \A d \in Conns : (\E i \in 1 .. Len(list) - 1 : Removed(c)[i] = d) <=> InList(d) /\ d # c
      BY <1>4, RemovedIs DEF Parts
    <3>2. PICK r : r = Removed(c) /\ r = list'
      BY <2>1
    <3>3. /\ r \in Seq(Conns) /\ Len(r) = m - 1
          /\ \A i, j \in 1 .. m - 1 : r[i] = r[j] => i = j
          /\ \A d \in Conns : (\E i \in 1 .. m - 1 : r[i] = d) <=> InList(d) /\ d # c
      BY <2>4, <3>1, <3>2
    <3> QED
      BY <3>2, <3>3
  <2>6. \A d \in Conns : InList(d)' <=> InList(d) /\ d # c
    BY <2>5 DEF InList
  <2>7. FdTypes'
    BY <1>1, <2>3 DEF Parts, FdTypes
  <2>8. ListenerInv'
    BY <1>1, <1>8, <2>2, <2>3 DEF Parts, FdTypes, ListenerInv, Setup
  <2>9. \A i \in 1 .. k - 1 : InList(scan[i])'
    <3>1. ASSUME NEW i \in 1 .. k - 1
          PROVE  InList(scan[i])'
      <4>1. PICK d \in Conns : d = scan'[i] /\ d = scan[i + 1] /\ InList(d) /\ d # c
        BY <1>3, <1>6
      <4>2. InList(d)'
        BY <2>6, <4>1
      <4> QED
        BY <4>1, <4>2 DEF InList
    <3> QED
      BY <3>1
  <2>10. active_conns' \in Nat /\ active_conns' = m - 1 /\ active_conns' <= m - 1
    BY <2>1, <2>4
  <2>11. \A d \in Conns : /\ client[d].state \in {"new", "pending"} => ~InList(d)'
                          /\ Running(d) => InList(d)'
                          /\ InList(d)' => thread[d].fd \in Fds
    BY <2>1, <2>6 DEF Parts, ListInv, Running
  <2>12. ListInv'
    <3>1. /\ main' \notin Setup \cup {"exited", "spawn"} /\ UNCHANGED <<thread, client>>
          /\ active_conns' = Len(list') - (IF main' = "spawn" THEN 1 ELSE 0)
      BY <1>1, <1>8, <2>5, <2>10
    <3>2. \A d \in Conns : Running(d)' <=> Running(d)
      BY <3>1 DEF Running
    <3>3. list' \in Seq(Conns) /\ \A i, j \in 1 .. Len(list') : list'[i] = list'[j] => i = j
      BY <2>5
    <3>4. /\ scan' \in Seq(Conns) /\ \A i, j \in 1 .. Len(scan') : scan'[i] = scan'[j] => i = j
          /\ \A i \in 1 .. Len(scan') : InList(scan[i])'
      BY <1>3, <1>7, <2>9
    <3>5. active_conns' \in Nat /\ active_conns' <= Len(list')
      BY <2>5, <2>10
    <3> QED
      BY <2>11, <3>1, <3>2, <3>3, <3>4, <3>5 DEF ListInv
  <2>13. ApartInv'
    <3> SUFFICES ASSUME Apart PROVE OwnInv'
      BY <1>1 DEF ApartInv, Apart, Patient
    <3>1. OwnInv
      BY DEF Parts, ApartInv
    <3>2. fds[f] = <<"sock", c>>
      BY <1>4, <1>8, <2>2, <3>1 DEF OwnInv
    <3>3. \A g \in Fds : \A d \in Conns : fds'[g] = <<"sock", d>> <=> InList(d)' /\ thread'[d].fd = g
      <4>1. ASSUME NEW g \in Fds, NEW d \in Conns
            PROVE  fds'[g] = <<"sock", d>> <=> InList(d)' /\ thread'[d].fd = g
        <5>0. fds[g] = <<"sock", d>> <=> InList(d) /\ thread[d].fd = g
          BY <1>8, <3>1 DEF OwnInv
        <5>1. CASE g = f
          <6>1. fds'[g] # <<"sock", d>>
            BY <2>3, <5>1, NamesDiffer
          <6>2. d # c => fds[g] # <<"sock", d>>
            BY <3>2, <5>1
          <6> QED
            BY <1>1, <2>6, <5>0, <6>1, <6>2
        <5>2. CASE g # f
          BY <1>1, <2>2, <2>3, <2>6, <5>0, <5>2
        <5> QED
          BY <5>1, <5>2
      <4> QED
        BY <4>1
    <3>4. \A g \in Fds : IsFile(g)' <=> IsFile(g)
      <4>1. fds[f][1] # "file" /\ FREE[1] # "file"
        BY <3>2, NamesDiffer
      <4> QED
        BY <2>3, <4>1 DEF IsFile
    <3>5. IsFile(data_fd)' <=> IsFile(data_fd)
      BY <1>1, <3>4 DEF IsFile
    <3>6. (Reopening' <=> Reopening) /\ (Dangling => Dangling')
      BY <1>1, <2>3 DEF Reopening, Dangling, Parts, FdTypes
    <3>7. active_conns' > 0 => active_conns > 0
      BY <2>1, <2>4
    <3>8. active_conns > 0
      BY <2>4
    <3> QED
      BY <1>1, <3>1, <3>3, <3>4, <3>5, <3>6, <3>7, <3>8 DEF OwnInv
  <2> QED
    BY <1>9, <2>7, <2>8, <2>12, <2>13 DEF Parts
<1> QED
  BY <1>10, <1>11

\* The data file is closed when no connection is left.
LEMMA ScanEndsKeeps ==
  ASSUME Parts, scan_ends
  PROVE  Parts'
<1>1. /\ main = "scan" /\ main' = "top" /\ fds' = IF active_conns = 0 THEN Closed(data_fd) ELSE fds
      /\ UNCHANGED <<data_fd, sock_fd, list, scan, active_conns, thread, client, mtx>>
  BY DEF scan_ends, NoConns, connVars, restVars, netVars
<1>2. \A c \in Conns : InList(c)' <=> InList(c)
  BY <1>1 DEF InList
<1>3. \A f \in Fds : fds'[f] = IF active_conns = 0 /\ f = data_fd THEN FREE ELSE fds[f]
  BY <1>1, ClosedIs DEF Parts, FdTypes
<1>4. fds' \in [Fds -> FdKinds]
  BY <1>1, ClosedIs DEF Parts, FdTypes
<1>5. FdTypes'
  BY <1>1, <1>4 DEF Parts, FdTypes
<1>6. ListenerInv'
  BY <1>1, <1>3 DEF Parts, FdTypes, ListenerInv, Setup
<1>7. ListInv'
  <2>1. \A i \in 1 .. Len(scan) : scan[i] \in Conns
    BY DEF Parts, ListInv
  <2> QED
    BY <1>1, <1>2, <2>1 DEF Parts, ListInv, Running, Setup
<1>8. AloneInv'
  BY <1>1 DEF Parts, AloneInv, Patient, Idle
<1>9. ApartInv'
  <2> SUFFICES ASSUME Apart PROVE OwnInv'
    BY <1>1 DEF ApartInv, Apart, Patient
  <2>1. OwnInv
    BY DEF Parts, ApartInv
  <2>2. CASE active_conns # 0
    <3>1. fds' = fds /\ active_conns > 0
      BY <1>1, <2>2 DEF Parts, ListInv
    <3> QED
      BY <1>1, <1>2, <2>1, <3>1 DEF OwnInv, IsFile, Reopening, Dangling
  <2>3. CASE active_conns = 0
    <3>1. ~Reopening
      <4>1. Len(list) = 0
        BY <1>1, <2>3 DEF Parts, ListInv
      <4>2. \A c \in Conns : ~InList(c)
        BY <4>1 DEF InList
      <4>3. \A c \in Conns : ~Running(c)
        BY <4>2 DEF Parts, ListInv
      <4> QED
        BY <4>3 DEF Reopening, Running
    <3>2. IsFile(data_fd) \/ data_fd = NO_FD
      BY <1>1, <2>1, <3>1 DEF OwnInv
    <3>3. \A f \in Fds : ~IsFile(f)'
      <4>1. \A f \in Fds : f # data_fd => ~IsFile(f)
        BY <1>1, <2>1 DEF OwnInv
      <4> QED
        BY <1>3, <2>3, <4>1, NamesDiffer DEF IsFile
    <3>4. \A f \in Fds : \A c \in Conns : fds'[f] = <<"sock", c>> <=> fds[f] = <<"sock", c>>
      <4>1. data_fd \in Fds => \A c \in Conns : fds[data_fd] # <<"sock", c>>
        BY <3>2, KindsDiffer, NoDescriptor DEF IsFile, Parts, FdTypes
      <4> QED
        BY <1>3, <4>1, NamesDiffer
    <3>5. ~Reopening'
      BY <1>1, <3>1 DEF Reopening
    <3> QED
      BY <1>1, <1>2, <2>1, <2>3, <3>3, <3>4, <3>5 DEF OwnInv
  <2> QED
    BY <2>2, <2>3
<1> QED
  BY <1>5, <1>6, <1>7, <1>8, <1>9 DEF Parts

-----------------------------------------------------------------------------
(* The invariant is inductive.                                               *)

\* The invariant holds at the start.
LEMMA InitiallyFds == Init => FdInv
<1> SUFFICES ASSUME Init PROVE FdInv
  OBVIOUS
<1>1. Inv
  BY DEF Init, Inv, MutexInv, Shape, MutexExact, Inside, Waiting, Critical
<1>2. /\ main = "setup" /\ list = <<>> /\ scan = <<>> /\ active_conns = 0 /\ mtx = NONE
      /\ data_fd = 0 /\ sock_fd = 0
      /\ fds = [f \in Fds |-> IF f \in Std THEN <<"std">> ELSE FREE]
      /\ \A c \in Conns : /\ thread[c].pc = "none" /\ thread[c].fd = NO_FD /\ "fd" \in DOMAIN thread[c]
                          /\ client[c].state = "new" /\ "patient" \in DOMAIN client[c]
  BY DEF Init
<1>3. \A c \in Conns : ~InList(c) /\ ~Running(c)
  BY <1>2 DEF InList, Running
<1>4. 0 \in Fds
  BY FdsAssumption DEF Fds
<1>5. fds \in [Fds -> FdKinds]
  BY <1>2 DEF FdKinds
<1>6. FdTypes /\ ListenerInv
  BY <1>2, <1>4, <1>5 DEF FdTypes, ListenerInv, Setup
<1>7. ListInv
  BY <1>2, <1>3 DEF ListInv
<1>8. AloneInv
  BY <1>2 DEF AloneInv, Idle
<1>9. \A f \in Fds : ~IsFile(f) /\ \A c \in Conns : fds[f] # <<"sock", c>>
  BY <1>2 DEF IsFile, FREE
<1>10. ~Reopening
  BY <1>2 DEF Reopening
<1>11. ApartInv
  BY <1>2, <1>3, <1>9, <1>10 DEF ApartInv, OwnInv
<1> QED
  BY <1>1, <1>6, <1>7, <1>8, <1>11 DEF FdInv

\* Every step keeps it.
LEMMA InductiveFds == FdInv /\ [Next]_vars => FdInv'
<1> SUFFICES ASSUME FdInv, [Next]_vars PROVE FdInv'
  OBVIOUS
<1>0. Inv /\ Parts /\ Inv' /\ Shape
  BY Inductive DEF FdInv, Parts, Inv, MutexInv
<1>1. SUFFICES Parts'
  BY <1>0 DEF FdInv, Parts
<1>2. ASSUME Ends PROVE Parts'
  BY <1>0, <1>2, EndsKeeps
<1>3. CASE main_bind
  BY <1>0, <1>3, BindKeeps
<1>4. CASE daemonize
  BY <1>0, <1>4, DaemonKeeps
<1>5. CASE main_listen
  BY <1>0, <1>5, ListenKeeps
<1>6. CASE main_top
  <2>1. /\ main = "top" /\ main' \in {"accept", "drain"} /\ scan' = <<>>
        /\ UNCHANGED <<fds, data_fd, sock_fd, list, active_conns, thread, client, mtx>>
    BY <1>6 DEF main_top, ioVars, restVars, netVars
  <2> QED
    BY <1>0, <2>1, GoingOnKeeps
<1>7. CASE drain
  <2>1. /\ main' = main /\ scan' = list
        /\ UNCHANGED <<fds, data_fd, sock_fd, list, active_conns, thread, client, mtx>>
    BY <1>7 DEF drain, ioVars, restVars, netVars
  <2> QED
    BY <1>0, <2>1, GoingOnKeeps
<1>8. CASE accept_fails
  <2>1. CASE main = "accept" /\ main' = "drain" /\ UNCHANGED <<ioVars, sock_fd, sig_received, connVars, restVars>>
    <3>1. UNCHANGED <<fds, data_fd, sock_fd, list, scan, active_conns, thread, client, mtx>>
      BY <2>1 DEF ioVars, connVars, restVars, netVars
    <3> QED
      BY <1>0, <2>1, <3>1, GoingOnKeeps
  <2> QED
    BY <1>2, <1>8, <2>1 DEF accept_fails
<1>9. CASE spawn
  BY <1>0, <1>9, SpawnKeeps
<1>10. CASE reap
  BY <1>0, <1>10, ReapKeeps
<1>11. CASE scan_ends
  BY <1>0, <1>11, ScanEndsKeeps
<1>12. CASE cleanup \/ sigpipe \/ no_node \/ gives_up
  BY <1>2, <1>12 DEF cleanup, sigpipe, no_node, gives_up
<1>13. ASSUME NEW c \in Conns, accept(c) PROVE Parts'
  BY <1>0, <1>13, AcceptKeeps
<1>14. ASSUME NEW c \in Conns, handle_connection(c) \/ no_memory(c) PROVE Parts'
  <2>1. HandlerStep(c)
    BY <1>0, <1>14, HandlerSteps DEF Parts
  <2> QED
    BY <1>0, <2>1, HandlerKeepsTypes, HandlerKeepsListener, HandlerKeepsList, HandlerKeepsAlone,
       HandlerKeepsOwn DEF Parts
<1>15. ASSUME \/ write_timestamp_lock \/ write_timestamp \/ write_timestamp_waits \/ sig_handler \/ UNCHANGED vars
              \/ \E c \in Conns : connect(c) \/ client_step(c)
       PROVE  Parts'
  BY <1>0, <1>15, OthersSteps, OthersKeep DEF Parts
<1> QED
  BY <1>3, <1>4, <1>5, <1>6, <1>7, <1>8, <1>9, <1>10, <1>11, <1>12, <1>13, <1>14, <1>15
  DEF Next, main_thread, Exited

\* So it holds always.
LEMMA FdInvAlways == Spec => []FdInv
BY InitiallyFds, InductiveFds, PTL DEF Spec

-----------------------------------------------------------------------------
(* Calls that wait.                                                          *)

\* A call that waits is on some client's socket; while the descriptors are kept
\* apart it is a recv or send on the handler's own.
WaitsInv ==
  /\ waits_on \in [Threads -> Conns \cup {NONE}]
  /\ Apart => \A c \in Conns : waits_on[c] # NONE => waits_on[c] = c /\ thread[c].pc \in {"recv", "send"}

\* A step of handler c enters a call that waits, returns, or is none of recv and
\* send.
WaitsStep(c) ==
  \/ thread[c].pc \notin {"recv", "send"} /\ UNCHANGED waits_on
  \/ Returns(c)
  \/ waits(c)

\* Every action of a handler is such a step.
LEMMA HandlerWaits ==
  ASSUME NEW c \in Conns, handle_connection(c) \/ no_memory(c)
  PROVE  WaitsStep(c)
<1> USE DEF WaitsStep, At
<1>1. CASE packet(c) \/ recv_ends(c) \/ thread_cleanup(c) \/ (LinesDone(c) /\ Moves(c, "exit"))
  BY <1>1 DEF packet, recv_ends, thread_cleanup, Moves
<1>2. CASE recv(c) \/ Gets(c, "exit")
  BY <1>2 DEF recv, Gets, Receives
<1>3. CASE ioctl(c) \/ close_data(c) \/ open_data(c) \/ lseek(c)
  BY <1>3 DEF ioctl, close_data, open_data, lseek, HasLine, LinesDone
<1>4. CASE lock_write(c) \/ lock_lseek(c) \/ lock_read(c)
  BY <1>4 DEF lock_write, lock_lseek, lock_read, LocksAndMoves, HasLine, LinesDone
<1>5. CASE write_fails(c) \/ read_ends(c) \/ send_fails(c) \/ (At(c, "send") /\ UnlocksAndMoves(c, "exit"))
  BY <1>5 DEF write_fails, read_ends, send_fails, UnlocksAndMoves
<1>6. CASE write(c) \/ read(c)
  BY <1>6 DEF write, read
<1>7. CASE send(c) \/ Sends(c, "exit")
  BY <1>7 DEF send, Sends
<1>8. CASE waits(c)
  BY <1>8
<1> QED
  BY <1>1, <1>2, <1>3, <1>4, <1>5, <1>6, <1>7, <1>8 DEF handle_connection, no_memory, Gets

\* A connection with a handler at work is counted.
LEMMA RunningCounted ==
  ASSUME FdInv, main # "exited", NEW c \in Conns, Running(c)
  PROVE  active_conns > 0
<1>1. PICK i \in 1 .. Len(list) : list[i] = c
  BY DEF FdInv, ListInv, InList
<1>2. main = "spawn" => i # 1
  BY <1>1 DEF Running, FdInv, Inv, Waiting
<1>3. Len(list) \in Nat /\ active_conns = Len(list) - (IF main = "spawn" THEN 1 ELSE 0)
  BY DEF FdInv, ListInv
<1> QED
  BY <1>1, <1>2, <1>3

\* While the descriptors are kept apart data_file.fd is no client's socket for a
\* running handler, and its client_fd is its own client's.
LEMMA HandlerFds ==
  ASSUME FdInv, Apart, main # "exited", NEW c \in Conns, Running(c)
  PROVE  ~IsSock(data_fd) /\ thread[c].fd \in Fds /\ fds[thread[c].fd] = <<"sock", c>>
<1>1. OwnInv /\ InList(c) /\ thread[c].fd \in Fds /\ active_conns > 0
  BY RunningCounted DEF FdInv, ApartInv, ListInv
<1>2. IsFile(data_fd) \/ data_fd = NO_FD \/ fds[data_fd] = FREE
  BY <1>1 DEF OwnInv, Dangling
<1> QED
  BY <1>1, <1>2, NoDescriptor, NamesDiffer DEF OwnInv, IsSock, IsFile

\* Whether clients come one at a time never changes.
LEMMA PatienceKept ==
  ASSUME FdInv, [Next]_vars
  PROVE  (Patient' <=> Patient) /\ (Apart' <=> Apart)
<1>0. Inv /\ Shape /\ FdTypes /\ AloneInv
  BY DEF FdInv, Inv, MutexInv
<1>1. ASSUME NEW c \in Conns, handle_connection(c) \/ no_memory(c) PROVE client' = client
  BY <1>0, <1>1, HandlerSteps DEF HandlerStep
<1>2. ASSUME \/ write_timestamp_lock \/ write_timestamp \/ write_timestamp_waits \/ sig_handler \/ UNCHANGED vars
             \/ \E c \in Conns : connect(c) \/ client_step(c)
      PROVE  \A c \in Conns : client'[c].patient = client[c].patient
  BY <1>0, <1>2, OthersSteps DEF OthersStep
<1>3. ASSUME \/ main_bind \/ daemonize \/ main_listen \/ main_top \/ accept_fails \/ spawn \/ reap
             \/ scan_ends \/ drain \/ cleanup \/ sigpipe \/ no_node \/ gives_up
      PROVE  client' = client
  BY <1>3 DEF main_bind, daemonize, main_listen, main_top, accept_fails, spawn, reap, scan_ends, drain,
              cleanup, sigpipe, no_node, gives_up, Ends, restVars, netVars
<1>4. ASSUME NEW c \in Conns, accept(c) PROVE \A d \in Conns : client'[d].patient = client[d].patient
  BY <1>0, <1>4 DEF accept, Inv, Waiting, AloneInv
<1>5. \A c \in Conns : client'[c].patient = client[c].patient
  BY <1>1, <1>2, <1>3, <1>4 DEF Next, main_thread, Exited
<1> QED
  BY <1>5 DEF Patient, Apart

\* Every step keeps it.
LEMMA WaitsKept ==
  ASSUME FdInv, WaitsInv, [Next]_vars
  PROVE  WaitsInv'
<1>0. /\ Shape /\ FdTypes /\ (Apart' <=> Apart)
      /\ Conns \subseteq Threads /\ TIMER \in Threads /\ TIMER \notin Conns
  BY PatienceKept, ThreadsAssumption DEF FdInv, Inv, MutexInv, Threads
<1>s. \A f : IsSock(f) => Peer(f) \in Conns /\ fds[f] = <<"sock", Peer(f)>>
  BY <1>0, KindsDiffer DEF FdTypes, IsSock, Peer
<1>k. ASSUME UNCHANGED waits_on,
             \A d \in Conns : thread'[d].pc = thread[d].pc \/ thread[d].pc \notin {"recv", "send"}
      PROVE  WaitsInv'
  BY <1>0, <1>k DEF WaitsInv
<1>1. ASSUME NEW c \in Conns, handle_connection(c) \/ no_memory(c) PROVE WaitsInv'
  <2>1. HandlerStep(c) /\ WaitsStep(c)
    BY <1>0, <1>1, HandlerSteps, HandlerWaits
  <2>2. /\ Running(c) /\ main # "exited"
        /\ \A d \in Conns : d # c => thread'[d].pc = thread[d].pc
    BY <2>1 DEF HandlerStep, Alive
  <2>3. CASE thread[c].pc \notin {"recv", "send"} /\ UNCHANGED waits_on
    BY <1>k, <2>2, <2>3
  <2>4. CASE Returns(c)
    <3>1. \A t \in Threads : waits_on'[t] = IF t = c THEN NONE ELSE waits_on[t]
      BY <2>4 DEF WaitsInv, Returns
    <3>2. waits_on' \in [Threads -> Conns \cup {NONE}]
      BY <2>4 DEF WaitsInv, Returns
    <3> QED
      BY <1>0, <2>2, <3>1, <3>2 DEF WaitsInv
  <2>5. CASE waits(c)
    <3>1. PICK f : /\ IsSock(f) /\ waits_on' = [waits_on EXCEPT ![c] = Peer(f)]
                   /\ f = data_fd \/ (f = thread[c].fd /\ thread[c].pc \in {"recv", "send"})
      BY <2>5 DEF waits, Waits
    <3>2. waits_on' \in [Threads -> Conns \cup {NONE}]
      BY <1>s, <3>1 DEF WaitsInv
    <3>3. \A d \in Conns : waits_on'[d] = IF d = c THEN Peer(f) ELSE waits_on[d]
      BY <1>0, <3>1 DEF WaitsInv
    <3>4. Apart => f = thread[c].fd /\ thread[c].pc \in {"recv", "send"} /\ Peer(f) = c
      BY <2>2, <3>1, HandlerFds DEF Peer
    <3>5. UNCHANGED thread
      BY <2>5 DEF waits
    <3> QED
      BY <1>0, <3>2, <3>3, <3>4, <3>5 DEF WaitsInv
  <2> QED
    BY <2>1, <2>3, <2>4, <2>5 DEF WaitsStep
<1>2. CASE write_timestamp \/ write_timestamp_waits
  <2>1. PICK p \in Conns \cup {NONE} : waits_on' = [waits_on EXCEPT ![TIMER] = p]
    BY <1>2, <1>s DEF write_timestamp, write_timestamp_waits, Returns, Waits
  <2>2. UNCHANGED thread
    BY <1>2 DEF write_timestamp, write_timestamp_waits
  <2>3. waits_on' \in [Threads -> Conns \cup {NONE}] /\ \A d \in Conns : waits_on'[d] = waits_on[d]
    BY <1>0, <2>1 DEF WaitsInv
  <2> QED
    BY <1>0, <2>2, <2>3 DEF WaitsInv
<1>3. CASE \/ write_timestamp_lock \/ sig_handler \/ UNCHANGED vars
           \/ main_bind \/ daemonize \/ main_listen \/ main_top \/ accept_fails \/ reap
           \/ scan_ends \/ drain \/ cleanup \/ sigpipe \/ no_node \/ gives_up
  <2>1. UNCHANGED <<waits_on, thread>>
    BY <1>3 DEF write_timestamp_lock, sig_handler, vars, main_bind, daemonize, main_listen, main_top, accept_fails,
                reap, scan_ends, drain, cleanup, sigpipe, no_node, gives_up, Ends, restVars
  <2> QED
    BY <1>k, <2>1
<1>4. ASSUME NEW c \in Conns, connect(c) \/ client_step(c) PROVE WaitsInv'
  BY <1>4, <1>k DEF connect, client_step, client_send, client_read, client_close
<1>5. CASE spawn
  <2>1. PICK c \in Conns : c = Head(list) /\ thread[c].pc = "none"
    BY <1>5 DEF spawn, FdInv, Inv, Waiting
  <2>2. UNCHANGED waits_on /\ \A d \in Conns : d # c => thread'[d].pc = thread[d].pc
    BY <1>0, <1>5, <2>1 DEF spawn, Goto, Shape
  <2> QED
    BY <1>k, <2>1, <2>2
<1>6. ASSUME NEW c \in Conns, accept(c) PROVE WaitsInv'
  <2>1. UNCHANGED waits_on /\ \A d \in Conns : thread'[d].pc = thread[d].pc
    BY <1>0, <1>6 DEF accept, Shape
  <2> QED
    BY <1>k, <2>1
<1> QED
  BY <1>1, <1>2, <1>3, <1>4, <1>5, <1>6 DEF Next, main_thread, Exited

\* So it holds always.
LEMMA WaitsAlways == Spec => [](FdInv /\ WaitsInv)
<1>1. Init => WaitsInv
  BY ThreadsAssumption DEF Init, WaitsInv, Threads
<1>2. FdInv /\ WaitsInv /\ [Next]_vars => (FdInv /\ WaitsInv)'
  BY InductiveFds, WaitsKept
<1> QED
  BY <1>1, <1>2, InitiallyFds, PTL DEF Spec

-----------------------------------------------------------------------------
(* The theorems.                                                             *)

\* The variables of the server keep their types with any finite number of
\* connections: no connection is reaped twice, so that active_conns, which
\* decides when the data file is opened and closed, is never negative.
THEOREM ServerTyped ==
  ASSUME IsFiniteSet(Conns)
  PROVE  Spec => []TypeOK
<1>1. FdInv /\ WaitsInv => TypeOK
  <2> SUFFICES ASSUME FdInv, WaitsInv PROVE TypeOK
    OBVIOUS
  <2>1. PICK n \in Nat : n = Len(list) /\ list \in [1 .. n -> Conns]
                         /\ \A i, j \in 1 .. n : list[i] = list[j] => i = j
    BY DEF FdInv, ListInv
  <2>2. list \in Injection(1 .. n, Conns)
    BY <2>1 DEF Injection, IsInjective
  <2>3. Cardinality(1 .. n) <= Cardinality(Conns) /\ Cardinality(1 .. n) = n
    BY <2>2, FS_Injection, FS_Interval
  <2>4. PICK k \in Nat : k = Cardinality(Conns)
    BY FS_CardinalityType
  <2>5. active_conns \in 0 .. Cardinality(Conns)
    <3>1. n <= k /\ active_conns \in Nat /\ active_conns <= n
      BY <2>1, <2>3, <2>4 DEF FdInv, ListInv
    <3>2. active_conns \in 0 .. k
      BY <3>1
    <3> QED
      BY <2>4, <3>2
  <2>6. main \in {"setup", "daemon", "listen", "top", "accept", "spawn", "scan", "drain", "exited"}
    BY DEF FdInv, FdTypes, Setup
  <2> QED
    BY <2>5, <2>6 DEF FdInv, FdTypes, FdKinds, WaitsInv, TypeOK
<1> QED
  BY <1>1, WaitsAlways, PTL

\* From bind to the end of the process, sock_fd refers to the socket main
\* listens on: neither daemonize, nor close(data_file.fd) in a handler, nor
\* close(client_fd) in main ever reaches it, in both builds, with any number of
\* connections and of descriptors.
THEOREM ListenerStays == Spec => []ListenerKept
<1>1. FdInv => ListenerKept
  BY DEF FdInv, ListenerInv, ListenerKept
<1> QED
  BY <1>1, FdInvAlways, PTL

\* At the head of the accept loop the server has lost no descriptor: with the
\* plain file in every case, with the device when clients come one at a time.
THEOREM NoDescriptorLeaks == Spec => []NoFdLeak
<1>1. FdInv => NoFdLeak
  <2> SUFFICES ASSUME FdInv, main = "top", Apart
               PROVE  /\ active_conns = Len(list)
                      /\ \A f \in Fds : IsFile(f) \/ IsSock(f) =>
                           f = data_fd \/ \E i \in 1 .. Len(list) : thread[list[i]].fd = f
    BY DEF NoFdLeak, Apart
  <2>1. OwnInv /\ main # "exited" /\ main # "spawn" /\ fds \in [Fds -> FdKinds]
    BY DEF FdInv, ApartInv, FdTypes
  <2>2. Len(list) \in Nat /\ active_conns = Len(list)
    BY <2>1 DEF FdInv, ListInv
  <2>3. ASSUME NEW f \in Fds, IsFile(f)
        PROVE  f = data_fd
    BY <2>1, <2>3 DEF OwnInv
  <2>4. ASSUME NEW f \in Fds, IsSock(f)
        PROVE  \E i \in 1 .. Len(list) : thread[list[i]].fd = f
    <3>1. PICK c \in Conns : fds[f] = <<"sock", c>>
      BY <2>1, <2>4, KindsDiffer DEF IsSock
    <3> QED
      BY <2>1, <3>1 DEF OwnInv, InList
  <2> QED
    BY <2>2, <2>3, <2>4
<1> QED
  BY <1>1, FdInvAlways, PTL

-----------------------------------------------------------------------------
(* Room in the table.                                                        *)

\* The descriptors of the setup are among the lowest.
Reserved == IF main = "setup" THEN 2 ELSE IF main = "daemon" THEN 4 ELSE 7

\* t has nothing but files and sockets of connections behind n.
RoomAbove(t, n) == \A f \in Fds : f > n => t[f] = FREE \/ t[f][1] \in {"file", "sock"}

RoomInv == Apart /\ main # "exited" => RoomAbove(fds, Reserved) /\ data_fd # NO_FD

\* What is opened during the setup goes next to what is open.
LEMMA OpensNext ==
  ASSUME NEW t \in [Fds -> FdKinds], NEW what \in FdKinds, NEW n \in Nat, n + 1 \in Fds,
         \A f \in Fds : f > n => t[f] = FREE
  PROVE  \A f \in Fds : f > n + 1 => Opened(t, what)[f] = FREE
<1>1. /\ FreeFds(t) \in SUBSET Nat /\ n + 1 \in FreeFds(t) /\ Fds \subseteq Nat
  BY FdsAssumption DEF FreeFds, Fds
<1>2. Lowest(t) \in Nat /\ Lowest(t) <= n + 1
  BY <1>1, MinOfSet DEF Lowest
<1>3. \A f \in Fds : f > n + 1 => f > n /\ f # Lowest(t)
  BY <1>1, <1>2
<1> QED
  BY <1>3, OpenedIs

\* Before there are connections everything behind what is reserved is free.
LEMMA SetupRoom ==
  ASSUME Apart, Parts, RoomInv, main \in Setup
  PROVE  \A f \in Fds : f > Reserved => fds[f] = FREE
<1>1. \A f \in Fds : ~IsFile(f) /\ \A c \in Conns : fds[f] # <<"sock", c>>
  BY SetupHasNone DEF NoConnection
<1>2. \A f \in Fds : fds[f][1] \notin {"file", "sock"}
  BY <1>1, KindsDiffer DEF IsFile, Parts, FdTypes
<1> QED
  BY <1>2 DEF RoomInv, RoomAbove, Setup

\* The one connection and what is reserved leave room for the data file.
LEMMA SpawnFindsRoom ==
  ASSUME Apart, MaxFds > 9, Inv, Parts, RoomInv, main = "spawn", active_conns = 0
  PROVE  NewFd # NO_FD
<1>1. OwnInv /\ RoomAbove(fds, 7) /\ 8 \in Fds /\ 9 \in Fds
  BY FdsAssumption DEF Parts, ApartInv, Apart, RoomInv, Reserved, Fds
<1>2. \A f \in Fds : ~IsFile(f)
  BY <1>1 DEF OwnInv
<1>3. Len(list) = 1
  <2>1. PICK n \in Nat : n = Len(list) /\ active_conns = n - 1
    BY DEF Parts, ListInv
  <2>2. n - 1 = 0
    BY <2>1
  <2>3. n = 1
    BY <2>2
  <2> QED
    BY <2>1, <2>3
<1>4. \A c, d \in Conns : InList(c) /\ InList(d) => c = d
  BY <1>3 DEF InList
<1>5. \A f \in Fds : fds[f][1] = "sock" => \E c \in Conns : InList(c) /\ thread[c].fd = f
  <2>1. ASSUME NEW f \in Fds, fds[f][1] = "sock"
        PROVE  \E c \in Conns : InList(c) /\ thread[c].fd = f
    <3>1. PICK c \in Conns : fds[f] = <<"sock", c>>
      BY <2>1, KindsDiffer DEF Parts, FdTypes
    <3> QED
      BY <1>1, <3>1 DEF OwnInv
  <2> QED
    BY <2>1
<1>6. ~(fds[8][1] = "sock" /\ fds[9][1] = "sock")
  BY <1>1, <1>4, <1>5
<1>7. fds[8] = FREE \/ fds[9] = FREE
  BY <1>1, <1>2, <1>6 DEF RoomAbove, IsFile
<1>8. <<"file", 0>> \in FdKinds /\ fds \in [Fds -> FdKinds]
  BY DEF FdKinds, Parts, FdTypes
<1> QED
  BY <1>1, <1>7, <1>8, OpenedIs DEF NewFd

\* Every step leaves room.
LEMMA RoomKept ==
  ASSUME MaxFds > 9, FdInv, RoomInv, [Next]_vars
  PROVE  RoomInv'
<1> SUFFICES ASSUME Apart, Apart' PROVE RoomInv'
  BY PatienceKept DEF RoomInv
<1>0. Inv /\ Parts /\ Shape /\ FdTypes /\ fds \in [Fds -> FdKinds] /\ 3 \in Fds /\ 4 \in Fds /\ 5 \in Fds /\ 6 \in Fds /\ 7 \in Fds
  BY FdsAssumption DEF FdInv, Parts, Inv, MutexInv, FdTypes, Fds
<1>e. CASE Ends
  BY <1>e DEF Ends, RoomInv
<1>f. ASSUME FdsStep, UNCHANGED main PROVE RoomInv'
  <2>1. /\ data_fd' = data_fd
        /\ \A f \in Fds : IsFile(f)' <=> IsFile(f)
        /\ \A f \in Fds : ~IsFile(f) => fds'[f] = fds[f]
    BY <1>0, <1>f, FdsStepKeeps
  <2>2. Reserved' = Reserved
    BY <1>f DEF Reserved
  <2>3. ASSUME NEW n, RoomAbove(fds, n) PROVE RoomAbove(fds', n)
    BY <2>1, <2>3 DEF RoomAbove, IsFile
  <2> QED
    BY <1>f, <2>1, <2>2, <2>3 DEF RoomInv
<1>u. ASSUME UNCHANGED <<fds, data_fd>>, main \notin {"setup", "daemon", "exited"}, main' \notin {"setup", "daemon"}
      PROVE RoomInv'
  <2>1. Reserved = 7 /\ Reserved' = 7
    BY <1>u DEF Reserved
  <2> QED
    BY <1>u, <2>1 DEF RoomInv, RoomAbove
<1>3. CASE main_bind
  <2>1. /\ main = "setup" /\ fds' = Opened(LoggedFds, BOUND) /\ main' = "daemon" /\ data_fd' = data_fd
        /\ BOUND \in FdKinds /\ LOG \in FdKinds
    BY <1>3 DEF main_bind, FdKinds
  <2>2. Reserved = 2 /\ Reserved' = 4 /\ main \in Setup /\ data_fd # NO_FD
    BY <2>1 DEF Reserved, Setup, RoomInv
  <2>3. \A f \in Fds : f > 3 + 1 => fds'[f] = FREE
    <3>1. 2 + 1 \in Fds /\ 3 + 1 \in Fds /\ \A f \in Fds : f > 2 => fds[f] = FREE
      BY <1>0, <2>2, SetupRoom
    <3>2. \A f \in Fds : f > 3 => f > 2
      BY FdsAssumption DEF Fds
    <3>3. LoggedFds \in [Fds -> FdKinds] /\ \A f \in Fds : f > 3 => LoggedFds[f] = FREE
      <4>1. Opened(fds, LOG) \in [Fds -> FdKinds]
        BY <1>0, <2>1, OpenedIs
      <4>2. \A f \in Fds : f > 2 + 1 => Opened(fds, LOG)[f] = FREE
        BY <1>0, <2>1, <3>1, OpensNext
      <4> QED
        BY <1>0, <3>1, <3>2, <4>1, <4>2 DEF LoggedFds
    <3>4. \A f \in Fds : f > 3 + 1 => Opened(LoggedFds, BOUND)[f] = FREE
      BY <2>1, <3>1, <3>3, OpensNext
    <3> QED
      BY <2>1, <3>4
  <2> QED
    BY <2>1, <2>2, <2>3 DEF RoomInv, RoomAbove
<1>4. CASE daemonize
  <2>1. /\ main = "daemon" /\ fds' \in {fds, DaemonFds} /\ main' = "listen" /\ data_fd' = data_fd
        /\ NULL_DEV \in FdKinds /\ 0 \in Fds
    BY <1>0, <1>4, FdsAssumption DEF daemonize, FdKinds, Fds
  <2>2. Reserved = 4 /\ Reserved' = 7 /\ main \in Setup /\ data_fd # NO_FD
    BY <2>1 DEF Reserved, Setup, RoomInv
  <2>3. \A f \in Fds : f > 4 => fds[f] = FREE
    BY <1>0, <2>2, SetupRoom
  <2>4. PICK t1, t2, t3 : t1 = Opened(fds, NULL_DEV) /\ t2 = Dup0(t1) /\ t3 = Dup0(t2)
    OBVIOUS
  <2>5. t1 \in [Fds -> FdKinds] /\ \A f \in Fds : f > 5 => t1[f] = FREE
    <3>1. t1 \in [Fds -> FdKinds]
      BY <1>0, <2>1, <2>4, OpenedIs
    <3>2. 4 + 1 \in Fds /\ \A f \in Fds : f > 4 + 1 => Opened(fds, NULL_DEV)[f] = FREE
      <4>1. 4 + 1 \in Fds
        BY <1>0
      <4> QED
        BY <1>0, <2>1, <2>3, <4>1, OpensNext
    <3> QED
      BY <2>4, <3>1, <3>2
  <2>6. ASSUME NEW t \in [Fds -> FdKinds], NEW n \in Nat, n + 1 \in Fds, \A f \in Fds : f > n => t[f] = FREE
        PROVE  Dup0(t) \in [Fds -> FdKinds] /\ \A f \in Fds : f > n + 1 => Dup0(t)[f] = FREE
    <3>1. t[0] \in FdKinds
      BY <2>1
    <3>2. CASE t[0] = FREE
      BY <2>6, <3>2, FdsAssumption DEF Dup0, Fds
    <3>3. CASE t[0] # FREE
      <4>1. Dup0(t) = Opened(t, t[0])
        BY <3>3 DEF Dup0
      <4> QED
        <5>1. PICK k \in FdKinds : k = t[0]
          BY <3>1
        <5>2. Opened(t, k) \in [Fds -> FdKinds]
          BY OpenedIs
        <5>3. \A f \in Fds : f > n + 1 => Opened(t, k)[f] = FREE
          BY <2>6, OpensNext
        <5> QED
          BY <4>1, <5>1, <5>2, <5>3
    <3> QED
      BY <3>2, <3>3
  <2>7. t2 \in [Fds -> FdKinds] /\ \A f \in Fds : f > 6 => t2[f] = FREE
    BY <1>0, <2>4, <2>5, <2>6
  <2>8. \A f \in Fds : f > 7 => t3[f] = FREE
    BY <1>0, <2>4, <2>6, <2>7
  <2>9. \A f \in Fds : f > 7 => f > 4
    BY FdsAssumption DEF Fds
  <2>10. \A f \in Fds : f > 7 => fds'[f] = FREE
    BY <2>1, <2>3, <2>4, <2>8, <2>9 DEF DaemonFds
  <2> QED
    BY <2>1, <2>2, <2>10 DEF RoomInv, RoomAbove
<1>5. CASE main_listen
  <2>1. /\ main = "listen" /\ fds[sock_fd] = BOUND /\ NewFd # NO_FD /\ data_fd' = NewFd
        /\ fds' = [fds EXCEPT ![sock_fd] = LISTEN] /\ main' = "top"
    BY <1>5 DEF main_listen
  <2>2. Reserved = 7 /\ Reserved' = 7 /\ RoomAbove(fds, 7)
    BY <2>1 DEF Reserved, RoomInv
  <2>3. ~(sock_fd > 7)
    BY <1>0, <2>1, <2>2, NamesDiffer DEF RoomAbove, FdTypes
  <2>4. RoomAbove(fds', 7)
    BY <1>0, <2>1, <2>2, <2>3 DEF RoomAbove
  <2> QED
    BY <2>1, <2>2, <2>4 DEF RoomInv
<1>6. CASE main_top
  BY <1>6, <1>u DEF main_top, ioVars
<1>7. CASE drain
  BY <1>7, <1>u DEF drain, ioVars
<1>8. CASE accept_fails
  BY <1>8, <1>u, <1>e DEF accept_fails, ioVars
<1>9. CASE spawn
  <2>1. /\ main = "spawn" /\ main' = "scan" /\ Reserved = 7 /\ Reserved' = 7
        /\ RoomAbove(fds, 7) /\ data_fd # NO_FD
    BY <1>9 DEF spawn, Reserved, RoomInv
  <2>2. CASE active_conns = 0
    <3>1. data_fd' = NewFd /\ fds' = Opened(fds, <<"file", 0>>) /\ <<"file", 0>> \in FdKinds
      BY <1>9, <2>2 DEF spawn, OpensData, FdKinds
    <3>2. NewFd # NO_FD
      BY <1>0, <2>1, <2>2, SpawnFindsRoom
    <3>3. \A f \in Fds : fds'[f] = IF f = NewFd THEN <<"file", 0>> ELSE fds[f]
      <4>1. PICK k \in FdKinds : k = <<"file", 0>>
        BY <3>1
      <4>2. \A f \in Fds : Opened(fds, k)[f] = IF f = Lowest(fds) THEN k ELSE fds[f]
        BY <1>0, OpenedIs
      <4> QED
        BY <3>1, <4>1, <4>2 DEF NewFd
    <3>4. RoomAbove(fds', 7)
      BY <2>1, <3>3, NamesDiffer DEF RoomAbove
    <3> QED
      BY <2>1, <3>1, <3>2, <3>4 DEF RoomInv
  <2>3. CASE active_conns # 0
    BY <1>9, <1>u, <2>1, <2>3 DEF spawn, OpensData
  <2> QED
    BY <2>2, <2>3
<1>c. ASSUME NEW f, fds' = Closed(f), main \in {"scan", "drain"}, main' \in {main, "top"}, data_fd' = data_fd
      PROVE  RoomInv'
  <2>1. Reserved = 7 /\ Reserved' = 7 /\ RoomAbove(fds, 7) /\ data_fd # NO_FD
    BY <1>c DEF Reserved, RoomInv
  <2>2. RoomAbove(fds', 7)
    BY <1>0, <1>c, <2>1, ClosedIs DEF RoomAbove
  <2> QED
    BY <1>c, <2>1, <2>2 DEF RoomInv
<1>10. CASE reap
  BY <1>10, <1>c, <1>u DEF reap, ReapedFds
<1>11. CASE scan_ends
  BY <1>11, <1>c, <1>u DEF scan_ends, connVars
<1>12. CASE cleanup \/ sigpipe \/ no_node \/ gives_up
  BY <1>e, <1>12 DEF cleanup, sigpipe, no_node, gives_up
<1>13. ASSUME NEW c \in Conns, accept(c) PROVE RoomInv'
  <2>1. /\ main = "accept" /\ fds' = Opened(fds, <<"sock", c>>) /\ main' = "spawn" /\ data_fd' = data_fd
    BY <1>13 DEF accept
  <2>2. Reserved = 7 /\ Reserved' = 7 /\ RoomAbove(fds, 7) /\ data_fd # NO_FD
    BY <2>1 DEF Reserved, RoomInv
  <2>3. PICK k \in FdKinds : k = <<"sock", c>> /\ k[1] = "sock"
    <3>1. <<"sock", c>> \in FdKinds /\ <<"sock", c>>[1] = "sock"
      BY DEF FdKinds
    <3> QED
      BY <3>1
  <2>4. \A f \in Fds : fds'[f] = IF f = Lowest(fds) THEN k ELSE fds[f]
    <3>1. \A f \in Fds : Opened(fds, k)[f] = IF f = Lowest(fds) THEN k ELSE fds[f]
      BY <1>0, OpenedIs
    <3> QED
      BY <2>1, <2>3, <3>1
  <2>5. RoomAbove(fds', 7)
    BY <2>2, <2>3, <2>4 DEF RoomAbove
  <2> QED
    BY <2>1, <2>2, <2>5 DEF RoomInv
<1>14. ASSUME NEW c \in Conns, handle_connection(c) \/ no_memory(c) PROVE RoomInv'
  <2>1. HandlerStep(c)
    BY <1>0, <1>14, HandlerSteps
  <2>2. UNCHANGED main /\ OwnInv /\ main # "exited"
    BY <1>0, <2>1 DEF HandlerStep, mainVars, Parts, ApartInv, Alive
  <2>3. CASE FdsStep
    BY <1>f, <2>2, <2>3
  <2>4. CASE data_fd' = data_fd /\ fds' = Closed(data_fd)
    <3>1. Reserved' = Reserved
      BY <2>2 DEF Reserved
    <3>2. ASSUME NEW n, RoomAbove(fds, n) PROVE RoomAbove(fds', n)
      BY <1>0, <2>4, <3>2, ClosedIs DEF RoomAbove
    <3> QED
      BY <2>2, <2>4, <3>1, <3>2 DEF RoomInv
  <2>5. CASE thread[c].pc = "open" /\ data_fd' = NewFd /\ fds' = Opened(fds, <<"file", 0>>)
    <3>1. data_fd \in Fds /\ fds[data_fd] = FREE
      BY <1>0, <2>2, <2>5 DEF OwnInv, Reopening, Dangling, RoomInv, FdTypes
    <3>2. PICK k \in FdKinds : k = <<"file", 0>> /\ k[1] = "file"
      <4>1. <<"file", 0>> \in FdKinds /\ <<"file", 0>>[1] = "file"
        BY DEF FdKinds
      <4> QED
        BY <4>1
    <3>3. NewFd # NO_FD /\ \A f \in Fds : Opened(fds, k)[f] = IF f = NewFd THEN k ELSE fds[f]
      BY <1>0, <3>1, OpenedIs DEF NewFd
    <3>4. Reserved' = Reserved
      BY <2>2 DEF Reserved
    <3>5. ASSUME NEW n, RoomAbove(fds, n) PROVE RoomAbove(fds', n)
      BY <2>5, <3>2, <3>3, <3>5 DEF RoomAbove
    <3> QED
      BY <2>2, <2>5, <3>3, <3>4, <3>5 DEF RoomInv
  <2> QED
    BY <2>1, <2>3, <2>4, <2>5 DEF HandlerStep
<1>15. ASSUME \/ write_timestamp_lock \/ write_timestamp \/ write_timestamp_waits \/ sig_handler \/ UNCHANGED vars
              \/ \E c \in Conns : connect(c) \/ client_step(c)
       PROVE  RoomInv'
  BY <1>0, <1>15, <1>f, OthersSteps DEF Parts, OthersStep
<1> QED
  BY <1>3, <1>4, <1>5, <1>6, <1>7, <1>8, <1>9, <1>10, <1>11, <1>12, <1>13, <1>14, <1>15
  DEF Next, main_thread, Exited

\* At the start only the standard descriptors are open.
LEMMA InitialRoom == Init => RoomInv
<1> SUFFICES ASSUME Init PROVE RoomInv
  OBVIOUS
<1>1. /\ main = "setup" /\ data_fd = 0 /\ Reserved = 2
      /\ \A f \in Fds : fds[f] = IF f \in Std THEN <<"std">> ELSE FREE
  BY DEF Init, Reserved
<1>2. \A f \in Fds : f > 2 => f \notin Std
  BY FdsAssumption DEF Fds
<1> QED
  BY <1>1, <1>2 DEF RoomInv, RoomAbove, NO_FD

\* With the plain file, a running handler's client_fd is the socket of its own
\* client and data_file.fd the open file, for any number of connections.  The
\* process needs ten descriptors: what it starts with, the system log, the listening
\* socket, those of daemonize, one connection and the file.
THEOREM DescriptorsOwned ==
  ASSUME ~USE_AESD_CHAR_DEVICE, MaxFds > 9
  PROVE  Spec => []FdsOwned
<1>1. FdInv /\ WaitsInv /\ RoomInv => FdsOwned
  <2> SUFFICES ASSUME FdInv, WaitsInv, RoomInv, main # "exited", NEW c \in Conns, Running(c)
               PROVE  fds[thread[c].fd] = <<"sock", c>> /\ waits_on[c] \in {NONE, c} /\ IsFile(data_fd)
    BY DEF FdsOwned
  <2>1. OwnInv /\ ~Reopening /\ data_fd # NO_FD
    BY DEF FdInv, ApartInv, Apart, OwnInv, RoomInv
  <2>2. InList(c) /\ thread[c].fd \in Fds
    BY DEF FdInv, ListInv
  <2>3. fds[thread[c].fd] = <<"sock", c>>
    BY <2>1, <2>2 DEF OwnInv
  <2>4. active_conns > 0
    <3>1. PICK i \in 1 .. Len(list) : list[i] = c
      BY <2>2 DEF InList
    <3>2. main = "spawn" => i # 1
      BY <3>1 DEF Running, FdInv, Inv, Waiting
    <3>3. Len(list) \in Nat /\ active_conns = Len(list) - (IF main = "spawn" THEN 1 ELSE 0)
      BY DEF FdInv, ListInv
    <3> QED
      BY <3>1, <3>2, <3>3
  <2>5. waits_on[c] \in {NONE, c}
    BY DEF WaitsInv, Apart
  <2> QED
    BY <2>1, <2>3, <2>4, <2>5 DEF OwnInv
<1>2. Init => RoomInv
  BY InitialRoom
<1>3. FdInv /\ RoomInv /\ [Next]_vars => RoomInv'
  BY RoomKept
<1> QED
  BY <1>1, <1>2, <1>3, WaitsAlways, PTL DEF Spec

\* data_file.fd names a client's socket only between the accept of the first
\* connection and the open of the data file: with the plain file always, with the
\* device when clients come one at a time, for any number of connections.
THEOREM StaleOnlyAtFirst == Spec => []StaleWindow
<1>1. FdInv => StaleWindow
  <2> SUFFICES ASSUME FdInv, main # "exited", Apart, IsSock(data_fd)
               PROVE  main = "spawn" /\ active_conns = 0
    BY DEF StaleWindow, Apart
  <2>1. OwnInv /\ FdTypes /\ ListInv
    BY DEF FdInv, ApartInv
  <2>2. PICK c \in Conns : fds[data_fd] = <<"sock", c>>
    BY <2>1, KindsDiffer DEF FdTypes, IsSock
  <2>3. InList(c) /\ data_fd \in Fds
    BY <2>1, <2>2 DEF OwnInv, IsSock
  <2>4. PICK i \in 1 .. Len(list) : list[i] = c
    BY <2>3 DEF InList
  <2>5. Len(list) \in Nat /\ active_conns = Len(list) - (IF main = "spawn" THEN 1 ELSE 0)
    BY <2>1 DEF ListInv
  <2>6. ~IsFile(data_fd) /\ data_fd # NO_FD /\ ~Dangling
    BY <2>2, <2>3, NoDescriptor, NamesDiffer DEF IsFile, Dangling, FREE
  <2>7. ~(active_conns > 0)
    BY <2>1, <2>6 DEF OwnInv
  <2> QED
    BY <2>4, <2>5, <2>7
<1> QED
  BY <1>1, FdInvAlways, PTL

-----------------------------------------------------------------------------
(* Replies.                                                                  *)

Labels == {"none", "packet", "recv", "lines", "write", "open", "lock", "lseek", "read", "send", "exit", "done"}

Handlers(S) ==
  [pc : Labels, fd : Fds \cup {NO_FD}, batch : Seq(S), line : S, seek_done : BOOLEAN]

Clients(S) ==
  [state : {"new", "pending", "open", "closed"}, sent : Nat, script : Seq(S), patient : BOOLEAN]

\* Everything that is sent, stored and sent back are lines of S.
DataInv(S) ==
  /\ file \in Seq(S)
  /\ thread \in [Conns -> Handlers(S)]
  /\ client \in [Conns -> Clients(S)]
  /\ \A c \in Conns : /\ client[c].sent <= Len(client[c].script)
                      /\ thread[c].pc = "write" => thread[c].batch # <<>>
  /\ inbox \in [Conns -> Seq(S)]
  /\ reply \in [Conns -> [from : Int, lines : Seq(S)]]
  /\ timer = "idle"

\* What handler t has sent of the reply r when the file holds the lines f and the
\* position of data_file.fd is p: up to the read loop nothing, and the position is
\* where the reply has to start; in the loop all lines up to the position.
ReplyRight(t, r, f, p) ==
  /\ t.pc = "none" => r.from = -1
  /\ t.pc \in {"packet", "recv"} /\ r.from >= 0 => r.lines = SubSeq(f, r.from + 1, Len(f))
  /\ t.pc \in {"lines", "write"} =>
       /\ r.lines = <<>>
       /\ IF t.seek_done THEN r.from >= 0 => r.from < Len(f) /\ p = r.from ELSE r.from = 0
  /\ t.pc \in {"open", "lseek", "lock"} => r.from = 0 /\ r.lines = <<>>
  /\ t.pc = "lock" => p = 0
  /\ t.pc = "read" /\ r.from >= 0 =>
       r.from <= p /\ p <= Len(f) /\ r.lines = SubSeq(f, r.from + 1, p)
  /\ t.pc = "send" /\ r.from >= 0 =>
       r.from < p /\ p <= Len(f) /\ r.lines = SubSeq(f, r.from + 1, p - 1) /\ t.line = f[p]

ReplyInv ==
  Patient /\ main # "exited" =>
    \A c \in Conns : ReplyRight(thread[c], reply[c], file, Position(data_fd))

\* A handler at work has the open file to itself, and finds a descriptor when it
\* opens it again.
LEMMA HandlerAlone ==
  ASSUME FdInv, RoomInv, Patient, Alive, NEW c \in Conns, Running(c)
  PROVE  /\ thread[c].pc # "open" => IsFile(data_fd) /\ data_fd \in Fds /\ Position(data_fd) \in Nat
         /\ thread[c].pc = "open" => NewFd \in Fds
         /\ \A d \in Conns : d # c => thread[d].pc \in {"none", "done"}
<1>1. OwnInv /\ main # "exited" /\ data_fd # NO_FD /\ fds \in [Fds -> FdKinds] /\ data_fd \in Fds
  BY DEF FdInv, ApartInv, Apart, RoomInv, FdTypes, Alive
<1>2. ~Idle(c)
  BY DEF Idle, Running, FdInv, Inv, Waiting
<1>3. \A d \in Conns : d # c => thread[d].pc \in {"none", "done"}
  BY <1>2 DEF FdInv, AloneInv, Idle, Inv, Waiting
<1>4. active_conns > 0
  BY <1>1, RunningCounted
<1>5. CASE thread[c].pc # "open"
  <2>1. ~Reopening
    BY <1>3, <1>5 DEF Reopening
  <2>2. IsFile(data_fd)
    BY <1>1, <1>4, <2>1 DEF OwnInv
  <2> QED
    BY <1>1, <1>3, <1>5, <2>2, KindsDiffer DEF IsFile, Position
<1>6. CASE thread[c].pc = "open"
  <2>1. fds[data_fd] = FREE
    BY <1>1, <1>6 DEF OwnInv, Reopening, Dangling
  <2>2. <<"file", 0>> \in FdKinds
    BY DEF FdKinds
  <2> QED
    BY <1>1, <1>3, <1>6, <2>1, <2>2, OpenedIs DEF NewFd
<1> QED
  BY <1>5, <1>6

\* A line is read where the reply stands, and sent.
LEMMA LineSent ==
  ASSUME NEW S, NEW f \in Seq(S), NEW a \in Nat, NEW p \in Nat, a < p, p <= Len(f)
  PROVE  Append(SubSeq(f, a + 1, p - 1), f[p]) = SubSeq(f, a + 1, p)
<1>1. PICK q \in Nat : q = p - 1 /\ p = q + 1 /\ a <= q /\ q <= Len(f)
  OBVIOUS
<1>2. PICK n \in Nat : n = q - a /\ q = a + n
  BY <1>1
<1>3. PICK s, u : s = SubSeq(f, a + 1, p - 1) /\ u = SubSeq(f, a + 1, p)
  OBVIOUS
<1>4. s \in Seq(S) /\ Len(s) = n /\ \A i \in 1 .. n : s[i] = f[a + i]
  <2>1. s = [i \in 1 .. (IF a + 1 <= q THEN q - (a + 1) + 1 ELSE 0) |-> f[a + 1 + i - 1]]
    BY <1>1, <1>3
  <2>2. (IF a + 1 <= q THEN q - (a + 1) + 1 ELSE 0) = n
    BY <1>1, <1>2
  <2>3. \A i \in 1 .. n : a + i \in 1 .. Len(f) /\ a + 1 + i - 1 = a + i
    BY <1>1, <1>2
  <2>4. s = [i \in 1 .. n |-> f[a + i]]
    BY <2>1, <2>2, <2>3
  <2> QED
    BY <2>3, <2>4
<1>5. u \in Seq(S) /\ Len(u) = n + 1 /\ \A i \in 1 .. n + 1 : u[i] = f[a + i]
  <2>1. u = [i \in 1 .. (IF a + 1 <= p THEN p - (a + 1) + 1 ELSE 0) |-> f[a + 1 + i - 1]]
    BY <1>3
  <2>2. (IF a + 1 <= p THEN p - (a + 1) + 1 ELSE 0) = n + 1
    BY <1>1, <1>2
  <2>3. \A i \in 1 .. n + 1 : a + i \in 1 .. Len(f) /\ a + 1 + i - 1 = a + i
    BY <1>1, <1>2
  <2>4. u = [i \in 1 .. n + 1 |-> f[a + i]]
    BY <2>1, <2>2, <2>3
  <2>5. PICK k \in Nat : k = n + 1
    OBVIOUS
  <2>6. ASSUME NEW i \in 1 .. k PROVE f[a + i] \in S
    <3>1. a + i \in 1 .. Len(f)
      BY <2>3, <2>5
    <3> QED
      BY <3>1
  <2>7. u = [i \in 1 .. k |-> f[a + i]]
    BY <2>4, <2>5
  <2> QED
    BY <2>5, <2>6, <2>7
<1>6. PICK v : v = Append(s, f[p])
  OBVIOUS
<1>7. v \in Seq(S) /\ Len(v) = n + 1 /\ (\A i \in 1 .. n : v[i] = s[i]) /\ v[n + 1] = f[p]
  BY <1>4, <1>6, AppendProperties
<1>8. \A i \in 1 .. n + 1 : v[i] = u[i]
  <2>1. p = a + (n + 1)
    BY <1>1, <1>2
  <2>2. u[n + 1] = f[p]
    BY <1>5, <2>1
  <2>3. \A i \in 1 .. n + 1 : i = n + 1 \/ i \in 1 .. n
    OBVIOUS
  <2> QED
    BY <1>4, <1>5, <1>7, <2>2, <2>3
<1> QED
  BY <1>3, <1>5, <1>6, <1>7, <1>8, SeqEqual

\* What a write to the device leaves in it.
LEMMA DeviceWritten ==
  ASSUME USE_AESD_CHAR_DEVICE, NEW S, file \in Seq(S), NEW line \in S, NEW f
  PROVE  FileWritten(f, line) \in Seq(S) /\ Len(FileWritten(f, line)) >= Len(file)
<1>1. CASE Len(file) < MAX
  <2>1. FileWritten(f, line) = Append(file, line)
    BY <1>1 DEF FileWritten
  <2>2. Append(file, line) \in Seq(S) /\ Len(Append(file, line)) = Len(file) + 1
    BY AppendProperties
  <2> QED
    BY <2>1, <2>2
<1>2. CASE ~(Len(file) < MAX)
  <2>1. FileWritten(f, line) = Append(Tail(file), line)
    BY <1>2 DEF FileWritten
  <2>2. file # <<>>
    BY <1>2, MaxAssumption
  <2>3. Tail(file) \in Seq(S) /\ Len(Tail(file)) = Len(file) - 1
    BY <2>2, HeadTailProperties
  <2>4. Append(Tail(file), line) \in Seq(S) /\ Len(Append(Tail(file), line)) = Len(Tail(file)) + 1
    BY <2>3, AppendProperties
  <2> QED
    BY <2>1, <2>3, <2>4
<1> QED
  BY <1>1, <1>2

\* Lines come from the clients and go where lines are kept: a step of a handler.
LEMMA HandlerKeepsData ==
  ASSUME USE_AESD_CHAR_DEVICE, NEW S, FdTypes, WaitsInv, DataInv(S), NEW c \in Conns, handle_connection(c) \/ no_memory(c)
  PROVE  DataInv(S)'
<1> USE DEF At
<1>0. /\ thread \in [Conns -> Handlers(S)] /\ thread[c] \in Handlers(S) /\ file \in Seq(S)
      /\ client \in [Conns -> Clients(S)] /\ inbox \in [Conns -> Seq(S)]
      /\ reply \in [Conns -> [from : Int, lines : Seq(S)]] /\ timer = "idle"
      /\ \A d \in Conns : /\ client[d].sent <= Len(client[d].script)
                          /\ thread[d].pc = "write" => thread[d].batch # <<>>
  BY DEF DataInv
<1>s. \A g \in Fds : IsSock(g) => Peer(g) \in Conns
  BY KindsDiffer DEF FdTypes, IsSock, Peer
<1>p. \A g \in Fds : IsFile(g) => Position(g) \in Nat
  BY KindsDiffer DEF FdTypes, IsFile, Position
<1>m. ASSUME NEW label \in Labels, Goto(c, label), label = "write" => thread[c].batch # <<>>,
             UNCHANGED <<file, timer, client, inbox>>,
             reply' \in [Conns -> [from : Int, lines : Seq(S)]]
      PROVE  DataInv(S)'
  <2>1. thread' \in [Conns -> Handlers(S)]
    BY <1>0, <1>m DEF Goto, Handlers
  <2>2. \A d \in Conns : thread'[d].pc = "write" => thread'[d].batch # <<>>
    BY <1>0, <1>m DEF Goto, Handlers
  <2> QED
    BY <1>0, <1>m, <2>1, <2>2 DEF DataInv
<1>1. CASE packet(c) \/ recv_ends(c) \/ thread_cleanup(c) \/ (LinesDone(c) /\ Moves(c, "exit"))
  BY <1>0, <1>1, <1>m DEF packet, recv_ends, thread_cleanup, Moves, Labels, ioVars, timerVars, netVars
<1>w. \A f : On(c, f) = NONE \/ On(c, f) \in Conns
  BY <1>s DEF WaitsInv, On, Threads, IsSock
<1>2. CASE recv(c) \/ (no_memory(c) /\ Gets(c, "exit"))
  <2>1. PICK g \in Conns, label \in {"lines", "exit"} : \E n \in 1 .. Len(inbox[g]) : Receives(c, g, n, label)
    <3>1. CASE recv(c)
      BY <1>w, <3>1 DEF recv, ClientOf
    <3>2. CASE no_memory(c) /\ Gets(c, "exit")
      BY <1>w, <3>2 DEF no_memory, ClientOf, Gets, LinesDone, Sends
    <3> QED
      BY <1>2, <3>1, <3>2
  <2>2. PICK q \in Seq(S) : q = inbox[g]
    BY <1>0
  <2>3. PICK n \in 1 .. Len(q) :
          /\ thread' = [thread EXCEPT ![c].pc = label, ![c].seek_done = FALSE, ![c].batch = SubSeq(q, 1, n)]
          /\ inbox' = [inbox EXCEPT ![g] = SubSeq(q, n + 1, Len(q))]
    <3>1. PICK n \in 1 .. Len(inbox[g]) :
            /\ thread' = [thread EXCEPT ![c].pc = label, ![c].seek_done = FALSE,
                                        ![c].batch = SubSeq(inbox[g], 1, n)]
            /\ inbox' = [inbox EXCEPT ![g] = SubSeq(@, n + 1, Len(@))]
      BY <2>1 DEF Receives, SeekDoneReset
    <3>2. inbox' = [inbox EXCEPT ![g] = SubSeq(inbox[g], n + 1, Len(inbox[g]))]
      BY <1>0, <3>1
    <3> QED
      BY <2>2, <3>1, <3>2
  <2>4. SubSeq(q, 1, n) \in Seq(S) /\ SubSeq(q, n + 1, Len(q)) \in Seq(S)
    <3>1. \A i \in 1 .. n : q[i] \in S
      BY <2>3
    <3>2. \A i \in n + 1 .. Len(q) : q[i] \in S
      BY <2>3
    <3> QED
      BY <2>3, <3>1, <3>2, SubSeqProperties
  <2>5. thread' \in [Conns -> Handlers(S)]
    BY <1>0, <2>3, <2>4 DEF Labels, Handlers
  <2>6. inbox' \in [Conns -> Seq(S)]
    BY <1>0, <2>3, <2>4
  <2>7. reply' \in [Conns -> [from : Int, lines : Seq(S)]]
    <3>1. [from |-> 0, lines |-> <<>>] \in [from : Int, lines : Seq(S)]
      OBVIOUS
    <3> QED
      BY <1>0, <2>1, <3>1 DEF Receives
  <2>8. \A d \in Conns : thread'[d].pc = "write" => thread'[d].batch # <<>>
    BY <1>0, <2>3 DEF Handlers
  <2> QED
    BY <1>0, <2>1, <2>5, <2>6, <2>7, <2>8 DEF Receives, DataInv, ioVars, timerVars
<1>3. CASE ioctl(c)
  <2>1. thread[c].batch \in Seq(S) /\ thread[c].batch # <<>> /\ Head(thread[c].batch) \in Commands
    BY <1>0, <1>3 DEF ioctl, HasLine, IsCommand, Handlers
  <2>2. PICK target \in Nat : target = Target[Head(thread[c].batch)]
    BY <2>1, PlansAssumption
  <2>3. Tail(thread[c].batch) \in Seq(S)
    BY <2>1, HeadTailProperties
  <2>4. thread' = [thread EXCEPT ![c].seek_done = TRUE, ![c].batch = Tail(thread[c].batch)] /\ thread[c].pc = "lines"
    BY <1>0, <1>3 DEF ioctl, HasLine
  <2>5. thread' \in [Conns -> Handlers(S)] /\ \A d \in Conns : thread'[d].pc = "write" => thread'[d].batch # <<>>
    BY <1>0, <2>3, <2>4 DEF Handlers
  <2>6. PICK from \in Int : reply' = [reply EXCEPT ![c].from = from]
    <3>1. reply[c].from \in Int /\ -1 \in Int
      BY <1>0
    <3>2. PICK ok : reply' = [reply EXCEPT ![c].from = IF ok THEN target
                                                      ELSE IF thread[c].seek_done THEN @ ELSE -1]
      BY <1>3, <2>2 DEF ioctl
    <3>3. reply' = [reply EXCEPT ![c].from = IF ok THEN target
                                             ELSE IF thread[c].seek_done THEN reply[c].from ELSE -1]
      BY <1>0, <3>2
    <3>4. (IF ok THEN target ELSE IF thread[c].seek_done THEN reply[c].from ELSE -1) \in Int
      BY <3>1
    <3> QED
      BY <3>3, <3>4
  <2>7. reply' \in [Conns -> [from : Int, lines : Seq(S)]]
    BY <1>0, <2>6
  <2> QED
    BY <1>0, <1>3, <2>5, <2>7 DEF ioctl, DataInv, timerVars, netVars
<1>4. CASE lock_write(c) \/ lock_lseek(c) \/ lock_read(c)
  BY <1>0, <1>4, <1>m DEF lock_write, lock_lseek, lock_read, LocksAndMoves, Labels, HasLine, ioVars, timerVars, netVars
<1>5. CASE write_fails(c) \/ read_ends(c) \/ send_fails(c) \/ (At(c, "send") /\ UnlocksAndMoves(c, "exit"))
  BY <1>0, <1>5, <1>m DEF write_fails, read_ends, send_fails, UnlocksAndMoves, Labels, ioVars, timerVars, netVars
<1>6. CASE write(c)
  <2>1. thread[c].batch \in Seq(S) /\ thread[c].batch # <<>>
    BY <1>0, <1>6 DEF write, Handlers
  <2>2. Head(thread[c].batch) \in S /\ Tail(thread[c].batch) \in Seq(S)
    BY <2>1, HeadTailProperties
  <2>3. thread' \in [Conns -> Handlers(S)] /\ \A d \in Conns : thread'[d].pc = "write" => thread'[d].batch # <<>>
    BY <1>0, <1>6, <2>2 DEF write, Handlers, Labels
  <2>4. file' \in Seq(S)
    BY <1>0, <1>6, <2>2, DeviceWritten DEF write, WriteData
  <2> QED
    BY <1>0, <1>6, <2>3, <2>4 DEF write, DataInv, timerVars
<1>7. CASE close_data(c) \/ open_data(c) \/ lseek(c)
  BY <1>0, <1>7, <1>m DEF close_data, open_data, lseek, Labels, timerVars, netVars
<1>8. CASE read(c)
  <2>1. CASE /\ IsFile(data_fd) /\ Position(data_fd) < Len(file)
             /\ thread' = [thread EXCEPT ![c].pc = "send", ![c].line = file[Position(data_fd) + 1]]
             /\ UNCHANGED inbox
    <3>1. Position(data_fd) + 1 \in 1 .. Len(file)
      BY <1>0, <1>p, <2>1 DEF IsFile
    <3>2. file[Position(data_fd) + 1] \in S
      BY <1>0, <3>1
    <3>3. thread' \in [Conns -> Handlers(S)] /\ \A d \in Conns : thread'[d].pc = "write" => thread'[d].batch # <<>>
      BY <1>0, <2>1, <3>2 DEF Handlers, Labels
    <3> QED
      BY <1>0, <1>8, <2>1, <3>3 DEF read, DataInv, timerVars
  <2>2. CASE /\ On(c, data_fd) # NONE /\ inbox[On(c, data_fd)] # <<>>
             /\ thread' = [thread EXCEPT ![c].pc = "send", ![c].line = Head(inbox[On(c, data_fd)])]
             /\ inbox' = [inbox EXCEPT ![On(c, data_fd)] = Tail(@)]
    <3>1. PICK g \in Conns : g = On(c, data_fd)
      BY <1>w, <2>2
    <3>2. Head(inbox[g]) \in S /\ Tail(inbox[g]) \in Seq(S)
      BY <1>0, <2>2, <3>1, HeadTailProperties
    <3>3. thread' \in [Conns -> Handlers(S)] /\ \A d \in Conns : thread'[d].pc = "write" => thread'[d].batch # <<>>
      BY <1>0, <2>2, <3>1, <3>2 DEF Handlers, Labels
    <3>4. inbox' \in [Conns -> Seq(S)]
      BY <1>0, <2>2, <3>1, <3>2
    <3> QED
      BY <1>0, <1>8, <3>3, <3>4 DEF read, DataInv, timerVars
  <2> QED
    BY <1>8, <2>1, <2>2 DEF read, OnFile
<1>9. CASE send(c) \/ Sends(c, "exit")
  <2>1. thread[c].line \in S /\ reply[c].lines \in Seq(S)
    BY <1>0 DEF Handlers
  <2>2. Append(reply[c].lines, thread[c].line) \in Seq(S)
    BY <2>1, AppendProperties
  <2>3. reply' \in [Conns -> [from : Int, lines : Seq(S)]]
    BY <1>0, <1>9, <2>2 DEF send, Sends
  <2> QED
    BY <1>0, <1>9, <1>m, <2>3 DEF send, Sends, Labels, ioVars, timerVars
<1>10. CASE waits(c)
  BY <1>0, <1>10 DEF waits, DataInv, ioVars, timerVars, netVars
<1> QED
  BY <1>1, <1>2, <1>3, <1>4, <1>5, <1>6, <1>7, <1>8, <1>9, <1>10 DEF handle_connection, no_memory, Gets

\* The same of everybody else's steps.
LEMMA DataKept ==
  ASSUME USE_AESD_CHAR_DEVICE, NEW S, FdInv, WaitsInv, DataInv(S), [Next]_vars
  PROVE  DataInv(S)'
<1>0. /\ thread \in [Conns -> Handlers(S)] /\ file \in Seq(S)
      /\ client \in [Conns -> Clients(S)] /\ inbox \in [Conns -> Seq(S)]
      /\ reply \in [Conns -> [from : Int, lines : Seq(S)]] /\ timer = "idle"
      /\ \A d \in Conns : /\ client[d].sent <= Len(client[d].script)
                          /\ thread[d].pc = "write" => thread[d].batch # <<>>
      /\ FdTypes /\ fds \in [Fds -> FdKinds]
  BY DEF DataInv, FdInv, FdTypes
<1>1. ASSUME NEW c \in Conns, handle_connection(c) \/ no_memory(c) PROVE DataInv(S)'
  BY <1>0, <1>1, HandlerKeepsData
<1>2. CASE write_timestamp_lock \/ write_timestamp \/ write_timestamp_waits
  BY <1>0, <1>2 DEF write_timestamp_lock, write_timestamp, write_timestamp_waits
<1>3. CASE \/ sig_handler \/ UNCHANGED vars \/ main_bind \/ daemonize \/ main_listen \/ main_top
           \/ accept_fails \/ reap \/ scan_ends \/ drain \/ cleanup \/ sigpipe \/ no_node \/ gives_up
  <2>1. UNCHANGED <<file, thread, client, inbox, reply, timer>>
    BY <1>3 DEF sig_handler, main_bind, daemonize, main_listen, main_top, accept_fails, reap, scan_ends, drain,
       cleanup, sigpipe, no_node, gives_up, Ends, restVars, netVars, timerVars, vars, ioVars
  <2> QED
    BY <1>0, <2>1 DEF DataInv
<1>4. CASE spawn
  <2>1. PICK c \in Conns : c = Head(list)
    BY <1>4 DEF spawn, FdInv, Inv, Waiting
  <2>2. PICK label \in {"packet", "exit", "none"} : thread' = [thread EXCEPT ![c].pc = label]
    BY <1>4, <2>1 DEF spawn, Goto
  <2>3. thread' \in [Conns -> Handlers(S)]
    <3>1. label \in Labels
      BY DEF Labels
    <3> QED
      BY <1>0, <2>2, <3>1 DEF Handlers
  <2>4. \A d \in Conns : thread'[d].pc = "write" => thread'[d].batch # <<>>
    BY <1>0, <2>2 DEF Handlers
  <2> QED
    BY <1>0, <1>4, <2>3, <2>4 DEF spawn, DataInv, timerVars, netVars
<1>5. ASSUME NEW c \in Conns, accept(c) PROVE DataInv(S)'
  <2>1. NewFd \in Fds \cup {NO_FD}
    <3>1. FREE \in FdKinds
      BY DEF FdKinds
    <3> QED
      BY <1>0, <3>1, OpenedIs DEF NewFd
  <2>2. thread' = [thread EXCEPT ![c].fd = NewFd] /\ client' = [client EXCEPT ![c].state = "open"]
    BY <1>5 DEF accept
  <2>3. thread' \in [Conns -> Handlers(S)] /\ \A d \in Conns : thread'[d].pc = "write" => thread'[d].batch # <<>>
    BY <1>0, <2>1, <2>2 DEF Handlers
  <2>4. client' \in [Conns -> Clients(S)] /\ \A d \in Conns : client'[d].sent <= Len(client'[d].script)
    BY <1>0, <2>2 DEF Clients
  <2> QED
    BY <1>0, <1>5, <2>3, <2>4 DEF accept, DataInv, timerVars
<1>6. ASSUME NEW c \in Conns, connect(c) \/ client_read(c) \/ client_close(c) PROVE DataInv(S)'
  <2>1. UNCHANGED <<file, thread, inbox, reply, timer>>
        /\ client' \in {client, [client EXCEPT ![c].state = "pending"], [client EXCEPT ![c].state = "closed"]}
    BY <1>6 DEF connect, client_read, client_close, ioVars, timerVars
  <2>2. /\ client' \in [Conns -> Clients(S)]
        /\ \A d \in Conns : client'[d].sent = client[d].sent /\ client'[d].script = client[d].script
    <3>1. CASE client' = client
      BY <1>0, <3>1
    <3>2. CASE client' = [client EXCEPT ![c].state = "pending"]
      BY <1>0, <3>2 DEF Clients
    <3>3. CASE client' = [client EXCEPT ![c].state = "closed"]
      BY <1>0, <3>3 DEF Clients
    <3> QED
      BY <2>1, <3>1, <3>2, <3>3
  <2> QED
    BY <1>0, <2>1, <2>2 DEF DataInv
<1>7. ASSUME NEW c \in Conns, client_send(c) PROVE DataInv(S)'
  <2>1. /\ UNCHANGED <<file, thread, reply, timer>> /\ client[c].sent < Len(client[c].script)
        /\ client' = [client EXCEPT ![c].sent = @ + 1]
        /\ inbox' = [inbox EXCEPT ![c] = Append(@, client[c].script[client[c].sent + 1])]
    BY <1>7 DEF client_send, ioVars, timerVars
  <2>2. client[c].sent \in Nat /\ client[c].script \in Seq(S) /\ inbox[c] \in Seq(S)
    BY <1>0 DEF Clients
  <2>3. client[c].sent + 1 \in 1 .. Len(client[c].script)
    BY <2>1, <2>2
  <2>4. Append(inbox[c], client[c].script[client[c].sent + 1]) \in Seq(S)
    BY <2>2, <2>3, AppendProperties
  <2>5. inbox' \in [Conns -> Seq(S)]
    BY <1>0, <2>1, <2>4
  <2>6. PICK n \in Nat : n = client[c].sent + 1 /\ n <= Len(client[c].script)
    BY <2>2, <2>3
  <2>7. client' = [client EXCEPT ![c].sent = n]
    BY <1>0, <2>1, <2>6
  <2>8. client' \in [Conns -> Clients(S)]
    BY <1>0, <2>7 DEF Clients
  <2>9. \A d \in Conns : client'[d].sent <= Len(client'[d].script)
    BY <1>0, <2>6, <2>7 DEF Clients
  <2> QED
    BY <1>0, <2>1, <2>5, <2>8, <2>9 DEF DataInv
<1> QED
  BY <1>1, <1>2, <1>3, <1>4, <1>5, <1>6, <1>7 DEF Next, main_thread, client_step, Exited

\* A handler changes nothing of another one's.
LEMMA HandlerTouchesOwn ==
  ASSUME NEW S, DataInv(S), NEW c \in Conns, handle_connection(c) \/ no_memory(c),
         NEW d \in Conns, d # c
  PROVE  thread'[d] = thread[d] /\ reply'[d] = reply[d]
<1> USE DEF DataInv, Handlers
<1>1. CASE packet(c) \/ recv_ends(c) \/ thread_cleanup(c) \/ (LinesDone(c) /\ Moves(c, "exit"))
  BY <1>1 DEF packet, recv_ends, thread_cleanup, Moves, Goto
<1>2. CASE recv(c) \/ Gets(c, "exit")
  BY <1>2 DEF recv, Gets, Receives
<1>3. CASE ioctl(c)
  BY <1>3 DEF ioctl
<1>4. CASE lock_write(c) \/ lock_lseek(c) \/ lock_read(c)
  BY <1>4 DEF lock_write, lock_lseek, lock_read, LocksAndMoves, Goto
<1>5. CASE write_fails(c) \/ read_ends(c) \/ send_fails(c) \/ (At(c, "send") /\ UnlocksAndMoves(c, "exit"))
  BY <1>5 DEF write_fails, read_ends, send_fails, UnlocksAndMoves, Goto
<1>6. CASE write(c)
  BY <1>6 DEF write
<1>7. CASE close_data(c) \/ open_data(c) \/ lseek(c) \/ send(c) \/ Sends(c, "exit")
  BY <1>7 DEF close_data, open_data, lseek, send, Sends, Goto
<1>8. CASE read(c)
  BY <1>8 DEF read
<1>9. CASE waits(c)
  BY <1>9 DEF waits
<1> QED
  BY <1>1, <1>2, <1>3, <1>4, <1>5, <1>6, <1>7, <1>8, <1>9 DEF handle_connection, no_memory, Gets

\* A reply that starts at the end of what has been sent is empty.
LEMMA NothingSent ==
  ASSUME NEW f, NEW a \in Nat
  PROVE  SubSeq(f, a + 1, a) = <<>>
<1>1. ~(a + 1 <= a)
  OBVIOUS
<1>2. SubSeq(f, a + 1, a) = [i \in 1 .. 0 |-> f[a + 1 + i - 1]]
  BY <1>1
<1> QED
  BY <1>2

\* A handler goes by its reply: from the packet to the end of the read loop.
LEMMA HandlerKeepsReply ==
  ASSUME USE_AESD_CHAR_DEVICE, NEW S, FdInv, WaitsInv, RoomInv, DataInv(S), ReplyInv, Patient,
         NEW c \in Conns, handle_connection(c) \/ no_memory(c)
  PROVE  ReplyRight(thread'[c], reply'[c], file', Position(data_fd)')
<1>a. Alive /\ Running(c) /\ main # "exited"
  BY HandlerSteps DEF FdInv, Inv, MutexInv, HandlerStep, Alive
<1>b. /\ thread[c].pc # "open" => IsFile(data_fd) /\ data_fd \in Fds /\ Position(data_fd) \in Nat
      /\ thread[c].pc = "open" => NewFd \in Fds
  BY <1>a, HandlerAlone
<1>c. /\ thread \in [Conns -> Handlers(S)] /\ file \in Seq(S) /\ reply \in [Conns -> [from : Int, lines : Seq(S)]]
      /\ fds \in [Fds -> FdKinds]
      /\ \A d \in Conns : thread[d].pc = "write" => thread[d].batch # <<>>
  BY DEF DataInv, FdInv, FdTypes
<1>h. PICK p : p = Position(data_fd)
  OBVIOUS
<1>d. PICK t \in Handlers(S), r \in [from : Int, lines : Seq(S)], f \in Seq(S) :
        t = thread[c] /\ r = reply[c] /\ f = file /\ p = Position(data_fd)
  BY <1>c, <1>h
<1>e. PICK u, q, g, o : u = thread'[c] /\ q = reply'[c] /\ g = file' /\ o = Position(data_fd)'
  OBVIOUS
<1>f. ReplyRight(t, r, f, p)
  BY <1>a, <1>d DEF ReplyInv
<1>g. t.pc # "open" => IsFile(data_fd) /\ data_fd \in Fds /\ p \in Nat
  BY <1>b, <1>d
<1>m. ASSUME NEW label, Goto(c, label)
      PROVE  u.pc = label /\ u.seek_done = t.seek_done /\ u.line = t.line
  BY <1>c, <1>d, <1>e, <1>m DEF Goto, Handlers
<1>n. ASSUME UNCHANGED <<ioVars, reply>>
      PROVE  q = r /\ g = f /\ o = p
  <2>1. Position(data_fd)' = Position(data_fd)
    BY <1>n DEF ioVars, Position
  <2> QED
    BY <1>d, <1>e, <1>n, <2>1 DEF ioVars
<1>w. t.pc \in {"write", "read"} => waits_on[c] = NONE
  BY <1>d DEF WaitsInv, Apart
<1>x. ASSUME u.pc \in {"exit", "done"} PROVE ReplyRight(u, q, g, o)
  BY <1>x DEF ReplyRight
<1>1. CASE packet(c)
  <2>1. t.pc = "packet" /\ u.pc \in {"exit", "recv"} /\ q = r /\ g = f
    BY <1>1, <1>d, <1>m, <1>n DEF packet, Moves, At
  <2> QED
    BY <1>d, <1>e, <1>f, <2>1 DEF ReplyRight
<1>2. CASE recv_ends(c) \/ (LinesDone(c) /\ Moves(c, "exit")) \/ thread_cleanup(c)
  BY <1>2, <1>e, <1>m, <1>x DEF recv_ends, thread_cleanup, Moves
<1>3. CASE write_fails(c) \/ send_fails(c) \/ (At(c, "send") /\ UnlocksAndMoves(c, "exit"))
  BY <1>3, <1>e, <1>m, <1>x DEF write_fails, send_fails, UnlocksAndMoves
<1>4. CASE recv(c)
  <2>1. u.pc = "lines" /\ ~u.seek_done
    BY <1>4, <1>c, <1>e DEF recv, Receives, SeekDoneReset, Handlers
  <2>2. q.from = 0 /\ q.lines = <<>>
    BY <1>4, <1>c, <1>e DEF recv, Receives
  <2> QED
    BY <1>e, <2>1, <2>2 DEF ReplyRight
<1>5. CASE ioctl(c)
  <2>1. PICK target : target = Target[Head(thread[c].batch)]
    OBVIOUS
  <2>2. t.pc = "lines" /\ u.pc = "lines" /\ u.seek_done /\ q.lines = r.lines /\ g = f
    BY <1>5, <1>c, <1>d, <1>e DEF ioctl, HasLine, At, Handlers
  <2>3. CASE target < Len(f)
    <3>1. reply' = [reply EXCEPT ![c].from = target] /\ fds' = [fds EXCEPT ![data_fd] = <<"file", target>>]
          /\ data_fd' = data_fd
      BY <1>5, <1>d, <1>g, <2>1, <2>2, <2>3 DEF ioctl
    <3>2. q.from = target /\ o = target
      BY <1>c, <1>e, <1>g, <2>2, <3>1 DEF Position
    <3> QED
      BY <1>e, <1>f, <2>2, <2>3, <3>2 DEF ReplyRight
  <2>4. CASE ~(target < Len(f))
    <3>1. reply' = [reply EXCEPT ![c].from = IF thread[c].seek_done THEN @ ELSE -1] /\ fds' = fds
          /\ data_fd' = data_fd
      BY <1>5, <1>d, <1>g, <2>1, <2>2, <2>4 DEF ioctl
    <3>2. q.from = (IF t.seek_done THEN r.from ELSE -1) /\ o = p
      BY <1>c, <1>d, <1>e, <3>1 DEF Position
    <3> QED
      BY <1>e, <1>f, <2>2, <3>2 DEF ReplyRight
  <2> QED
    BY <2>3, <2>4
<1>6. CASE lock_write(c)
  <2>1. t.pc = "lines" /\ u.pc = "write" /\ u.seek_done = t.seek_done /\ q = r /\ g = f /\ o = p
    BY <1>6, <1>d, <1>m, <1>n DEF lock_write, LocksAndMoves, HasLine, At, ioVars
  <2> QED
    BY <1>e, <1>f, <2>1 DEF ReplyRight
<1>7. CASE write(c)
  <2>1. t.pc = "write" /\ t.batch \in Seq(S) /\ t.batch # <<>> /\ thread[c].batch = t.batch
    BY <1>7, <1>c, <1>d DEF write, At, Handlers
  <2>2. Head(t.batch) \in S
    BY <2>1, HeadTailProperties
  <2>3. u.pc = "lines" /\ u.seek_done = t.seek_done /\ q = r
    BY <1>7, <1>c, <1>d, <1>e DEF write, Handlers
  <2>4. IsFile(data_fd) /\ On(c, data_fd) = NONE
    BY <1>g, <1>w, <2>1 DEF IsFile, IsSock, On
  <2>5. file' = FileWritten(data_fd, Head(t.batch)) /\ fds' = fds /\ data_fd' = data_fd
    BY <1>7, <2>1, <2>4 DEF write, WriteData, SocketAccepts, WritePosition
  <2>6. g \in Seq(S) /\ Len(g) >= Len(f) /\ o = p
    BY <1>c, <1>d, <1>e, <2>2, <2>5, DeviceWritten DEF Position
  <2>7. ASSUME NEW k \in Int, k < Len(f) PROVE k < Len(g)
    BY <2>6, <2>7
  <2> QED
    BY <1>d, <1>e, <1>f, <2>1, <2>3, <2>6, <2>7 DEF ReplyRight
<1>8. CASE close_data(c)
  <2>1. t.pc = "lines" /\ u.pc = "open" /\ ~t.seek_done /\ q = r
    BY <1>8, <1>d, <1>e, <1>m DEF close_data, LinesDone, At
  <2> QED
    BY <1>e, <1>f, <2>1 DEF ReplyRight
<1>9. CASE open_data(c)
  <2>1. t.pc = "open" /\ u.pc = "lock" /\ q = r /\ data_fd' = NewFd /\ NewFd \in Fds
        /\ fds' = Opened(fds, <<"file", 0>>)
    BY <1>9, <1>b, <1>d, <1>e, <1>m DEF open_data, At
  <2>2. PICK k \in FdKinds : k = <<"file", 0>> /\ k[2] = 0
    <3>1. <<"file", 0>> \in FdKinds /\ <<"file", 0>>[2] = 0
      BY DEF FdKinds
    <3> QED
      BY <3>1
  <2>3. Opened(fds, k)[NewFd] = k
    BY <1>c, <2>1, OpenedIs DEF NewFd
  <2>4. o = 0
    BY <1>e, <2>1, <2>2, <2>3 DEF Position
  <2> QED
    BY <1>e, <1>f, <2>1, <2>4 DEF ReplyRight
<1>10. CASE lock_lseek(c)
  BY <1>10 DEF lock_lseek
<1>11. CASE lseek(c)
  <2>1. t.pc = "lseek" /\ u.pc = "lock" /\ q = r /\ data_fd' = data_fd /\ fds' = [fds EXCEPT ![data_fd] = <<"file", 0>>]
    BY <1>11, <1>d, <1>e, <1>m DEF lseek, At
  <2>2. o = 0
    BY <1>c, <1>e, <1>g, <2>1 DEF Position
  <2> QED
    BY <1>e, <1>f, <2>1, <2>2 DEF ReplyRight
<1>12. CASE lock_read(c)
  <2>0. Goto(c, "read") /\ UNCHANGED <<ioVars, reply>>
    BY <1>12 DEF lock_read, LocksAndMoves
  <2>1. u.pc = "read" /\ q = r /\ g = f /\ o = p /\ (t.pc = "lock" \/ (t.pc = "lines" /\ t.seek_done))
    <3>1. t.pc = "lock" \/ (t.pc = "lines" /\ t.seek_done)
      BY <1>12, <1>d DEF lock_read, LinesDone, At
    <3> QED
      BY <1>m, <1>n, <2>0, <3>1
  <2>2. p \in Nat /\ Len(f) \in Nat
    BY <1>g, <2>1
  <2>3. r.from >= 0 => r.from = p /\ p <= Len(f) /\ r.lines = <<>>
    BY <1>f, <2>1, <2>2 DEF ReplyRight
  <2>4. SubSeq(f, p + 1, p) = <<>>
    BY <2>2, NothingSent
  <2>5. r.from >= 0 => r.from <= p /\ p <= Len(f) /\ r.lines = SubSeq(f, r.from + 1, p)
    BY <2>2, <2>3, <2>4
  <2> QED
    BY <1>e, <2>1, <2>5 DEF ReplyRight
<1>13. CASE read(c)
  <2>1. /\ t.pc = "read" /\ IsFile(data_fd) /\ On(c, data_fd) = NONE
        /\ p \in Nat /\ Len(f) \in Nat /\ r.from \in Int
    BY <1>13, <1>d, <1>g, <1>w DEF read, At, IsFile, IsSock, On
  <2>2. /\ p < Len(f) /\ thread' = [thread EXCEPT ![c].pc = "send", ![c].line = file[Position(data_fd) + 1]]
        /\ fds' = [fds EXCEPT ![data_fd] = <<"file", Position(data_fd) + 1>>]
        /\ data_fd' = data_fd /\ q = r /\ g = f
    BY <1>13, <1>d, <1>e, <2>1 DEF read
  <2>3. u.pc = "send" /\ u.line = f[p + 1]
    BY <1>c, <1>d, <1>e, <2>2 DEF Handlers
  <2>4. PICK m \in Nat : m = p + 1 /\ m - 1 = p /\ m <= Len(f)
    BY <2>1, <2>2
  <2>5. o = m
    BY <1>c, <1>d, <1>e, <1>g, <2>1, <2>2, <2>4 DEF Position
  <2>6. r.from >= 0 => r.from < m /\ r.lines = SubSeq(f, r.from + 1, m - 1)
    <3>1. r.from >= 0 => r.from <= p /\ r.lines = SubSeq(f, r.from + 1, p)
      BY <1>f, <2>1 DEF ReplyRight
    <3> QED
      BY <2>1, <2>4, <3>1
  <2> QED
    BY <1>e, <2>2, <2>3, <2>4, <2>5, <2>6 DEF ReplyRight
<1>14. CASE read_ends(c)
  <2>1. t.pc = "read" /\ u.pc = "packet" /\ q = r /\ g = f /\ AtEnd(c)
    BY <1>14, <1>d, <1>m, <1>n DEF read_ends, UnlocksAndMoves, At
  <2>2. p >= Len(f) /\ p \in Nat /\ Len(f) \in Nat
    BY <1>d, <1>g, <1>w, <2>1 DEF AtEnd, OnFile
  <2>3. r.from >= 0 => r.lines = SubSeq(f, r.from + 1, Len(f))
    <3>1. r.from >= 0 => p <= Len(f) /\ r.lines = SubSeq(f, r.from + 1, p)
      BY <1>f, <2>1 DEF ReplyRight
    <3>2. p <= Len(f) => p = Len(f)
      BY <2>2
    <3> QED
      BY <3>1, <3>2
  <2> QED
    BY <1>e, <2>1, <2>3 DEF ReplyRight
<1>15. CASE send(c)
  <2>1. t.pc = "send" /\ u.pc = "read" /\ g = f /\ o = p /\ p \in Nat /\ r.from \in Int
    <3>1. Position(data_fd)' = Position(data_fd)
      BY <1>15 DEF send, Sends, ioVars, Position
    <3> QED
      BY <1>15, <1>d, <1>e, <1>g, <1>m, <3>1 DEF send, Sends, At, ioVars
  <2>2. q.from = r.from /\ q.lines = Append(r.lines, t.line)
    BY <1>15, <1>c, <1>d, <1>e DEF send, Sends
  <2>3. r.from >= 0 => /\ r.from < p /\ p <= Len(f) /\ r.lines = SubSeq(f, r.from + 1, p - 1)
                       /\ t.line = f[p]
    BY <1>f, <2>1 DEF ReplyRight
  <2>4. r.from >= 0 => q.lines = SubSeq(f, r.from + 1, p)
    <3>1. r.from >= 0 => r.from \in Nat
      BY <2>1
    <3>2. r.from >= 0 => Append(SubSeq(f, r.from + 1, p - 1), f[p]) = SubSeq(f, r.from + 1, p)
      BY <2>1, <2>3, <3>1, LineSent
    <3> QED
      BY <2>2, <2>3, <3>2
  <2>5. r.from >= 0 => r.from <= p
    BY <2>1, <2>3
  <2> QED
    BY <1>e, <2>1, <2>2, <2>3, <2>4, <2>5 DEF ReplyRight
<1>16. CASE Gets(c, "exit")
  <2>1. u.pc = "exit"
    BY <1>16, <1>c, <1>e DEF Gets, Receives, Handlers
  <2> QED
    BY <1>e, <1>x, <2>1
<1>17. CASE Sends(c, "exit")
  BY <1>17, <1>e, <1>m, <1>x DEF Sends
<1>18. CASE waits(c)
  <2>1. u = t /\ q = r /\ g = f /\ o = p
    BY <1>18, <1>d, <1>e, <1>n DEF waits
  <2> QED
    BY <1>e, <1>f, <2>1
<1> QED
  BY <1>1, <1>2, <1>3, <1>4, <1>5, <1>6, <1>7, <1>8, <1>9, <1>10, <1>11, <1>12, <1>13, <1>14, <1>15,
     <1>16, <1>17, <1>18
  DEF handle_connection, no_memory, Gets

\* Every step keeps the replies right.
LEMMA RepliesKept ==
  ASSUME USE_AESD_CHAR_DEVICE, NEW S, FdInv, WaitsInv, RoomInv, DataInv(S), ReplyInv, [Next]_vars
  PROVE  ReplyInv'
<1> SUFFICES ASSUME Patient, main' # "exited" PROVE ReplyInv'
  BY PatienceKept DEF ReplyInv
<1>0. /\ Inv /\ Parts /\ FdTypes /\ ListInv /\ AloneInv /\ ListenerInv /\ (main # "exited" => OwnInv)
      /\ fds \in [Fds -> FdKinds] /\ thread \in [Conns -> Handlers(S)] /\ timer = "idle"
  BY DEF FdInv, Parts, ApartInv, Apart, DataInv, FdTypes
<1>k. ASSUME main # "exited", UNCHANGED <<file, reply>>,
             \A d \in Conns : /\ thread'[d].pc = thread[d].pc
                             /\ thread'[d].seek_done = thread[d].seek_done /\ thread'[d].line = thread[d].line,
             \A d \in Conns : Running(d) /\ thread[d].pc # "open" => Position(data_fd)' = Position(data_fd)
      PROVE  ReplyInv'
  <2>1. ASSUME NEW d \in Conns PROVE ReplyRight(thread'[d], reply'[d], file', Position(data_fd)')
    <3>1. ReplyRight(thread[d], reply[d], file, Position(data_fd))
      BY <1>k DEF ReplyInv
    <3>2. CASE Running(d) /\ thread[d].pc # "open"
      BY <1>k, <3>1, <3>2 DEF ReplyRight
    <3>3. CASE ~(Running(d) /\ thread[d].pc # "open")
      BY <1>k, <3>1, <3>3 DEF ReplyRight, Running
    <3> QED
      BY <3>2, <3>3
  <2> QED
    BY <2>1 DEF ReplyInv
<1>u. ASSUME main # "exited", UNCHANGED <<fds, data_fd, file, reply, thread>> PROVE ReplyInv'
  BY <1>k, <1>u DEF Position
<1>1. ASSUME NEW c \in Conns, handle_connection(c) \/ no_memory(c) PROVE ReplyInv'
  <2>1. Alive /\ Running(c) /\ main # "exited"
    BY <1>1, HandlerSteps DEF FdInv, Inv, MutexInv, HandlerStep, Alive
  <2>2. ASSUME NEW d \in Conns, d # c PROVE ReplyRight(thread'[d], reply'[d], file', Position(data_fd)')
    <3>1. thread'[d] = thread[d] /\ reply'[d] = reply[d]
      BY <1>1, <2>2, HandlerTouchesOwn
    <3>2. thread[d].pc \in {"none", "done"}
      BY <2>1, <2>2, HandlerAlone
    <3>3. ReplyRight(thread[d], reply[d], file, Position(data_fd))
      BY <2>1 DEF ReplyInv
    <3> QED
      BY <3>1, <3>2, <3>3 DEF ReplyRight
  <2>3. ReplyRight(thread'[c], reply'[c], file', Position(data_fd)')
    BY <1>1, HandlerKeepsReply
  <2> QED
    BY <2>2, <2>3 DEF ReplyInv
<1>2. CASE write_timestamp_lock \/ write_timestamp \/ write_timestamp_waits
  BY <1>0, <1>2 DEF write_timestamp_lock, write_timestamp, write_timestamp_waits
<1>3. ASSUME NEW c \in Conns, connect(c) \/ client_step(c) PROVE ReplyInv'
  BY <1>3, <1>u DEF connect, client_step, client_send, client_read, client_close, Up, Alive, ioVars
<1>4. CASE sig_handler
  BY <1>4, <1>u DEF sig_handler, ioVars, restVars
<1>5. CASE UNCHANGED vars
  <2>1. UNCHANGED <<fds, data_fd, file, reply, thread, main>>
    BY <1>5 DEF vars, ioVars, mainVars, restVars
  <2> QED
    BY <1>u, <2>1
<1>6. CASE cleanup \/ sigpipe \/ no_node \/ gives_up
  BY <1>6 DEF cleanup, sigpipe, no_node, gives_up, Ends
<1>7. CASE main_bind \/ daemonize \/ main_listen
  <2>1. main \in Setup /\ main # "exited" /\ UNCHANGED <<file, reply, thread>>
    BY <1>7 DEF main_bind, daemonize, main_listen, restVars, Setup
  <2>2. \A d \in Conns : ~Running(d)
    BY <1>0, <2>1 DEF ListenerInv, Running
  <2> QED
    BY <1>k, <2>1, <2>2
<1>8. CASE main_top \/ drain \/ accept_fails
  <2>1. CASE Ends
    BY <2>1 DEF Ends
  <2>2. CASE ~Ends
    BY <1>8, <1>u, <2>2 DEF main_top, drain, accept_fails, ioVars, restVars
  <2> QED
    BY <2>1, <2>2
<1>9. CASE spawn
  <2>1. PICK c \in Conns : c = Head(list) /\ thread[c].pc = "none" /\ client[c].state \notin {"new", "pending"}
    BY <1>0, <1>9 DEF spawn, Inv, Waiting
  <2>2. PICK label \in {"packet", "exit", "none"} : thread' = [thread EXCEPT ![c].pc = label]
    BY <1>9, <2>1 DEF spawn, Goto
  <2>3. UNCHANGED <<file, reply>> /\ main # "exited"
    BY <1>9 DEF spawn
  <2>4. \A d \in Conns : d # c => thread[d].pc \in {"none", "done"}
    BY <1>0, <2>1 DEF AloneInv, Idle, Inv, Waiting
  <2>5. ASSUME NEW d \in Conns PROVE ReplyRight(thread'[d], reply'[d], file', Position(data_fd)')
    <3>1. ReplyRight(thread[d], reply[d], file, Position(data_fd))
      BY <2>3 DEF ReplyInv
    <3>2. CASE d = c
      <4>1. reply[d].from = -1 /\ thread'[d].pc = label
        BY <1>0, <2>1, <2>2, <3>1, <3>2 DEF ReplyRight, Handlers
      <4> QED
        BY <2>2, <2>3, <4>1 DEF ReplyRight
    <3>3. CASE d # c
      <4>1. thread'[d] = thread[d] /\ thread[d].pc \in {"none", "done"}
        BY <1>0, <2>2, <2>4, <3>3
      <4> QED
        BY <2>3, <3>1, <4>1 DEF ReplyRight
    <3> QED
      BY <3>2, <3>3
  <2> QED
    BY <2>5 DEF ReplyInv
<1>10. CASE reap
  <2>1. /\ main # "exited" /\ scan # <<>> /\ UNCHANGED <<file, reply, thread, data_fd>>
        /\ fds' = fds \/ fds' = Closed(thread[Head(scan)].fd)
    BY <1>10 DEF reap, restVars, ReapedFds
  <2>2. PICK h \in Conns : h = Head(scan) /\ InList(h)
    BY <1>0, <2>1 DEF ListInv
  <2>3. ASSUME NEW d \in Conns, Running(d), thread[d].pc # "open"
        PROVE  Position(data_fd)' = Position(data_fd)
    <3>1. IsFile(data_fd) /\ data_fd \in Fds
      BY <2>1, <2>3, HandlerAlone DEF Alive
    <3>2. thread[h].fd # data_fd
      <4>1. fds[thread[h].fd] = <<"sock", h>>
        BY <1>0, <2>1, <2>2 DEF OwnInv, ListInv
      <4> QED
        BY <1>0, <3>1, <4>1, KindsDiffer DEF IsFile
    <3>3. fds'[data_fd] = fds[data_fd]
      BY <1>0, <2>1, <2>2, <3>1, <3>2, ClosedIs
    <3> QED
      BY <2>1, <3>3 DEF Position
  <2> QED
    BY <1>k, <2>1, <2>3
<1>11. CASE scan_ends
  <2>1. /\ main # "exited" /\ UNCHANGED <<file, reply, thread, data_fd>>
        /\ active_conns # 0 => fds' = fds
    BY <1>11 DEF scan_ends, restVars, NoConns
  <2>2. ASSUME NEW d \in Conns, Running(d)
        PROVE  Position(data_fd)' = Position(data_fd)
    <3>1. active_conns > 0
      BY <2>1, <2>2, RunningCounted
    <3> QED
      BY <2>1, <3>1 DEF Position
  <2> QED
    BY <1>k, <2>1, <2>2
<1>12. ASSUME NEW c \in Conns, accept(c) PROVE ReplyInv'
  <2>1. /\ main # "exited" /\ UNCHANGED <<file, reply, data_fd>> /\ NewFd # NO_FD
        /\ thread' = [thread EXCEPT ![c].fd = NewFd] /\ fds' = Opened(fds, <<"sock", c>>)
    BY <1>12 DEF accept
  <2>2. \A d \in Conns : /\ thread'[d].pc = thread[d].pc
                        /\ thread'[d].seek_done = thread[d].seek_done /\ thread'[d].line = thread[d].line
    BY <1>0, <2>1 DEF Handlers
  <2>3. ASSUME NEW d \in Conns, Running(d), thread[d].pc # "open"
        PROVE  Position(data_fd)' = Position(data_fd)
    <3>1. IsFile(data_fd) /\ data_fd \in Fds
      BY <2>1, <2>3, HandlerAlone DEF Alive
    <3>2. PICK k \in FdKinds : k = <<"sock", c>>
      BY DEF FdKinds
    <3>3. NewFd \in Fds /\ fds[NewFd] = FREE /\ fds'[data_fd] = IF data_fd = NewFd THEN k ELSE fds[data_fd]
      BY <1>0, <2>1, <3>1, <3>2, OpenedIs DEF NewFd
    <3>4. fds'[data_fd] = fds[data_fd]
      BY <3>1, <3>3, NamesDiffer DEF IsFile
    <3> QED
      BY <2>1, <3>4 DEF Position
  <2> QED
    BY <1>k, <2>1, <2>2, <2>3
<1> QED
  BY <1>1, <1>2, <1>3, <1>4, <1>5, <1>6, <1>7, <1>8, <1>9, <1>10, <1>11, <1>12
  DEF Next, main_thread, Exited

\* With the device and clients that come one at a time, the reply to a packet is
\* the device as it is behind the packet, from its first line or from the entry
\* the packet's last successful AESDCHAR_IOCSEEKTO led to, for any number of
\* clients, any scripts of lines and commands and any cut of them into packets.
\* With fewer descriptors opening the device may fail, and a reply is empty then.
THEOREM RepliesAreFile ==
  ASSUME USE_AESD_CHAR_DEVICE, MaxFds > 9,
         NEW Data, \A plan \in Plans : \A c \in Conns : plan.script[c] \in Seq(Data)
  PROVE  Spec => []ReplyIsFile
<1>0. PICK S : S = Data \cup {NONE}
  OBVIOUS
<1>1. FdInv /\ DataInv(S) /\ ReplyInv => ReplyIsFile
  BY DEF ReplyIsFile, ReplyInv, ReplyRight
<1>2. Init => RoomInv /\ DataInv(S) /\ ReplyInv
  <2> SUFFICES ASSUME Init PROVE RoomInv /\ DataInv(S) /\ ReplyInv
    OBVIOUS
  <2>1. RoomInv
    BY InitialRoom
  <2>2. DataInv(S)
    <3>1. PICK plan \in Plans :
             client = [c \in Conns |-> [state |-> "new", sent |-> 0,
                                         script |-> plan.script[c], patient |-> plan.patient]]
      BY DEF Init
    <3>2. ASSUME NEW c \in Conns
          PROVE  plan.script[c] \in Seq(S) /\ 0 <= Len(plan.script[c]) /\ plan.patient \in BOOLEAN
      <4>1. plan.script[c] \in Seq(Data) /\ plan.patient \in BOOLEAN
        BY PlansAssumption
      <4>2. plan.script[c] \in Seq(S) /\ Len(plan.script[c]) \in Nat
        BY <1>0, <4>1
      <4> QED
        BY <4>1, <4>2
    <3>3. client \in [Conns -> Clients(S)] /\ \A c \in Conns : client[c].sent <= Len(client[c].script)
      BY <3>1, <3>2 DEF Clients
    <3>4. thread \in [Conns -> Handlers(S)] /\ \A c \in Conns : thread[c].pc = "none"
      BY <1>0 DEF Init, Handlers, Labels
    <3>5. reply \in [Conns -> [from : Int, lines : Seq(S)]]
      BY DEF Init
    <3>6. file \in Seq(S) /\ inbox \in [Conns -> Seq(S)] /\ timer = "idle"
      BY DEF Init
    <3> QED
      BY <3>3, <3>4, <3>5, <3>6 DEF DataInv
  <2>3. ReplyInv
    BY DEF Init, ReplyInv, ReplyRight
  <2> QED
    BY <2>1, <2>2, <2>3
<1>3. FdInv /\ WaitsInv /\ RoomInv /\ DataInv(S) /\ ReplyInv /\ [Next]_vars => (RoomInv /\ DataInv(S) /\ ReplyInv)'
  BY RoomKept, DataKept, RepliesKept
<1> QED
  BY <1>1, <1>2, <1>3, WaitsAlways, PTL DEF Spec
=============================================================================
