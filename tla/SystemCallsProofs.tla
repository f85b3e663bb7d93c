-------------------------- MODULE SystemCallsProofs --------------------------
(* What SystemCalls promises, for every number of threads, descriptors and    *)
(* processes.                                                                 *)
EXTENDS SystemCalls, LeastNumber

(* A thread that has a child: between its fork and its next call.             *)
HasChild(t) == call[t].at \in {"close", "wait"} \/ Returned(t)

(* A thread that has outputfile open.                                         *)
Holds(t) == call[t].at \in {"fork", "close"} /\ call[t].fd # -1

(* Where a call is says what it has: the file is opened first, the child is   *)
(* this thread's own and runs for the function that was called, and a call    *)
(* that has returned has reaped its child and reports how it ended.           *)
CallInv(t) ==
  /\ call[t].at \in {"open", "fork"} => call[t].pid = 0
  /\ call[t].at = "open" => call[t].fd = -1
  /\ call[t].at \in {"open", "close"} => call[t].fn = "do_exec_redirect"
  /\ call[t].at = "fork" /\ call[t].fn # "do_exec_redirect" => call[t].fd = -1
  /\ call[t].at \in {"close", "wait"} =>
       /\ proc[call[t].pid].at # "none"
       /\ proc[call[t].pid].by = t
       /\ proc[call[t].pid].fn = call[t].fn
  /\ Returned(t) =>
       /\ proc[call[t].pid].at = "gone"
       /\ proc[call[t].pid].by = t
       /\ call[t].result => proc[call[t].pid].status = "zero"
       /\ proc[call[t].pid].status = "zero" =>
            call[t].result \/ proc[call[t].pid].fn = "do_system"

CallsInv == \A t \in Threads : CallInv(t)

(* A call that has outputfile open has a descriptor of its own on it: no other*)
(* call has the same one, or closes it.                                       *)
FilesInv ==
  /\ \A t \in Threads : Holds(t) => fds[call[t].fd] = "file"
  /\ \A t, u \in Threads : Holds(t) /\ Holds(u) /\ t # u => call[t].fd # call[u].fd

(* Descriptor 1 of the process is its standard output.  A child starts with   *)
(* the same, and with the file at fd when it is to redirect; the command then *)
(* has one or the other at 1.                                                 *)
ChildTable(p) ==
  /\ proc[p].at = "forked" =>
       /\ proc[p].fds[1] = "stdout"
       /\ Redirects(p) /\ proc[p].fd # -1 => proc[p].fds[proc[p].fd] = "file"
  /\ proc[p].at = "command" =>
       /\ Redirects(p) => proc[p].fds[1] = "file"
       /\ ~Redirects(p) => proc[p].fds[1] = "stdout"

TableInv ==
  /\ fds[1] = "stdout"
  /\ \A p \in Pids : ChildTable(p)

(* Who has written where; a command of the thread that opened the file last   *)
(* has its output in the file once it has exited with 0.                      *)
SinkInv ==
  /\ \A p \in sink["stdout"] : proc[p].at # "none" /\ ~Redirects(p)
  /\ \A p \in sink["file"] : proc[p].at # "none" /\ Redirects(p)
  /\ \A t \in Threads :
       HasChild(t) /\ Redirects(call[t].pid) /\ proc[call[t].pid].status = "zero" /\ opener = t
         => call[t].pid \in sink["file"]

(* The inductive invariant.                                                   *)
IInv == TypeOK /\ CallsInv /\ FilesInv /\ (1 \in Std => TableInv /\ SinkInv)

(* open takes a descriptor that was closed.                                   *)
LEMMA LowestFd ==
  ASSUME FreeFds # {}
  PROVE  Min(FreeFds) \in FreeFds /\ FreeFds \subseteq Fds
BY MinOfSet, BoundsAssumption DEF FreeFds, Fds

(* fork makes a process that did not exist.                                   *)
LEMMA FreshPid ==
  ASSUME UnusedPids # {}
  PROVE  NextPid \in Pids /\ proc[NextPid].at = "none"
BY MinOfSet, BoundsAssumption DEF NextPid, UnusedPids, Pids


(* Records whose fields have their types.                                     *)
LEMMA CallFields ==
  /\ \A fn \in Functions, cmd \in Commands, at \in {"open", "fork"} :
       [at |-> at, fn |-> fn, cmd |-> cmd, fd |-> -1, pid |-> 0, result |-> FALSE] \in CallRecord
  /\ \A c \in CallRecord, at \in {"open", "fork", "close", "wait"} : [c EXCEPT !.at = at] \in CallRecord
  /\ \A c \in CallRecord, fd \in Fds : [c EXCEPT !.fd = fd] \in CallRecord
  /\ \A c \in CallRecord, pid \in Pids : [c EXCEPT !.pid = pid] \in CallRecord
  /\ \A c \in CallRecord, value \in BOOLEAN :
       [NoCall EXCEPT !.pid = c.pid, !.result = value] \in CallRecord
<1>1. \A pid \in Pids : pid \in 0 .. MaxForks
  BY BoundsAssumption DEF Pids
<1>2. \A c \in CallRecord, value \in BOOLEAN :
        [NoCall EXCEPT !.pid = c.pid, !.result = value] \in CallRecord
  BY DEF CallRecord, NoCall
<1>3. \A c \in CallRecord, at \in {"open", "fork", "close", "wait"} : [c EXCEPT !.at = at] \in CallRecord
  BY DEF CallRecord
<1>4. \A c \in CallRecord, fd \in Fds : [c EXCEPT !.fd = fd] \in CallRecord
  BY DEF CallRecord
<1>5. \A c \in CallRecord, pid \in Pids : [c EXCEPT !.pid = pid] \in CallRecord
  BY <1>1 DEF CallRecord
<1>6. \A fn \in Functions, cmd \in Commands, at \in {"open", "fork"} :
       [at |-> at, fn |-> fn, cmd |-> cmd, fd |-> -1, pid |-> 0, result |-> FALSE] \in CallRecord
  BY BoundsAssumption DEF CallRecord
<1> QED
  BY <1>2, <1>3, <1>4, <1>5, <1>6

LEMMA GoneRecord == \A c \in ProcRecord : [c EXCEPT !.at = "gone"] \in ProcRecord
BY DEF ProcRecord

(* Every step keeps the types.                                                *)
LEMMA TypeCorrect ==
  ASSUME TypeOK, [Next]_vars
  PROVE  TypeOK'
<1> USE BoundsAssumption, ThreadsAssumption DEF TypeOK, Fds, Pids, Objects, Sinks
<1>c. ASSUME NEW t \in Threads, call' = [call EXCEPT ![t] = call'[t]], call'[t] \in CallRecord,
             call'[t].at \in {"close", "wait"} => call'[t].pid \in Pids
      PROVE  /\ call' \in [Threads -> CallRecord]
             /\ \A u \in Threads : call'[u].at \in {"close", "wait"} => call'[u].pid \in Pids
  BY <1>c
<1>p. ASSUME NEW p \in Pids, proc' = [proc EXCEPT ![p] = proc'[p]], proc'[p] \in ProcRecord
      PROVE  proc' \in [Pids -> ProcRecord]
  BY <1>p
<1>1. ASSUME NEW t \in Threads, NEW fn \in Functions, NEW cmd \in Commands, Call(t, fn, cmd)
      PROVE  TypeOK'
  <2>1. call' = [call EXCEPT ![t] = call'[t]] /\ call'[t] \in CallRecord
        /\ call'[t].at \in {"open", "fork"}
    <3>1. PICK at \in {"open", "fork"} : call' = [call EXCEPT ![t] =
            [at |-> at, fn |-> fn, cmd |-> cmd, fd |-> -1, pid |-> 0, result |-> FALSE]]
      BY <1>1 DEF Call
    <3> QED
      BY <3>1, CallFields
  <2> QED
    BY <2>1, <1>1, <1>c DEF Call
<1>2. ASSUME NEW t \in Threads, open(t)
      PROVE  TypeOK'
  <2>1. call' = [call EXCEPT ![t] = call'[t]] /\ call'[t] \in CallRecord
        /\ call'[t].at = "fork"
    <3>1. PICK m \in Fds : m = Min(FreeFds)
      BY <1>2, LowestFd DEF open
    <3>2. call' = [call EXCEPT ![t] = [@ EXCEPT !.at = "fork", !.fd = m]]
      BY <1>2, <3>1 DEF open
    <3>3. [call[t] EXCEPT !.at = "fork"] \in CallRecord
      BY CallFields
    <3>4. [call[t] EXCEPT !.at = "fork", !.fd = m] \in CallRecord
      BY <3>3, CallFields
    <3>5. [call[t] EXCEPT !.at = "fork", !.fd = m].at = "fork"
      BY DEF CallRecord
    <3> QED
      BY <3>2, <3>4, <3>5
  <2> QED
    BY <2>1, <1>2, <1>c, LowestFd DEF open
<1>3. ASSUME NEW t \in Threads, open_fails(t)
      PROVE  TypeOK'
  <2>1. call' = [call EXCEPT ![t] = call'[t]] /\ call'[t] \in CallRecord
        /\ call'[t].at = "fork"
    <3>1. call' = [call EXCEPT ![t] = [@ EXCEPT !.at = "fork"]]
      BY <1>3 DEF open_fails, Goes
    <3>2. [call[t] EXCEPT !.at = "fork"] \in CallRecord
      BY CallFields
    <3>3. [call[t] EXCEPT !.at = "fork"].at = "fork"
      BY DEF CallRecord
    <3> QED
      BY <3>1, <3>2, <3>3
  <2> QED
    BY <2>1, <1>3, <1>c DEF open_fails
<1>4. ASSUME NEW t \in Threads, fork(t)
      PROVE  TypeOK'
  <2>1. call' = [call EXCEPT ![t] = call'[t]] /\ call'[t] \in CallRecord
        /\ call'[t].pid \in Pids
    <3>1. PICK at \in {"close", "wait"} : call' = [call EXCEPT ![t] = [@ EXCEPT !.pid = NextPid, !.at = at]]
      BY <1>4 DEF fork, PidInParent
    <3>2. NextPid \in Pids
      BY <1>4, FreshPid DEF fork, Forks
    <3>3. [call[t] EXCEPT !.pid = NextPid] \in CallRecord
      BY <3>2, CallFields
    <3>4. [call[t] EXCEPT !.pid = NextPid, !.at = at] \in CallRecord
      BY <3>3, CallFields
    <3>5. [call[t] EXCEPT !.pid = NextPid, !.at = at].pid = NextPid
      BY DEF CallRecord
    <3> QED
      BY <3>1, <3>2, <3>4, <3>5
  <2>2. proc' = [proc EXCEPT ![NextPid] = proc'[NextPid]] /\ proc'[NextPid] \in ProcRecord
        /\ NextPid \in Pids
    BY <1>4, FreshPid DEF fork, Forks, NoProc, CLOSED, CallRecord, ProcRecord, Statuses
  <2> QED
    BY <2>1, <2>2, <1>4, <1>c, <1>p DEF fork
<1>5. ASSUME NEW t \in Threads, fork_fails(t)
      PROVE  TypeOK'
  <2>1. call' = [call EXCEPT ![t] = call'[t]] /\ call'[t] \in CallRecord
        /\ call'[t].at = "returned"
    BY <1>5 DEF fork_fails, Returns, NoCall, CallRecord
  <2> QED
    BY <2>1, <1>5, <1>c DEF fork_fails
<1>6. ASSUME NEW t \in Threads, close(t)
      PROVE  TypeOK'
  <2>1. call' = [call EXCEPT ![t] = call'[t]] /\ call'[t] \in CallRecord
        /\ call'[t].pid \in Pids
    <3>1. call' = [call EXCEPT ![t] = [@ EXCEPT !.at = "wait"]] /\ call[t].pid \in Pids
      BY <1>6 DEF close, Goes
    <3>2. [call[t] EXCEPT !.at = "wait"] \in CallRecord
      BY CallFields
    <3>3. [call[t] EXCEPT !.at = "wait"].pid = call[t].pid
      BY DEF CallRecord
    <3> QED
      BY <3>1, <3>2, <3>3
  <2> QED
    BY <2>1, <1>6, <1>c DEF close, Closed, CLOSED
<1>r. ASSUME NEW t \in Threads, NEW value \in BOOLEAN, Returns(t, value)
      PROVE  call' = [call EXCEPT ![t] = call'[t]] /\ call'[t] \in CallRecord
             /\ call'[t].at = "returned"
  BY <1>r DEF Returns, NoCall, CallRecord
<1>g. ASSUME NEW p \in Pids, Reaps(p)
      PROVE  proc' \in [Pids -> ProcRecord]
  <2>1. proc' = [proc EXCEPT ![p] = proc'[p]] /\ proc'[p] \in ProcRecord
    <3>1. proc' = [proc EXCEPT ![p] = [@ EXCEPT !.at = "gone"]]
      BY <1>g DEF Reaps
    <3>2. [proc[p] EXCEPT !.at = "gone"] \in ProcRecord
      BY GoneRecord
    <3> QED
      BY <3>1, <3>2
  <2> QED
    BY <2>1, <1>p
<1>7. ASSUME NEW t \in Threads, NEW p \in Pids, wait(t, p)
      PROVE  TypeOK'
  BY <1>7, <1>c, <1>g, <1>r DEF wait, Succeeded
<1>8. ASSUME NEW t \in Threads, system_waitpid(t)
      PROVE  TypeOK'
  BY <1>8, <1>c, <1>g, <1>r DEF system_waitpid, Succeeded
<1>9. ASSUME NEW t \in Threads, system_no_child(t)
      PROVE  TypeOK'
  BY <1>9, <1>c, <1>r DEF system_no_child
<1>10. ASSUME NEW p \in Pids, child_execs(p)
       PROVE  TypeOK'
  <2>1. Redirects(p) => Redirected(proc[p].fds, proc[p].fd) \in [Fds -> Objects]
    <3>1. PICK table \in [Fds -> Objects] : table = proc[p].fds
      BY DEF ProcRecord
    <3>2. PICK fd \in Fds \cup {-1} : fd = proc[p].fd
      BY DEF ProcRecord
    <3>3. Redirects(p) => fd \in Fds
      BY <1>10, <3>2 DEF child_execs
    <3>4. fd \in Fds => [table EXCEPT ![1] = table[fd]] \in [Fds -> Objects]
      OBVIOUS
    <3>5. fd \in Fds => Redirected(table, fd) \in [Fds -> Objects]
      BY <3>4 DEF Redirected, CLOSED
    <3> QED
      BY <3>1, <3>2, <3>3, <3>5
  <2>2. proc' = [proc EXCEPT ![p] = proc'[p]] /\ proc'[p] \in ProcRecord
    <3>1. PICK table \in [Fds -> Objects] :
            proc' = [proc EXCEPT ![p] = [@ EXCEPT !.at = "command", !.fds = table]]
      <4>1. proc[p].fds \in [Fds -> Objects]
        BY DEF ProcRecord
      <4>2. CASE Redirects(p)
        BY <4>1, <4>2, <2>1, <1>10 DEF child_execs
      <4>3. CASE ~Redirects(p)
        BY <4>1, <4>3, <1>10 DEF child_execs
      <4> QED
        BY <4>2, <4>3
    <3>2. \A c \in ProcRecord : [c EXCEPT !.at = "command", !.fds = table] \in ProcRecord
      BY DEF ProcRecord
    <3> QED
      BY <3>1, <3>2
  <2> QED
    BY <2>2, <1>10, <1>p DEF child_execs
<1>e. ASSUME NEW p \in Pids, NEW status \in Statuses, Ends(p, status)
      PROVE  proc' \in [Pids -> ProcRecord]
  BY <1>e, <1>p DEF Ends, NoProc, CLOSED, ProcRecord
<1>11. ASSUME NEW p \in Pids, child_exits(p)
       PROVE  TypeOK'
  BY <1>11, <1>e DEF child_exits, Statuses
<1>12. ASSUME NEW p \in Pids, NEW status \in Statuses, command_ends(p, status)
       PROVE  TypeOK'
  BY <1>12, <1>e DEF command_ends
<1>13. CASE host_fork
  <2>1. proc' = [proc EXCEPT ![NextPid] = proc'[NextPid]] /\ proc'[NextPid] \in ProcRecord
        /\ NextPid \in Pids
    BY <1>13, FreshPid DEF host_fork, Forks, NoProc, CLOSED, ProcRecord, Commands, Statuses
  <2> QED
    BY <2>1, <1>13, <1>p DEF host_fork
<1>14. CASE UNCHANGED vars
  BY <1>14 DEF vars
<1> QED
  BY <1>1, <1>2, <1>3, <1>4, <1>5, <1>6, <1>7, <1>8, <1>9, <1>10, <1>11, <1>12, <1>13, <1>14
  DEF Next, Caller, Child

(* A process that exists stays what it was started as; one that has been      *)
(* reaped does not change any more.                                           *)
Kept ==
  \A p \in Pids : proc[p].at # "none" =>
    /\ proc'[p].at # "none" /\ proc'[p].by = proc[p].by /\ proc'[p].fn = proc[p].fn
    /\ proc[p].at = "gone" => proc'[p] = proc[p]

(* Every step keeps the processes that exist.                                 *)
LEMMA ProcessesKept ==
  ASSUME TypeOK, [Next]_vars
  PROVE  Kept
<1> USE DEF TypeOK, Kept
<1>1. ASSUME NEW by, NEW fn, NEW cmd, NEW fd, Forks(by, fn, cmd, fd)
      PROVE  Kept
  BY <1>1, FreshPid DEF Forks
<1>2. ASSUME NEW p \in Pids, proc[p].at = "ended", Reaps(p)
      PROVE  Kept
  BY <1>2 DEF Reaps, ProcRecord
<1>3. ASSUME NEW p \in Pids, NEW status, proc[p].at \in {"forked", "command"}, Ends(p, status)
      PROVE  Kept
  BY <1>3 DEF Ends, NoProc, ProcRecord
<1>4. ASSUME NEW p \in Pids, child_execs(p)
      PROVE  Kept
  BY <1>4 DEF child_execs, ProcRecord
<1>5. CASE UNCHANGED proc
  BY <1>5
<1>6. ASSUME NEW t \in Threads, Caller(t)
      PROVE  Kept
  BY <1>6, <1>1, <1>2, <1>5
  DEF Caller, open, open_fails, fork, fork_fails, close, wait, system_waitpid, system_no_child
<1>7. ASSUME NEW p \in Pids, Child(p)
      PROVE  Kept
  BY <1>7, <1>3, <1>4 DEF Child, child_exits, command_ends
<1> QED
  BY <1>1, <1>5, <1>6, <1>7 DEF Next, Call, host_fork, vars

(* A step of the process that leaves a thread's call alone keeps what is      *)
(* known of it.                                                               *)
LEMMA OthersKept ==
  ASSUME TypeOK, Kept, NEW t \in Threads, CallInv(t), call'[t] = call[t]
  PROVE  CallInv(t)'
<1>1. call[t].at \in {"close", "wait"} \/ Returned(t) => call[t].pid \in Pids
  BY BoundsAssumption DEF TypeOK, CallRecord, Returned, Pids
<1>2. Returned(t)' = Returned(t)
  BY DEF Returned
<1> QED
  BY <1>1, <1>2 DEF CallInv, Kept

(* Only the thread that takes a step changes its call.                        *)
LEMMA CallsStep ==
  ASSUME TypeOK, CallsInv, Kept, NEW t \in Threads, CallInv(t)',
         \A u \in Threads : u # t => call'[u] = call[u]
  PROVE  CallsInv'
BY OthersKept DEF CallsInv

(* A thread that reaps its own child and returns reports how the child ended. *)
LEMMA ReapsOwn ==
  ASSUME TypeOK, NEW t \in Threads, CallInv(t), call[t].at = "wait",
         Reaps(call[t].pid), Returns(t, Succeeded(proc[call[t].pid].status))
  PROVE  CallInv(t)'
<1> DEFINE p == call[t].pid
<1>1. p \in Pids
  BY DEF TypeOK
<1>2. /\ proc'[p].at = "gone" /\ proc'[p].by = t
      /\ proc'[p].fn = proc[p].fn /\ proc'[p].status = proc[p].status
  BY <1>1 DEF TypeOK, CallInv, Reaps, ProcRecord
<1>3. /\ call'[t].at = "returned" /\ call'[t].pid = p
      /\ call'[t].result = (proc[p].status = "zero")
  BY DEF TypeOK, Returns, NoCall, Succeeded
<1> QED
  BY <1>2, <1>3 DEF CallInv, Returned

(* Every step keeps what is known of the calls.                               *)
LEMMA CallsCorrect ==
  ASSUME TypeOK, CallsInv, [Next]_vars
  PROVE  CallsInv'
<1>0. Kept
  BY ProcessesKept
<1>s. CASE call' = call
  BY <1>0, <1>s, OthersKept DEF CallsInv
<1> USE DEF TypeOK
<1>1. ASSUME NEW t \in Threads, NEW fn \in Functions, NEW cmd \in Commands, Call(t, fn, cmd)
      PROVE  CallsInv'
  <2>1. CallInv(t)'
    BY <1>1 DEF Call, CallInv, Returned
  <2> QED
    BY <1>0, <1>1, <2>1, CallsStep DEF Call
<1>2. ASSUME NEW t \in Threads, open(t)
      PROVE  CallsInv'
  <2>1. CallInv(t)'
    BY <1>2 DEF open, CallsInv, CallInv, Returned, CallRecord
  <2> QED
    BY <1>0, <1>2, <2>1, CallsStep DEF open
<1>3. ASSUME NEW t \in Threads, open_fails(t)
      PROVE  CallsInv'
  <2>1. CallInv(t)'
    BY <1>3 DEF open_fails, Goes, CallsInv, CallInv, Returned, CallRecord
  <2> QED
    BY <1>0, <1>3, <2>1, CallsStep DEF open_fails, Goes
<1>4. ASSUME NEW t \in Threads, fork(t)
      PROVE  CallsInv'
  <2>1. CallInv(t)'
    BY <1>4, FreshPid DEF fork, Forks, PidInParent, CallsInv, CallInv, Returned, CallRecord
  <2> QED
    BY <1>0, <1>4, <2>1, CallsStep DEF fork
<1>5. ASSUME NEW t \in Threads, fork_fails(t)
      PROVE  CallsInv'
  <2>1. CallInv(t)'
    BY <1>5 DEF fork_fails, Returns, NoCall, CallsInv, CallInv, Returned, CallRecord
  <2> QED
    BY <1>0, <1>5, <2>1, CallsStep DEF fork_fails, Returns
<1>6. ASSUME NEW t \in Threads, close(t)
      PROVE  CallsInv'
  <2>1. CallInv(t)'
    BY <1>6 DEF close, Goes, CallsInv, CallInv, Returned, CallRecord
  <2> QED
    BY <1>0, <1>6, <2>1, CallsStep DEF close, Goes
<1>7. ASSUME NEW t \in Threads, NEW p \in Pids, wait(t, p)
      PROVE  CallsInv'
  <2>1. CASE WaitedFor(t, p)
    <3>1. CallInv(t)'
      BY <1>7, <2>1, ReapsOwn DEF wait, WaitedFor, CallsInv
    <3> QED
      BY <1>0, <1>7, <2>1, <3>1, CallsStep DEF wait, Returns
  <2>2. CASE ~WaitedFor(t, p)
    BY <1>7, <1>s, <2>2 DEF wait
  <2> QED
    BY <2>1, <2>2
<1>8. ASSUME NEW t \in Threads, system_waitpid(t)
      PROVE  CallsInv'
  <2>1. CallInv(t)'
    BY <1>8, ReapsOwn DEF system_waitpid, CallsInv
  <2> QED
    BY <1>0, <1>8, <2>1, CallsStep DEF system_waitpid, Returns
<1>9. ASSUME NEW t \in Threads, system_no_child(t)
      PROVE  CallsInv'
  <2>1. CallInv(t)'
    BY <1>9 DEF system_no_child, Returns, NoCall, CallsInv, CallInv, Returned, CallRecord, ProcRecord
  <2> QED
    BY <1>0, <1>9, <2>1, CallsStep DEF system_no_child, Returns
<1>10. ASSUME NEW p \in Pids, Child(p)
       PROVE  CallsInv'
  BY <1>10, <1>s DEF Child, child_execs, child_exits, command_ends
<1> QED
  BY <1>s, <1>1, <1>2, <1>3, <1>4, <1>5, <1>6, <1>7, <1>8, <1>9, <1>10
  DEF Next, Caller, host_fork, vars

(* Every step keeps the ownership of the descriptors: open takes one nobody   *)
(* has, close gives it back; one that a failed fork leaves open is nobody's.  *)
LEMMA FilesCorrect ==
  ASSUME TypeOK, CallsInv, FilesInv, [Next]_vars
  PROVE  FilesInv'
<1> USE DEF TypeOK
<1>s. ASSUME UNCHANGED fds,
             \A u \in Threads : Holds(u)' = Holds(u) /\ (Holds(u) => call'[u].fd = call[u].fd)
      PROVE  FilesInv'
  BY <1>s DEF FilesInv
<1>1. ASSUME NEW t \in Threads, NEW fn \in Functions, NEW cmd \in Commands, Call(t, fn, cmd)
      PROVE  FilesInv'
  <2>1. ~Holds(t) /\ ~Holds(t)'
    BY <1>1 DEF Call, Holds
  <2>2. \A u \in Threads : u # t => call'[u] = call[u]
    BY <1>1 DEF Call
  <2> QED
    BY <2>1, <2>2, <1>1, <1>s DEF Call, Holds
<1>2. ASSUME NEW t \in Threads, open(t)
      PROVE  FilesInv'
  <2> DEFINE f == Min(FreeFds)
  <2>1. f \in Fds /\ fds[f] = CLOSED
    BY <1>2, LowestFd DEF open, FreeFds
  <2>2. ~Holds(t) /\ call'[t].fd = f /\ call'[t].at = "fork"
    BY <1>2 DEF open, Holds, CallRecord
  <2>3. \A u \in Threads : u # t => call'[u] = call[u]
    BY <1>2 DEF open
  <2>4. f # -1
    BY <2>1, BoundsAssumption DEF Fds
  <2>5. fds' = [fds EXCEPT ![f] = "file"]
    BY <1>2 DEF open
  <2>6. \A u \in Threads : Holds(u) => call[u].fd # f
    BY <2>1 DEF FilesInv, CLOSED
  <2> HIDE DEF f
  <2> QED
    BY <2>1, <2>2, <2>3, <2>4, <2>5, <2>6 DEF FilesInv, Holds
<1>3. ASSUME NEW t \in Threads, open_fails(t)
      PROVE  FilesInv'
  <2>1. ~Holds(t) /\ ~Holds(t)'
    BY <1>3 DEF open_fails, Goes, Holds, CallRecord, CallsInv, CallInv
  <2>2. \A u \in Threads : u # t => call'[u] = call[u]
    BY <1>3 DEF open_fails, Goes
  <2> QED
    BY <2>1, <2>2, <1>3, <1>s DEF open_fails, Holds
<1>4. ASSUME NEW t \in Threads, fork(t)
      PROVE  FilesInv'
  <2>1. Holds(t)' = Holds(t) /\ call'[t].fd = call[t].fd
    BY <1>4 DEF fork, Holds, CallRecord, CallsInv, CallInv
  <2>2. \A u \in Threads : u # t => call'[u] = call[u]
    BY <1>4 DEF fork
  <2> QED
    BY <2>1, <2>2, <1>4, <1>s DEF fork, Holds
<1>5. ASSUME NEW t \in Threads, fork_fails(t)
      PROVE  FilesInv'
  <2>1. ~Holds(t)' /\ fds' = fds
    BY <1>5 DEF fork_fails, Returns, NoCall, Holds
  <2>2. \A u \in Threads : u # t => call'[u] = call[u]
    BY <1>5 DEF fork_fails, Returns
  <2> QED
    BY <2>1, <2>2 DEF FilesInv, Holds
<1>6. ASSUME NEW t \in Threads, close(t)
      PROVE  FilesInv'
  <2>1. ~Holds(t)'
    BY <1>6 DEF close, Goes, Holds, CallRecord
  <2>2. \A u \in Threads : u # t => call'[u] = call[u]
    BY <1>6 DEF close, Goes
  <2>3. fds' = [f \in Fds |-> IF f = call[t].fd THEN CLOSED ELSE fds[f]]
    BY <1>6 DEF close, Closed
  <2>4. CASE Holds(t)
    <3>1. \A u \in Threads : Holds(u)' => u # t /\ Holds(u) /\ call'[u].fd = call[u].fd
      BY <2>1, <2>2 DEF Holds
    <3>2. \A u \in Threads : u # t /\ Holds(u) => call[u].fd \in Fds /\ call[u].fd # call[t].fd
      BY <2>4 DEF FilesInv, Holds, CallRecord
    <3>3. \A u \in Threads : Holds(u)' => fds'[call'[u].fd] = "file"
      BY <2>3, <3>1, <3>2 DEF FilesInv
    <3>4. \A u, w \in Threads : Holds(u)' /\ Holds(w)' /\ u # w => call'[u].fd # call'[w].fd
      BY <3>1 DEF FilesInv
    <3> QED
      BY <3>3, <3>4 DEF FilesInv
  <2>5. CASE ~Holds(t)
    <3>1. call[t].fd \notin Fds
      BY <1>6, <2>5, BoundsAssumption DEF close, Holds, Fds
    <3>2. fds' = fds
      BY <2>3, <3>1
    <3> QED
      BY <2>1, <2>2, <2>5, <3>2, <1>s DEF Holds
  <2> QED
    BY <2>4, <2>5
<1>r. ASSUME NEW t \in Threads, NEW value, call[t].at = "wait", Returns(t, value), UNCHANGED fds
      PROVE  FilesInv'
  <2>1. ~Holds(t) /\ ~Holds(t)'
    BY <1>r DEF Returns, NoCall, Holds
  <2>2. \A u \in Threads : u # t => call'[u] = call[u]
    BY <1>r DEF Returns
  <2> QED
    BY <2>1, <2>2, <1>r, <1>s DEF Holds
<1>u. CASE UNCHANGED <<call, fds>>
  BY <1>u, <1>s DEF Holds
<1>7. ASSUME NEW t \in Threads, NEW p \in Pids, wait(t, p)
      PROVE  FilesInv'
  BY <1>7, <1>r, <1>u DEF wait
<1>8. ASSUME NEW t \in Threads, system_waitpid(t)
      PROVE  FilesInv'
  BY <1>8, <1>r DEF system_waitpid
<1>9. ASSUME NEW t \in Threads, system_no_child(t)
      PROVE  FilesInv'
  BY <1>9, <1>r DEF system_no_child
<1>10. ASSUME NEW p \in Pids, Child(p)
       PROVE  FilesInv'
  BY <1>10, <1>u DEF Child, child_execs, child_exits, command_ends
<1> QED
  BY <1>u, <1>1, <1>2, <1>3, <1>4, <1>5, <1>6, <1>7, <1>8, <1>9, <1>10
  DEF Next, Caller, host_fork, vars

(* Every step keeps descriptor 1 where it points: open never takes it and     *)
(* close never closes it, since no call has it.                               *)
LEMMA TableCorrect ==
  ASSUME TypeOK, FilesInv, TableInv, [Next]_vars
  PROVE  TableInv'
<1> USE DEF TypeOK
<1>a. 1 \in Fds
  BY BoundsAssumption DEF Fds
<1>b. \A t \in Threads : Holds(t) => call[t].fd \in Fds /\ fds[call[t].fd] = "file"
  BY DEF FilesInv, Holds, CallRecord
<1>s. ASSUME proc' = proc, fds'[1] = fds[1]
      PROVE  TableInv'
  BY <1>s DEF TableInv, ChildTable, Redirects
<1>p. ASSUME NEW p \in Pids, fds' = fds, proc' = [proc EXCEPT ![p] = proc'[p]], ChildTable(p)'
      PROVE  TableInv'
  <2>1. \A q \in Pids : q # p => proc'[q] = proc[q]
    BY <1>p
  <2>2. \A q \in Pids : q # p => ChildTable(q)'
    BY <2>1 DEF TableInv, ChildTable, Redirects
  <2> QED
    BY <2>2, <1>p DEF TableInv
<1>1. ASSUME NEW t \in Threads, open(t)
      PROVE  TableInv'
  <2>1. Min(FreeFds) # 1
    BY <1>1, LowestFd DEF open, FreeFds, TableInv, CLOSED
  <2> QED
    BY <1>1, <1>a, <1>s, <2>1, LowestFd DEF open
<1>2. ASSUME NEW t \in Threads, fork(t)
      PROVE  TableInv'
  <2>1. PICK p \in Pids :
        /\ proc' = [proc EXCEPT ![p] = proc'[p]]
        /\ proc'[p].at = "forked" /\ proc'[p].fn = call[t].fn
        /\ proc'[p].fd = call[t].fd /\ proc'[p].fds = fds
    BY <1>2, FreshPid DEF fork, Forks
  <2>2. call[t].fd # -1 => fds[call[t].fd] = "file"
    BY <1>2, <1>b DEF fork, Holds
  <2>3. ChildTable(p)'
    BY <2>1, <2>2, <1>2 DEF fork, ChildTable, Redirects, TableInv
  <2> QED
    BY <2>1, <2>3, <1>2, <1>p DEF fork
<1>3. CASE host_fork
  <2>1. PICK p \in Pids :
        /\ proc' = [proc EXCEPT ![p] = proc'[p]]
        /\ proc'[p].at = "forked" /\ proc'[p].fd = -1 /\ proc'[p].fds = fds
    BY <1>3, FreshPid DEF host_fork, Forks
  <2>2. ChildTable(p)'
    BY <2>1, <1>3 DEF host_fork, ChildTable, Redirects, TableInv
  <2> QED
    BY <2>1, <2>2, <1>3, <1>p DEF host_fork
<1>4. ASSUME NEW t \in Threads, close(t)
      PROVE  TableInv'
  <2>1. call[t].fd # 1
    BY <1>4, <1>b DEF close, Holds, TableInv
  <2> QED
    BY <1>4, <1>a, <1>s, <2>1 DEF close, Closed
<1>5. ASSUME NEW p \in Pids, Reaps(p), fds' = fds
      PROVE  TableInv'
  <2>1. proc' = [proc EXCEPT ![p] = proc'[p]] /\ proc'[p].at = "gone"
    BY <1>5 DEF Reaps, ProcRecord
  <2> QED
    BY <1>5, <1>p, <2>1 DEF ChildTable
<1>6. ASSUME NEW p \in Pids, NEW status, Ends(p, status), fds' = fds
      PROVE  TableInv'
  <2>1. proc' = [proc EXCEPT ![p] = proc'[p]] /\ proc'[p].at = "ended"
    BY <1>6 DEF Ends, NoProc
  <2> QED
    BY <1>6, <1>p, <2>1 DEF ChildTable
<1>7. ASSUME NEW p \in Pids, child_execs(p)
      PROVE  TableInv'
  <2>1. /\ proc' = [proc EXCEPT ![p] = proc'[p]]
        /\ proc'[p].at = "command" /\ proc'[p].fn = proc[p].fn
        /\ proc'[p].fds = IF Redirects(p) THEN Redirected(proc[p].fds, proc[p].fd) ELSE proc[p].fds
    BY <1>7 DEF child_execs, ProcRecord
  <2>2. CASE Redirects(p)
    <3>1. proc[p].fds \in [Fds -> Objects] /\ proc[p].fd \in Fds
      BY <1>7, <2>2 DEF child_execs, ProcRecord
    <3>2. proc[p].fds[1] = "stdout" /\ proc[p].fds[proc[p].fd] = "file"
      BY <1>7, <2>2 DEF child_execs, TableInv, ChildTable
    <3>3. Redirected(proc[p].fds, proc[p].fd)[1] = "file"
      BY <1>a, <3>1, <3>2 DEF Redirected
    <3>4. ChildTable(p)'
      BY <2>1, <2>2, <3>3 DEF ChildTable, Redirects
    <3> QED
      BY <1>7, <1>p, <2>1, <3>4 DEF child_execs
  <2>3. CASE ~Redirects(p)
    <3>1. ChildTable(p)'
      BY <1>7, <2>1, <2>3 DEF child_execs, TableInv, ChildTable, Redirects
    <3> QED
      BY <1>7, <1>p, <2>1, <3>1 DEF child_execs
  <2> QED
    BY <2>2, <2>3
<1>8. ASSUME NEW t \in Threads, Caller(t)
      PROVE  TableInv'
  BY <1>8, <1>s, <1>1, <1>2, <1>4, <1>5
  DEF Caller, open_fails, fork_fails, wait, system_waitpid, system_no_child
<1>9. ASSUME NEW p \in Pids, Child(p)
      PROVE  TableInv'
  BY <1>9, <1>6, <1>7 DEF Child, child_exits, command_ends
<1> QED
  BY <1>s, <1>3, <1>8, <1>9 DEF Next, Call, vars

(* What the invariant says of the output is OutputExact.                      *)
LEMMA OutputIs ==
  ASSUME TypeOK, CallsInv, SinkInv
  PROVE  OutputExact
<1>1. \A t \in Threads : Returned(t) /\ call[t].result => proc[call[t].pid].status = "zero"
  BY DEF CallsInv, CallInv
<1> QED
  BY <1>1 DEF SinkInv, OutputExact, HasChild

(* Every step keeps the output where it belongs. Opening the file empties it  *)
(* for every thread but the one that opens it, which has no child yet.        *)
LEMMA SinkCorrect ==
  ASSUME TypeOK, CallsInv, TableInv, SinkInv, [Next]_vars
  PROVE  SinkInv'
<1> USE DEF TypeOK
<1>k. Kept
  BY ProcessesKept
<1>f. \A p \in Pids : proc[p].at # "none" => Redirects(p)' = Redirects(p)
  BY <1>k DEF Kept, Redirects
<1>o. \A t \in Threads : HasChild(t) => call[t].pid \in Pids /\ proc[call[t].pid].by = t
                                          /\ proc[call[t].pid].at # "none"
  BY BoundsAssumption DEF CallsInv, CallInv, HasChild, Returned, CallRecord, Pids
<1>g. \A p \in sink["stdout"] \union sink["file"] :
        /\ p \in Pids /\ proc[p].at # "none"
        /\ proc'[p].at # "none" /\ Redirects(p)' = Redirects(p)
  <2>1. \A p \in sink["stdout"] \union sink["file"] : p \in Pids /\ proc[p].at # "none"
    BY DEF SinkInv, Sinks
  <2> QED
    BY <2>1, <1>k, <1>f DEF Kept
<1> DEFINE Same(t) == HasChild(t) /\ call'[t].pid = call[t].pid
           NoNewSuccess == \A p \in Pids : proc[p].at # "none" /\ proc'[p].status = "zero"
                                             => proc[p].status = "zero"
<1>s. ASSUME UNCHANGED <<sink, opener>>, NoNewSuccess,
             \A t \in Threads : HasChild(t)' => Same(t) \/ proc'[call'[t].pid].status # "zero"
      PROVE  SinkInv'
  BY <1>s, <1>o, <1>f, <1>g DEF SinkInv
<1>p. ASSUME UNCHANGED proc
      PROVE  NoNewSuccess
  BY <1>p
<1>g2. ASSUME NEW p \in Pids, Reaps(p)
      PROVE  NoNewSuccess
  BY <1>g2 DEF Reaps, ProcRecord
<1>n. ASSUME NEW by, NEW fn, NEW cmd, NEW fd, Forks(by, fn, cmd, fd)
      PROVE  NoNewSuccess /\ NextPid \in Pids /\ proc'[NextPid].status = "nonzero"
  BY <1>n, FreshPid DEF Forks
<1>t. ASSUME NEW t \in Threads, \A u \in Threads : u # t => call'[u] = call[u]
      PROVE  \A u \in Threads : u # t /\ HasChild(u)' => Same(u)
  BY <1>t DEF HasChild, Returned
<1>1. ASSUME NEW t \in Threads, NEW fn \in Functions, NEW cmd \in Commands, Call(t, fn, cmd)
      PROVE  SinkInv'
  <2>1. ~HasChild(t)' /\ \A u \in Threads : u # t => call'[u] = call[u]
    BY <1>1 DEF Call, HasChild, Returned
  <2> QED
    BY <1>1, <1>s, <1>t, <1>p, <2>1 DEF Call
<1>2. ASSUME NEW t \in Threads, open(t)
      PROVE  SinkInv'
  <2>1. ~HasChild(t)' /\ opener' = t
    BY <1>2 DEF open, HasChild, Returned, CallRecord
  <2>2. sink'["file"] = {} /\ sink'["stdout"] = sink["stdout"]
    BY <1>2 DEF open, Sinks
  <2> QED
    BY <1>g, <2>1, <2>2 DEF SinkInv
<1>3. ASSUME NEW t \in Threads, open_fails(t)
      PROVE  SinkInv'
  <2>1. ~HasChild(t)' /\ \A u \in Threads : u # t => call'[u] = call[u]
    BY <1>3 DEF open_fails, Goes, HasChild, Returned, CallRecord
  <2> QED
    BY <1>3, <1>s, <1>t, <1>p, <2>1 DEF open_fails
<1>4. ASSUME NEW t \in Threads, fork(t)
      PROVE  SinkInv'
  <2>1. call'[t].pid = NextPid /\ \A u \in Threads : u # t => call'[u] = call[u]
    BY <1>4 DEF fork, PidInParent, CallRecord
  <2>2. NoNewSuccess /\ proc'[NextPid].status = "nonzero"
    BY <1>4, <1>n DEF fork
  <2> QED
    BY <1>4, <1>s, <1>t, <2>1, <2>2 DEF fork
<1>5. ASSUME NEW t \in Threads, fork_fails(t)
      PROVE  SinkInv'
  <2>1. ~HasChild(t)' /\ \A u \in Threads : u # t => call'[u] = call[u]
    BY <1>5 DEF fork_fails, Returns, NoCall, HasChild, Returned, CallRecord, CallsInv, CallInv
  <2> QED
    BY <1>5, <1>s, <1>t, <1>p, <2>1 DEF fork_fails
<1>6. ASSUME NEW t \in Threads, close(t)
      PROVE  SinkInv'
  <2>1. Same(t) /\ \A u \in Threads : u # t => call'[u] = call[u]
    BY <1>6 DEF close, Goes, HasChild, CallRecord
  <2> QED
    BY <1>6, <1>s, <1>t, <1>p, <2>1 DEF close
<1>r. ASSUME NEW t \in Threads, NEW value, call[t].at = "wait", Returns(t, value),
             UNCHANGED <<sink, opener>>, NoNewSuccess
      PROVE  SinkInv'
  <2>1. Same(t) /\ \A u \in Threads : u # t => call'[u] = call[u]
    BY <1>r DEF Returns, NoCall, HasChild, CallRecord
  <2> QED
    BY <1>r, <1>s, <1>t, <2>1
<1>u. ASSUME UNCHANGED <<call, sink, opener>>, NoNewSuccess
      PROVE  SinkInv'
  <2>1. \A u \in Threads : HasChild(u)' => Same(u)
    BY <1>u DEF HasChild, Returned
  <2> QED
    BY <1>u, <1>s, <2>1
<1>7. ASSUME NEW t \in Threads, NEW p \in Pids, wait(t, p)
      PROVE  SinkInv'
  <2>1. NoNewSuccess
    BY <1>7, <1>g2 DEF wait
  <2> QED
    BY <1>7, <1>r, <1>u, <2>1 DEF wait
<1>8. ASSUME NEW t \in Threads, system_waitpid(t)
      PROVE  SinkInv'
  <2>1. NoNewSuccess
    BY <1>8, <1>g2 DEF system_waitpid
  <2> QED
    BY <1>8, <1>r, <2>1 DEF system_waitpid
<1>9. ASSUME NEW t \in Threads, system_no_child(t)
      PROVE  SinkInv'
  BY <1>9, <1>r, <1>p DEF system_no_child
<1>10. ASSUME NEW p \in Pids, child_execs(p)
       PROVE  SinkInv'
  <2>1. NoNewSuccess
    BY <1>10 DEF child_execs, ProcRecord
  <2> QED
    BY <1>10, <1>u, <2>1 DEF child_execs
<1>11. ASSUME NEW p \in Pids, child_exits(p)
       PROVE  SinkInv'
  <2>1. NoNewSuccess
    BY <1>11 DEF child_exits, Ends, NoProc, ProcRecord
  <2> QED
    BY <1>11, <1>u, <2>1 DEF child_exits
<1>12. ASSUME NEW p \in Pids, NEW status \in Statuses, command_ends(p, status)
       PROVE  SinkInv'
  <2>1. proc[p].at = "command" /\ call' = call /\ opener' = opener
    BY <1>12 DEF command_ends
  <2>2. /\ Redirects(p) => sink'["file"] = sink["file"] \union {p} /\ sink'["stdout"] = sink["stdout"]
        /\ ~Redirects(p) => sink'["stdout"] = sink["stdout"] \union {p} /\ sink'["file"] = sink["file"]
    BY <1>12, <2>1 DEF command_ends, TableInv, ChildTable, Sinks
  <2>3. \A q \in Pids : q # p => proc'[q] = proc[q]
    BY <1>12 DEF command_ends, Ends
  <2>4. proc'[p].at # "none" /\ Redirects(p)' = Redirects(p)
    BY <2>1, <1>k, <1>f DEF Kept
  <2>5. \A q \in sink'["stdout"] : proc'[q].at # "none" /\ ~Redirects(q)'
    BY <2>2, <2>4, <1>g DEF SinkInv
  <2>6. \A q \in sink'["file"] : proc'[q].at # "none" /\ Redirects(q)'
    BY <2>2, <2>4, <1>g DEF SinkInv
  <2>7. ASSUME NEW t \in Threads, HasChild(t)', Redirects(call[t].pid)', opener' = t,
               proc'[call'[t].pid].status = "zero"
        PROVE  call'[t].pid \in sink'["file"]
    <3>1. HasChild(t) /\ call'[t].pid = call[t].pid
      BY <2>1, <2>7 DEF HasChild, Returned
    <3>2. CASE call[t].pid = p
      BY <2>1, <2>2, <2>4, <2>7, <3>1, <3>2
    <3>3. CASE call[t].pid # p
      <4>1. Redirects(call[t].pid) /\ proc[call[t].pid].status = "zero" /\ opener = t
        BY <1>o, <1>f, <2>1, <2>3, <2>7, <3>1, <3>3
      <4> QED
        BY <2>2, <3>1, <4>1 DEF SinkInv
    <3> QED
      BY <3>2, <3>3
  <2> QED
    BY <2>5, <2>6, <2>7 DEF SinkInv
<1>13. CASE host_fork
  BY <1>13, <1>n, <1>u DEF host_fork
<1>14. CASE UNCHANGED vars
  BY <1>14, <1>u, <1>p DEF vars
<1> QED
  BY <1>1, <1>2, <1>3, <1>4, <1>5, <1>6, <1>7, <1>8, <1>9, <1>10, <1>11, <1>12, <1>13, <1>14
  DEF Next, Caller, Child

(* The invariant holds before the first call.                                 *)
LEMMA InvariantInitially ==
  ASSUME Init
  PROVE  IInv
<1> USE BoundsAssumption, StdAssumption DEF Init
<1>1. NoCall \in CallRecord /\ NoProc \in ProcRecord
  BY DEF NoCall, NoProc, CallRecord, ProcRecord, Statuses, Objects, CLOSED
<1>2. TypeOK
  BY <1>1 DEF TypeOK, Objects, Sinks, CLOSED, NoCall
<1>3. CallsInv
  BY DEF CallsInv, CallInv, Returned, NoCall
<1>4. FilesInv
  BY DEF FilesInv, Holds, NoCall, CLOSED
<1>5. 1 \in Std => TableInv /\ SinkInv
  BY DEF TableInv, ChildTable, SinkInv, HasChild, Returned, NoCall, NoProc, Fds, Sinks
<1> QED
  BY <1>2, <1>3, <1>4, <1>5 DEF IInv

(* It is inductive.                                                           *)
LEMMA InvariantKept ==
  ASSUME IInv, [Next]_vars
  PROVE  IInv'
BY TypeCorrect, CallsCorrect, FilesCorrect, TableCorrect, SinkCorrect DEF IInv

(* It holds always.                                                           *)
LEMMA InvariantHolds == Spec => []IInv
BY InvariantInitially, InvariantKept, PTL DEF Spec

(* The variables of the process and its children always have their types.     *)
THEOREM TypeHolds == Spec => []TypeOK
<1>1. IInv => TypeOK
  BY DEF IInv
<1> QED
  BY <1>1, InvariantHolds, PTL

(* However many threads call do_system, do_exec and do_exec_redirect and      *)
(* whatever other children there are, a call that returns reports its own     *)
(* child: the loop around wait() (systemcalls.c, 73 and 128) makes it so,     *)
(* although wait() itself hands out anybody's child.                          *)
THEOREM ResultsExact == Spec => []ResultExact
<1>1. IInv => ResultExact
  BY DEF IInv, CallsInv, CallInv, ResultExact
<1> QED
  BY <1>1, InvariantHolds, PTL

(* A call that has forked does not return before its child was reaped.        *)
THEOREM ChildrenReaped == Spec => []ChildReaped
<1>1. IInv => ChildReaped
  BY DEF IInv, CallsInv, CallInv, ChildReaped
<1> QED
  BY <1>1, InvariantHolds, PTL

(* With a standard output at descriptor 1, what commands write goes where     *)
(* their callers asked (systemcalls.c, 111-126).                              *)
THEOREM OutputsExact == Spec => []OutputExact
<1>1. IInv => OutputExact
  BY OutputIs DEF IInv, OutputExact
<1> QED
  BY <1>1, InvariantHolds, PTL
=============================================================================
