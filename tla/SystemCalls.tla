----------------------------- MODULE SystemCalls -----------------------------
(* examples/systemcalls/systemcalls.c: threads of one process that run        *)
(* commands with do_system, do_exec and do_exec_redirect.  The process may    *)
(* have other children; wait() returns any of them, whichever thread asks.    *)
EXTENDS Integers, FiniteSets, FiniteSetsExt

CONSTANTS
  Threads,      \* the callers
  HOST,         \* whoever else starts children in this process
  Std,          \* which of the descriptors 0, 1, 2 the process was started with
  MaxFds,       \* descriptors of a process
  MaxForks      \* bound: processes created

ASSUME ThreadsAssumption == HOST \notin Threads
ASSUME StdAssumption == Std \subseteq 0..2
ASSUME BoundsAssumption == MaxFds \in Nat /\ MaxFds > 2 /\ MaxForks \in Nat

VARIABLES
  call,      \* per thread, the call it is in or has returned from
  fds,       \* the descriptor table of the process
  proc,      \* the children, by pid
  sink,      \* what has been written to standard output and to outputfile
  opener     \* the thread that opened (and truncated) outputfile last

vars == <<call, fds, proc, sink, opener>>

Fds == 0..(MaxFds - 1)
CLOSED == "closed"
Sinks == {"stdout", "file"}
Objects == Sinks \union {"std", CLOSED}

Functions == {"do_system", "do_exec", "do_exec_redirect"}

(* command[0] names a file that can be executed, or not.                      *)
Commands == {"program", "missing"}

(* What wait() stores in status, as WIFEXITED and WEXITSTATUS see it: the     *)
(* child exited with 0 or with something else, or a signal ended it.          *)
Statuses == {"zero", "nonzero", "signal"}

(* Pids are handed out in order and not again within the bound.               *)
Pids == 1..MaxForks
UnusedPids == {p \in Pids : proc[p].at = "none"}
NextPid == Min(UnusedPids)

(* No call under way and no child: what is left of either once it has ended   *)
(* is its outcome.                                                            *)
NoCall == [at |-> "returned", fn |-> "none", cmd |-> "none", fd |-> -1, pid |-> 0,
           result |-> FALSE]
NoProc == [at |-> "none", by |-> HOST, fn |-> "none", cmd |-> "none", fd |-> -1,
           fds |-> [f \in Fds |-> CLOSED], status |-> "nonzero"]

Init ==
  /\ call = [t \in Threads |-> NoCall]
  /\ fds = [f \in Fds |-> IF f \notin Std THEN CLOSED
                          ELSE IF f = 1 THEN "stdout" ELSE "std"]
  /\ proc = [p \in Pids |-> NoProc]
  /\ sink = [s \in Sinks |-> {}]
  /\ opener = HOST

-----------------------------------------------------------------------------
(* The callers.                                                               *)

Goes(t, to) == call' = [call EXCEPT ![t].at = to]

Returns(t, value) ==
  call' = [call EXCEPT ![t] = [NoCall EXCEPT !.pid = call[t].pid, !.result = value]]

(* Entering one of the functions: the arguments are copied to command[].      *)
Call(t, fn, cmd) ==
  /\ call[t].at = "returned"
  /\ call' = [call EXCEPT ![t] =
       [at |-> IF fn = "do_exec_redirect" THEN "open" ELSE "fork",
        fn |-> fn, cmd |-> cmd, fd |-> -1, pid |-> 0, result |-> FALSE]]
  /\ UNCHANGED <<fds, proc, sink, opener>>

FreeFds == {f \in Fds : fds[f] = CLOSED}

(* open(outputfile) with O_TRUNC and O_CREAT.                                 *)
open(t) ==
  /\ call[t].at = "open"
  /\ FreeFds # {}
  /\ call' = [call EXCEPT ![t] = [@ EXCEPT !.at = "fork", !.fd = Min(FreeFds)]]
  /\ fds' = [fds EXCEPT ![Min(FreeFds)] = "file"]
  /\ sink' = [sink EXCEPT !["file"] = {}]
  /\ opener' = t
  /\ UNCHANGED proc

(* The file cannot be opened: fd is -1, and fork is called all the same.      *)
open_fails(t) ==
  /\ call[t].at = "open"
  /\ Goes(t, "fork")
  /\ UNCHANGED <<fds, proc, sink, opener>>

Forks(by, fn, cmd, fd) ==
  /\ UnusedPids # {}
  /\ proc' = [proc EXCEPT ![NextPid] =
       [at |-> "forked", by |-> by, fn |-> fn, cmd |-> cmd, fd |-> fd, fds |-> fds,
        status |-> "nonzero"]]

(* Mutation: the parent keeps what fork returns in the child.                 *)
PidInChild == 0

(* What fork returns in the parent.                                           *)
PidInParent == NextPid

fork(t) ==
  /\ call[t].at = "fork"
  /\ Forks(t, call[t].fn, call[t].cmd, call[t].fd)
  /\ call' = [call EXCEPT ![t] = [@ EXCEPT !.pid = PidInParent,
        !.at = IF call[t].fn = "do_exec_redirect" THEN "close" ELSE "wait"]]
  /\ UNCHANGED <<fds, sink, opener>>

(* fork fails: the functions return false at once, do_exec_redirect without   *)
(* a close(fd).                                                               *)
fork_fails(t) ==
  /\ call[t].at = "fork"
  /\ Returns(t, FALSE)
  /\ UNCHANGED <<fds, proc, sink, opener>>

Closed(fd) == [f \in Fds |-> IF f = fd THEN CLOSED ELSE fds[f]]

(* close(fd) in the parent; close(-1) changes nothing.                        *)
close(t) ==
  /\ call[t].at = "close"
  /\ Goes(t, "wait")
  /\ fds' = Closed(call[t].fd)
  /\ UNCHANGED <<proc, sink, opener>>

Reaps(p) == proc' = [proc EXCEPT ![p].at = "gone"]

(* Mutation: wait() is called once.                                           *)
WaitedForAny(t, p) == TRUE

(* The condition of the loop around wait().                                   *)
WaitedFor(t, p) == call[t].pid = p

(* Mutation: only the exit status is looked at.                               *)
SucceededUnlessExit(status) == status # "nonzero"

(* WIFEXITED(status) && !WEXITSTATUS(status)                                  *)
Succeeded(status) == status = "zero"

(* wait(&status) returns some child that has ended.  When the process has no  *)
(* child left, wait() returns -1 at once and the loop goes on: a step that    *)
(* changes nothing.                                                           *)
wait(t, p) ==
  /\ call[t].at = "wait"
  /\ call[t].fn # "do_system"
  /\ proc[p].at = "ended"
  /\ Reaps(p)
  /\ IF WaitedFor(t, p) THEN Returns(t, Succeeded(proc[p].status)) ELSE UNCHANGED call
  /\ UNCHANGED <<fds, sink, opener>>

(* system() waits for its own child with waitpid; do_system negates what it   *)
(* returns.                                                                   *)
system_waitpid(t) ==
  /\ call[t].at = "wait"
  /\ call[t].fn = "do_system"
  /\ proc[call[t].pid].at = "ended"
  /\ Reaps(call[t].pid)
  /\ Returns(t, Succeeded(proc[call[t].pid].status))
  /\ UNCHANGED <<fds, sink, opener>>

(* Another thread's wait() was first: waitpid fails, system() returns -1.     *)
system_no_child(t) ==
  /\ call[t].at = "wait"
  /\ call[t].fn = "do_system"
  /\ proc[call[t].pid].at = "gone"
  /\ Returns(t, FALSE)
  /\ UNCHANGED <<fds, proc, sink, opener>>

-----------------------------------------------------------------------------
(* The children.  A child has one thread and memory of its own, so what it    *)
(* does up to execv is one step.                                              *)

Ends(p, status) == proc' = [proc EXCEPT ![p] =
  [NoProc EXCEPT !.at = "ended", !.by = proc[p].by, !.fn = proc[p].fn, !.status = status]]

Redirects(p) == proc[p].fn = "do_exec_redirect"

(* Mutation: dup2 with its arguments swapped.                                 *)
RedirectedSwapped(table, fd) == [table EXCEPT ![fd] = table[1]]

(* dup2(fd, 1); close(fd)                                                     *)
Redirected(table, fd) == [[table EXCEPT ![1] = table[fd]] EXCEPT ![fd] = CLOSED]

(* execv succeeds; system()'s child is a shell, which always starts.          *)
child_execs(p) ==
  /\ proc[p].at = "forked"
  /\ Redirects(p) => proc[p].fd # -1
  /\ proc[p].fn # "do_system" => proc[p].cmd # "missing"
  /\ proc' = [proc EXCEPT ![p] = [@ EXCEPT !.at = "command",
        !.fds = IF Redirects(p) THEN Redirected(proc[p].fds, proc[p].fd) ELSE proc[p].fds]]
  /\ UNCHANGED <<call, fds, sink, opener>>

(* Mutation: nothing follows execv in the child.                              *)
child_exits_never(p) == FALSE /\ UNCHANGED vars

(* dup2 on a descriptor that was never opened, or execv, fails: exit(-1).     *)
child_exits(p) ==
  /\ proc[p].at = "forked"
  /\ proc[p].fn # "do_system"
  /\ (Redirects(p) /\ proc[p].fd = -1) \/ proc[p].cmd = "missing"
  /\ Ends(p, "nonzero")
  /\ UNCHANGED <<call, fds, sink, opener>>

(* The command writes to its descriptor 1 and ends in its own way; system()'s *)
(* shell exits with 127 when there is no such command.                        *)
command_ends(p, status) ==
  /\ proc[p].at = "command"
  /\ proc[p].cmd = "missing" => status = "nonzero"
  /\ Ends(p, status)
  /\ sink' = [s \in Sinks |-> IF proc[p].fds[1] = s THEN sink[s] \union {p} ELSE sink[s]]
  /\ UNCHANGED <<call, fds, opener>>

(* Another part of the process starts a child of its own.                     *)
host_fork ==
  /\ Forks(HOST, "none", "program", -1)
  /\ UNCHANGED <<call, fds, sink, opener>>

-----------------------------------------------------------------------------
(* The bodies of the functions from their first call to their return.         *)
Caller(t) ==
  \/ open(t) \/ open_fails(t) \/ fork(t) \/ fork_fails(t) \/ close(t)
  \/ \E p \in Pids : wait(t, p)
  \/ system_waitpid(t) \/ system_no_child(t)

Child(p) == child_execs(p) \/ child_exits(p) \/ \E status \in Statuses : command_ends(p, status)

Next ==
  \/ \E t \in Threads, fn \in Functions, cmd \in Commands : Call(t, fn, cmd)
  \/ \E t \in Threads : Caller(t)
  \/ \E p \in Pids : Child(p)
  \/ host_fork

Spec == Init /\ [][Next]_vars

(* Every thread and every process keeps running; commands end.                *)
Fairness ==
  /\ \A t \in Threads : WF_vars(Caller(t))
  /\ \A p \in Pids : WF_vars(Child(p))

FairSpec == Spec /\ Fairness

-----------------------------------------------------------------------------
CallRecord == [at : {"returned", "open", "fork", "close", "wait"},
  fn : Functions \union {"none"}, cmd : Commands \union {"none"},
  fd : Fds \union {-1}, pid : 0..MaxForks, result : BOOLEAN]

ProcRecord == [at : {"none", "forked", "command", "ended", "gone"},
  by : Threads \union {HOST}, fn : Functions \union {"none"},
  cmd : Commands \union {"none"}, fd : Fds \union {-1}, fds : [Fds -> Objects],
  status : Statuses]

(* The variables have their types, and a call that waits has a child.         *)
TypeOK ==
  /\ call \in [Threads -> CallRecord]
  /\ fds \in [Fds -> Objects]
  /\ proc \in [Pids -> ProcRecord]
  /\ sink \in [Sinks -> SUBSET Pids]
  /\ opener \in Threads \union {HOST}
  /\ \A t \in Threads : call[t].at \in {"close", "wait"} => call[t].pid \in Pids

Returned(t) == call[t].at = "returned" /\ call[t].pid # 0

(* do_exec and do_exec_redirect return true exactly when their own command    *)
(* was started and exited with 0, whatever other children ended meanwhile and *)
(* whoever waited for them; do_system may miss a success, never report one    *)
(* there was not (systemcalls.c, 20, 73-82 and 128-138).                      *)
ResultExact == \A t \in Threads : Returned(t) =>
  LET own == proc[call[t].pid] IN
  /\ own.by = t
  /\ call[t].result => own.status = "zero"
  /\ own.status = "zero" => call[t].result \/ own.fn = "do_system"

(* No call leaves its child behind, running or as a zombie, when it returns   *)
(* (systemcalls.c, 73 and 128).                                               *)
ChildReaped == \A t \in Threads : Returned(t) => proc[call[t].pid].at = "gone"

(* Output goes where it was asked for: nothing of a redirected command to the *)
(* standard output, nothing of another one to the file, and after a           *)
(* successful call the file holds the command's output unless the file was    *)
(* opened again (systemcalls.c, 111-126).                                     *)
OutputExact == 1 \in Std =>
  /\ \A p \in sink["stdout"] : ~Redirects(p)
  /\ \A p \in sink["file"] : Redirects(p)
  /\ \A t \in Threads :
       Returned(t) /\ Redirects(call[t].pid) /\ call[t].result /\ opener = t
         => call[t].pid \in sink["file"]

(* Another thread's wait() has returned the child this thread waits for.      *)
Robbed(t) == call[t].at = "wait" /\ call[t].fn # "do_system" /\ proc[call[t].pid].at = "gone"

(* Every call returns, also when the file cannot be opened or the command not *)
(* started, unless another thread has waited for its child: then the loop     *)
(* around wait() never ends (systemcalls.c, 73 and 128).                      *)
CallsReturn == \A t \in Threads : (call[t].at # "returned") ~> (call[t].at = "returned" \/ Robbed(t))
=============================================================================
