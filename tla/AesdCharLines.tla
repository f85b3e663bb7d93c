--------------------------- MODULE AesdCharLines ---------------------------
(***************************************************************************)
(* AesdChar implements LineDevice.  A write takes effect when it releases  *)
(* the mutex; the history variable snap holds the lines as they were when  *)
(* the mutex was taken while the write loop is still at work on them.      *)
(***************************************************************************)
EXTENDS AesdChar

VARIABLE snap   \* the lines and the unfinished line, as others may see them

Device ==
  IF loaded
    THEN <<Lines, IF line_len > 0 THEN SubSeq(heap[line_buf], 1, line_len) ELSE <<>>>>
    ELSE <<<<>>, <<>>>>

Snap == snap' = IF \E p \in Procs : At(p, "loop")' THEN snap ELSE Device'

LinesInit == Init /\ snap = Device
LinesNext == Next /\ Snap
LinesSpec == LinesInit /\ [][LinesNext]_<<vars, snap>>

\* A seek is no call to the abstract device; a read or write is pending until
\* its handler returns.
AbstractCall(c) ==
  IF c.pc = "idle" \/ c.req.op \notin {"read", "write"} THEN [st |-> "idle"]
  ELSE IF c.pc = "return" THEN [st |-> "done", ret |-> c.ret, got |-> c.got]
  ELSE [st |-> "pending", req |-> c.req, pos |-> c.pos]

LD == INSTANCE LineDevice WITH
        lines   <- snap[1],
        partial <- snap[2],
        calls   <- [p \in Procs |-> AbstractCall(call[p])]

\* Reads and writes of concurrent processes are linearizable: each behaves as if
\* it happened at one moment, the data of a write is never mixed with another's
\* and never seen half written, and when an allocation fails the write has taken
\* nothing or some of its lines as a whole.
Linearizable == LD!Spec
=============================================================================
