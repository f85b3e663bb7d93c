----------------------------- MODULE LineDevice -----------------------------
(***************************************************************************)
(* What the character device promises its users.  It holds the MAX most    *)
(* recent lines and the beginning of the next one.  A read or a write      *)
(* takes effect at one moment between its call and its return:             *)
(*   - a write appends its data, which is cut into lines, or fails and     *)
(*     takes nothing or some of its lines as a whole;                      *)
(*   - a read copies bytes that follow each other in the lines as they are *)
(*     at that moment, at least one unless its position is at their end.   *)
(***************************************************************************)
EXTENDS Integers, SequencesExt

CONSTANTS MAX, NL, Procs

VARIABLES
  lines,    \* the complete lines, oldest first
  partial,  \* the bytes of the unfinished line
  calls     \* each process's call: idle, pending with its request, or done

vars == <<lines, partial, calls>>

Init == lines = <<>> /\ partial = <<>> /\ calls = [p \in Procs |-> [st |-> "idle"]]

\* One byte, and then a sequence of bytes, taken by a device <<lines, partial>>.
TakeByte(device, byte) ==
  LET line == Append(device[2], byte)
      kept == IF Len(device[1]) = MAX THEN Tail(device[1]) ELSE device[1]
  IN  IF byte = NL THEN <<Append(kept, line), <<>>>> ELSE <<device[1], line>>

Take(device, bytes) ==
  LET taken[i \in 0 .. Len(bytes)] ==
        IF i = 0 THEN device ELSE TakeByte(taken[i-1], bytes[i])
  IN  taken[Len(bytes)]

\* Only p's call moves, from one state to another.
Moves(p, from, to) ==
  /\ calls[p].st = from
  /\ calls'[p].st = to
  /\ \A q \in Procs \ {p} : calls'[q] = calls[q]

Invoke(p) == Moves(p, "idle", "pending") /\ UNCHANGED <<lines, partial>>

\* A call with bad arguments or nothing to do.
Reject(p) ==
  /\ Moves(p, "idle", "done")
  /\ calls'[p].ret <= 0 /\ calls'[p].got = <<>>
  /\ UNCHANGED <<lines, partial>>

Read(p) ==
  /\ calls[p].st = "pending" /\ calls[p].req.op = "read"
  /\ Moves(p, "pending", "done")
  /\ LET all == FlattenSeq(lines)
         pos == calls[p].pos
         ret == calls'[p].ret
         got == calls'[p].got
     IN  \/ ret < 0 /\ got = <<>>
         \/ /\ ret \in 0 .. calls[p].req.count
            /\ ret = 0 <=> pos >= Len(all)
            /\ got = SubSeq(all, pos + 1, pos + ret)
  /\ UNCHANGED <<lines, partial>>

Write(p) ==
  /\ calls[p].st = "pending" /\ calls[p].req.op = "write"
  /\ Moves(p, "pending", "done")
  /\ calls'[p].got = <<>>
  /\ LET data == calls[p].req.data
         ret  == calls'[p].ret
     IN  \E n \in 0 .. Len(data) :
           /\ <<lines', partial'>> = Take(<<lines, partial>>, SubSeq(data, 1, n))
           /\ \/ ret = n /\ n = Len(data)
              \/ ret < 0 /\ n < Len(data) /\ (n = 0 \/ data[n] = NL)

Finish(p) == Moves(p, "done", "idle") /\ UNCHANGED <<lines, partial>>

\* The device goes away and comes back empty.
Reset ==
  /\ \A p \in Procs : calls[p].st = "idle"
  /\ lines' = <<>> /\ partial' = <<>>
  /\ UNCHANGED calls

Next == Reset \/ \E p \in Procs : Invoke(p) \/ Reject(p) \/ Read(p) \/ Write(p) \/ Finish(p)

Spec == Init /\ [][Next]_vars
=============================================================================
