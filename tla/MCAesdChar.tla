----------------------------- MODULE MCAesdChar -----------------------------
(***************************************************************************)
(* Instances of AesdChar for TLC.                                          *)
(***************************************************************************)
EXTENDS AesdChar, TLC

CONSTANT x   \* a byte other than '\n' and 0

MCBytes == {x, NL, ZERO}

Read(count) == [op |-> "read", data |-> <<>>, count |-> count]
Write(data) == [op |-> "write", data |-> data]
Seek(off, whence) == [op |-> "llseek", off |-> off, whence |-> whence]
Ioctl(cmd, k, off) == [op |-> "ioctl", cmd |-> cmd, write_cmd |-> k, write_cmd_offset |-> off]

\* Writes of a piece of a line and of more than a line.
DataRequests == {Write(<<x>>), Write(<<x, NL, x>>)}

\* A write that completes one line and starts another, a read, and seeks that may fail.
LiveRequests == {Write(<<NL, x>>), Read(1), Seek(1, 0), Ioctl("IOCSEEKTO", 0, 0)}

\* Every handler, with the arguments that lead to each of its early returns.
CallRequests ==
  {Write(<<x>>), Write(<<NL, x>>), Write(<<>>), Write(NULL), Read(2), Read(0),
   Seek(1, 0), Seek(-1, 1), Seek(-1, 2), Seek(0, 3),
   Ioctl("IOCSEEKTO", 0, 0), Ioctl("IOCSEEKTO", 1, 1),
   Ioctl("other_nr", 0, 0), Ioctl("other_magic", 0, 0)}

Symmetry == Permutations(Ptrs) \cup Permutations(Procs)
=============================================================================
