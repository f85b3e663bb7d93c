----------------------------- MODULE RecvLines -----------------------------
(***************************************************************************)
(* The receive path of handle_connection in server/aesdsocket.c: one       *)
(* thread collects the chunks that recv returns in a Vector, writes every  *)
(* complete line to the data file, and carries an incomplete one over.  In *)
(* the build with the device a line may be a seek command instead.  The    *)
(* lock, the reply and the effect of the command are in AesdSocket.        *)
(***************************************************************************)
EXTENDS Vector

CONSTANTS
  Chunks,       \* what one recv may return
  NEWLINE,      \* the byte that ends a line
  NAME, NUMBER, \* the bytes a command consists of
  Builds,       \* the builds: TRUE for the device, FALSE for a plain file
  MallocFails,  \* whether malloc may return NULL
  CopyOrders,   \* the orders in which memcpy may copy: "forward", "backward"
  MaxStream     \* bound: bytes received on the connection

ASSUME ChunksAssumption == \A chunk \in Chunks : chunk \in Seq(Bytes) /\ chunk # <<>>
ASSUME CharactersAssumption ==
  /\ {NEWLINE, NAME, NUMBER} \subseteq Bytes \ {ZERO}
  /\ NEWLINE # NAME /\ NEWLINE # NUMBER /\ NAME # NUMBER
ASSUME BuildsAssumption == Builds \subseteq BOOLEAN

VARIABLES
  device,    \* USE_AESD_CHAR_DEVICE, which never changes
  pc,        \* where the thread is
  recv_vec,  \* recv_vec
  recv_buf,  \* the chunk recv has stored in recv_buf
  received,  \* received: the length of the last chunk, 0 before the first
  written,   \* written: the bytes of recv_vec that have been used
  temp_char, \* temp_char: the byte the terminator has replaced
  stream,    \* ghost: all bytes appended to recv_vec on this connection
  taken,     \* the bytes written to the data file or executed as a command
  commands,  \* the parts <<first, last>> of taken that were commands
  overrun    \* ghost: whether a byte behind the buffer has been written to

scanVars == <<temp_char, commands, overrun>>
vars == <<device, pc, recv_vec, recv_buf, received, written, stream, taken, scanVars>>

Init ==
  /\ device \in Builds
  /\ pc = "init"
  /\ recv_vec = ClosedVector
  /\ recv_buf = <<>> /\ received = 0 /\ written = 0
  /\ temp_char = ZERO
  /\ stream = <<>> /\ taken = <<>> /\ commands = {} /\ overrun = FALSE

vector_init ==
  /\ pc = "init"
  /\ \/ recv_vec' = InitVector /\ pc' = "packet"
     \/ MallocFails /\ recv_vec' = InitFailed(recv_vec) /\ pc' = "exit"
  /\ UNCHANGED <<recv_buf, received, written, stream, taken, scanVars, device>>

\* The head of the outer loop; a signal ends it.
NextPacket ==
  /\ pc = "packet"
  /\ \/ pc' = "search" /\ received' = 0
     \/ pc' = "exit" /\ UNCHANGED received
  /\ UNCHANGED <<recv_vec, recv_buf, written, stream, taken, scanVars, device>>

\* Mutation: the last byte of the chunk before is searched, the last of this is not.
SearchedFromLate == recv_vec.len - (IF received = 0 THEN 0 ELSE received - 1)

\* Where the search for the end of a line starts.
SearchedFrom == recv_vec.len - received

\* The head of the receive loop.
Search ==
  /\ pc = "search"
  /\ IF Found(recv_vec, SearchedFrom, NEWLINE)
       THEN pc' = "write" /\ written' = 0
       ELSE pc' = "recv" /\ UNCHANGED written
  /\ UNCHANGED <<recv_vec, recv_buf, received, stream, taken, scanVars, device>>

\* A chunk, the end of the connection, or an error.
recv ==
  /\ pc = "recv"
  /\ \/ \E chunk \in Chunks :
          /\ Len(stream) + Len(chunk) <= MaxStream
          /\ recv_buf' = chunk /\ received' = Len(chunk)
          /\ pc' = "append"
     \/ pc' = "exit" /\ UNCHANGED <<recv_buf, received>>
  /\ UNCHANGED <<recv_vec, written, stream, taken, scanVars, device>>

\* A pass of the loop of vector_append; malloc(0) succeeds.
vector_append_grow ==
  /\ pc = "append"
  /\ TooSmall(recv_vec, recv_buf)
  /\ recv_vec' = Grown(recv_vec)
  /\ UNCHANGED <<pc, recv_buf, received, written, stream, taken, scanVars, device>>

vector_append_no_room ==
  /\ pc = "append"
  /\ TooSmall(recv_vec, recv_buf)
  /\ MallocFails
  /\ pc' = "exit"
  /\ UNCHANGED <<recv_vec, recv_buf, received, written, stream, taken, scanVars, device>>

vector_append_copy ==
  /\ pc = "append"
  /\ ~TooSmall(recv_vec, recv_buf)
  /\ recv_vec' = Appended(recv_vec, recv_buf)
  /\ stream' = stream \o recv_buf
  /\ pc' = "search"
  /\ UNCHANGED <<recv_buf, received, written, taken, scanVars, device>>

\* Mutation: all that has been received is taken for the line.
LineEndOfBuffer == recv_vec.len

\* The offset behind the next line.
LineEnd == vector_find(recv_vec, written, NEWLINE) + 1

\* Whether the byte at an offset is one of the buffer's.
InBuffer(offset) == offset < recv_vec.cap

\* The vector behind a store at an offset; one outside of the buffer changes
\* somebody else's byte, which overrun records.
Stored(offset, byte) ==
  IF InBuffer(offset) THEN [recv_vec EXCEPT !.buf[offset + 1] = byte] ELSE recv_vec

\* Mutation: the line is not terminated.
TerminatedNot == recv_vec

Terminated == Stored(LineEnd, ZERO)

\* In the build with the device the byte behind the line is set aside and
\* replaced by the terminator of a string, also if the line ends with the buffer:
\* the byte is then any, and the server goes on as long as nobody misses it.
PutTerminator ==
  /\ pc = "write"
  /\ device /\ Found(recv_vec, written, NEWLINE)
  /\ temp_char' \in IF InBuffer(LineEnd) THEN {recv_vec.buf[LineEnd + 1]} ELSE Bytes
  /\ recv_vec' = Terminated
  /\ overrun' = (overrun \/ ~InBuffer(LineEnd))
  /\ pc' = "scan"
  /\ UNCHANGED <<recv_buf, received, written, stream, taken, commands, device>>

\* The string at written: up to the first terminator, which is the one behind the
\* buffer if there is none in it.
Scanned ==
  LET ends == {i \in written + 1 .. recv_vec.cap : recv_vec.buf[i] = ZERO}
  IN  SubSeq(recv_vec.buf, written + 1, IF ends = {} THEN recv_vec.cap ELSE Min(ends) - 1)

\* What sscanf takes for a command: the name and the numbers.  It skips white
\* space before a number, ends of lines too.
IsCommand(string) ==
  \E i \in 2 .. Len(string) :
    /\ string[1] = NAME /\ string[i] = NUMBER
    /\ \A j \in 2 .. i - 1 : string[j] = NEWLINE

\* Mutation: the terminator stays.
RestoredNot == recv_vec

Restored == Stored(LineEnd, temp_char)

\* A command is executed and skipped; anything else will be written.
ScanLine ==
  /\ pc = "scan"
  /\ recv_vec' = Restored
  /\ IF IsCommand(Scanned)
       THEN /\ taken' = taken \o SubSeq(recv_vec.buf, written + 1, LineEnd)
            /\ commands' = commands \cup {<<Len(taken) + 1, Len(taken')>>}
            /\ written' = LineEnd
            /\ pc' = "write"
       ELSE pc' = "line" /\ UNCHANGED <<taken, commands, written>>
  /\ UNCHANGED <<recv_buf, received, temp_char, overrun, stream, device>>

\* The rest of a pass of the write loop.  A write to a plain file may store a
\* part of the line, and the next pass then looks for the same end again; the
\* driver takes all of it or fails.
WriteLine ==
  /\ pc = (IF device THEN "line" ELSE "write")
  /\ Found(recv_vec, written, NEWLINE)
  /\ \/ \E rv \in (IF device THEN LineEnd - written ELSE 1) .. LineEnd - written :
          /\ taken' = taken \o SubSeq(recv_vec.buf, written + 1, written + rv)
          /\ written' = written + rv
          /\ pc' = "write"
     \/ pc' = "exit" /\ UNCHANGED <<taken, written>>
  /\ UNCHANGED <<recv_vec, recv_buf, received, stream, scanVars, device>>

\* Whether there is extra data in the receive buffer.
LeavesBytes == written < recv_vec.len

\* The result of the second vector_init is not looked at.
CarryOrReset ==
  /\ pc = "write"
  /\ ~Found(recv_vec, written, NEWLINE)
  /\ \/ /\ LeavesBytes
        /\ \E order \in CopyOrders : recv_vec' = Carryover(recv_vec, written, order)
     \/ /\ ~LeavesBytes
        /\ recv_vec' \in {InitVector} \cup
             (IF MallocFails THEN {InitFailed(ClosedVector)} ELSE {})
  /\ pc' = "packet"
  /\ UNCHANGED <<recv_buf, received, written, stream, taken, scanVars, device>>

thread_cleanup ==
  /\ pc = "exit"
  /\ recv_vec' = ClosedVector
  /\ pc' = "done"
  /\ UNCHANGED <<recv_buf, received, written, stream, taken, scanVars, device>>

Step ==
  \/ vector_init \/ NextPacket \/ Search \/ recv
  \/ vector_append_grow \/ vector_append_no_room \/ vector_append_copy
  \/ PutTerminator \/ ScanLine \/ WriteLine \/ CarryOrReset \/ thread_cleanup

\* The thread has returned.
Returned == pc = "done" /\ UNCHANGED vars

Next == Step \/ Returned

Spec == Init /\ [][Next]_vars

\* A running thread keeps running; malloc need not fail.
FairSpec == Spec /\ WF_vars(vector_append_grow) /\ WF_vars(vector_append_copy)

(***************************************************************************)
(* Properties.                                                             *)
(***************************************************************************)

\* The buffer is as long as its capacity says: what vector_append and
\* vector_carryover copy, and what is searched and written, lies in it.
TypeOK ==
  /\ pc \in {"init", "packet", "search", "recv", "append", "write", "scan", "line", "exit", "done"}
  /\ recv_vec.cap \in Nat /\ recv_vec.len \in 0 .. recv_vec.cap
  /\ IF recv_vec.buf = NULL THEN recv_vec.cap = 0 ELSE Len(recv_vec.buf) = recv_vec.cap
  /\ pc \in {"write", "scan", "line"} => written \in 0 .. recv_vec.len

\* The bytes of recv_vec that have not been used.
Unwritten == SubSeq(recv_vec.buf, (IF pc \in {"write", "line"} THEN written ELSE 0) + 1, recv_vec.len)

\* What has been written or executed and the buffer together are what the client
\* has sent: no byte of it is lost, repeated or moved, however it was cut into
\* chunks, through every growth, short write, carry over and use of the byte
\* behind a line as a terminator.
NothingLost ==
  pc \in {"packet", "search", "recv", "append", "write", "line"} /\ recv_vec.buf # NULL =>
    taken \o Unwritten = stream

\* The thread waits for the client only when it has written every complete
\* line: a search of only the last chunk misses none.
NoLineWaits ==
  pc = "recv" => \A i \in 1 .. recv_vec.len : recv_vec.buf[i] # NEWLINE

\* The file gets complete lines only, except during a line's short writes and
\* behind a failed one.
WholeLines ==
  pc = "recv" => taken = <<>> \/ taken[Len(taken)] = NEWLINE

\* The places of the complete lines of taken.
Lines ==
  {l \in (1 .. Len(taken)) \X (1 .. Len(taken)) :
     /\ l[1] <= l[2]
     /\ l[1] = 1 \/ taken[l[1] - 1] = NEWLINE
     /\ \A i \in l[1] .. l[2] : taken[i] = NEWLINE <=> i = l[2]}

\* With the device a line is executed exactly if it is a command by itself, and
\* written to the device otherwise: sscanf never reads on into the next line or
\* into old bytes of the buffer.  Nothing is executed with a plain file.
CommandsExact ==
  commands = {l \in Lines : device /\ IsCommand(SubSeq(taken, l[1], l[2]))}

\* "Appends data to the provided vector, allocating more memory if necessary":
\* all of recv_vec that the thread writes to has been allocated.
StoresInside == ~overrun

\* vector_append returns if the vector_init before it succeeded.
AppendReturns == pc = "append" /\ recv_vec.cap > 0 ~> pc # "append"
=============================================================================
