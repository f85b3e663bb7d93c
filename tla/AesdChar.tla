------------------------------ MODULE AesdChar ------------------------------
(***************************************************************************)
(* The character device driver, aesd-char-driver/main.c: processes open    *)
(* the device and call read, write, llseek and ioctl on it concurrently,   *)
(* the handlers share struct aesd_dev under its mutex, and the module is   *)
(* loaded and unloaded.  The kernel's part is modelled from how the driver *)
(* uses it: the system call that hands read and write a private copy of    *)
(* the file position and stores it back afterwards, the interruptible      *)
(* mutex, and the allocator, whose objects are sequences of bytes.         *)
(*                                                                         *)
(* What a handler does while it holds the mutex touches only what the      *)
(* mutex protects, except for filp->f_pos.  A step is therefore one pass   *)
(* through the write loop, or a part of a handler with at most one access  *)
(* to filp->f_pos.                                                         *)
(***************************************************************************)
EXTENDS CircularBuffer

CONSTANTS
  Procs,      \* the processes
  Files,      \* the open file descriptions they share
  Ptrs,       \* the addresses the allocator can return
  Bytes,      \* the bytes processes write
  Requests,   \* the system calls they make
  NONE,       \* no process
  NL,         \* the byte '\n'
  ZERO,       \* the byte 0
  UNINIT,     \* a byte of allocated memory that nobody has written
  SIZE_T,     \* the number of values of a size_t
  FailSites,  \* the kernel services that may fail
  MaxLine,    \* bound: bytes of the unfinished line and of the writes under way
  MaxLost     \* bound: objects lost by a failing krealloc

ASSUME ModelValuesAssumption == NULL \notin Ptrs /\ NONE \notin Procs /\ {NL, ZERO} \subseteq Bytes
ASSUME SizeAssumption == SIZE_T \in Nat \ {0}

\* No result of a search is the null pointer.
ASSUME NullAssumption == NULL \notin [entry : [buffptr : Ptrs, size : Nat \ {0}], offset : Nat]

(***************************************************************************)
(* A request names the handler and its arguments.  data is the user's      *)
(* buffer: the bytes to write, and for a read only whether it is NULL.     *)
(***************************************************************************)
ASSUME RequestsAssumption ==
  \A r \in Requests :
    \/ r.op = "read"   /\ r.data \in {NULL, <<>>} /\ r.count \in Nat
    \/ r.op = "write"  /\ r.data \in Seq(Bytes) \cup {NULL}
    \/ r.op = "llseek" /\ r.off \in Int /\ r.whence \in Int
    \/ r.op = "ioctl"  /\ r.cmd \in {"IOCSEEKTO", "other_nr", "other_magic"}
                       /\ r.write_cmd \in Nat /\ r.write_cmd_offset \in Nat

VARIABLES
  loaded,    \* the module is loaded
  opened,    \* the open files
  f_pos,     \* filp->f_pos of each file
  mtx,       \* the process that holds dev->mtx, or NONE
  buf,       \* dev->buf
  line_buf,  \* dev->line_buf
  line_len,  \* dev->line_len
  heap,      \* the bytes of each allocated object, <<>> where none is allocated
  call,      \* the system call each process is in
  lost       \* ghost: objects whose last pointer a failing krealloc overwrote

dev  == <<buf, line_buf, line_len>>
vars == <<loaded, opened, f_pos, mtx, buf, line_buf, line_len, heap, call, lost>>

ERESTART == -85
ENOTTY   == -25
EINVAL   == -22
EFAULT   == -14
ENOMEM   == -12

(***************************************************************************)
(* The allocator: each operator gives the heap after the call.  A failing  *)
(* kmalloc or krealloc returns NULL and leaves the heap alone.             *)
(***************************************************************************)
FreePtrs(h) == {q \in Ptrs : h[q] = <<>>}

kfree(h, q) == IF q = NULL THEN h ELSE [h EXCEPT ![q] = <<>>]

kmalloc(h, q, size) == [h EXCEPT ![q] = [i \in 1 .. size |-> UNINIT]]

\* krealloc returns q, the old address or a free one, with the old contents.
krealloc(h, old, q, size) ==
  LET kept == IF old = NULL THEN <<>> ELSE h[old]
  IN  [kfree(h, old) EXCEPT
         ![q] = [i \in 1 .. size |-> IF i <= Len(kept) THEN kept[i] ELSE UNINIT]]

(***************************************************************************)
(* System calls.  pos is the private copy of the file position that        *)
(* sys_read and sys_write pass to the handler as *f_pos, and the newpos of *)
(* the two seeking handlers.                                               *)
(***************************************************************************)
NoCall == [pc |-> "idle", file |-> NULL, req |-> NULL, pos |-> 0,
           bytes_written |-> 0, ret |-> 0, got |-> <<>>]

At(p, pc) == call[p].pc = pc

Goto(p, pc) == call' = [call EXCEPT ![p].pc = pc]

Return(p, ret) == call' = [call EXCEPT ![p].pc = "return", ![p].ret = ret]

\* The last thing every handler does with the mutex held.
UnlockAndReturn(p, ret) == mtx' = NONE /\ Return(p, ret)

(***************************************************************************)
(* What a handler may return before it takes the mutex, or TAKE_LOCK.      *)
(***************************************************************************)
TAKE_LOCK == 1

BeforeLock(req) ==
  CASE req.op \in {"read", "write"} /\ req.data = NULL        -> {EINVAL}
    [] req.op = "read"  /\ req.data # NULL /\ req.count = 0    -> {0}
    [] req.op = "write" /\ req.data # NULL /\ req.data = <<>>  -> {0}
    [] req.op = "ioctl" /\ req.cmd = "other_magic"             -> {EINVAL}
    [] req.op = "ioctl" /\ req.cmd = "other_nr"                -> {ENOTTY}
    [] req.op = "ioctl" /\ req.cmd = "IOCSEEKTO" /\ "copy_from_user" \in FailSites
                                                              -> {EFAULT, TAKE_LOCK}
    [] OTHER                                                  -> {TAKE_LOCK}

\* The bytes of the writes under way, for the bound MaxLine.
BytesUnderWay ==
  MapThenSumSet(LAMBDA p : Len(call[p].req.data),
                {p \in Procs : ~At(p, "idle") /\ call[p].req.op = "write" /\ call[p].req.data # NULL})

\* The system call enters the handler, which runs up to its first lock.
Enter(p, f, req) ==
  /\ At(p, "idle")
  /\ f \in opened
  /\ req.op = "write" /\ req.data # NULL =>
       line_len + BytesUnderWay + Len(req.data) <= MaxLine
  /\ \E go \in BeforeLock(req) :
       call' = [call EXCEPT ![p] =
                  [NoCall EXCEPT !.pc   = IF go = TAKE_LOCK THEN "lock" ELSE "return",
                                 !.file = f,
                                 !.req  = req,
                                 !.pos  = f_pos[f],
                                 !.ret  = IF go = TAKE_LOCK THEN 0 ELSE go]]
  /\ UNCHANGED <<loaded, opened, f_pos, mtx, dev, heap, lost>>

\* Mutation: reads do not wait for the mutex.
LockUnlessRead(p) ==
  /\ At(p, "lock")
  /\ call[p].req.op = "read" \/ mtx = NONE
  /\ mtx' = p
  /\ Goto(p, "locked")
  /\ UNCHANGED <<loaded, opened, f_pos, dev, heap, lost>>

\* mutex_lock_interruptible, when it gets the mutex.
Lock(p) ==
  /\ At(p, "lock")
  /\ mtx = NONE
  /\ mtx' = p
  /\ Goto(p, "locked")
  /\ UNCHANGED <<loaded, opened, f_pos, dev, heap, lost>>

\* mutex_lock_interruptible, when a signal comes first.
Interrupted(p) ==
  /\ At(p, "lock")
  /\ "signal" \in FailSites
  /\ Return(p, ERESTART)
  /\ UNCHANGED <<loaded, opened, f_pos, mtx, dev, heap, lost>>

(***************************************************************************)
(* The system call ends.  sys_read and sys_write store their copy of the   *)
(* file position back unless the handler failed; nothing orders that with  *)
(* other calls on the same file.                                           *)
(***************************************************************************)
Leave(p) ==
  /\ At(p, "return")
  /\ LET c == call[p]
     IN  f_pos' = IF c.req.op \in {"read", "write"} /\ c.ret >= 0
                    THEN [f_pos EXCEPT ![c.file] = c.pos]
                    ELSE f_pos
  /\ call' = [call EXCEPT ![p] = NoCall]
  /\ UNCHANGED <<loaded, opened, mtx, dev, heap, lost>>

InHandler(p, op) == At(p, "locked") /\ call[p].req.op = op

(***************************************************************************)
(* aesd_read: at most the rest of the line at *f_pos.                      *)
(***************************************************************************)
aesd_read(p) ==
  /\ InHandler(p, "read")
  /\ LET c     == call[p]
         found == FindEntryOffsetForFpos(buf, c.pos % SIZE_T)
         bytes_read == Min({c.req.count, found.entry.size - found.offset})
         copied == SubSeq(heap[found.entry.buffptr], found.offset + 1, found.offset + bytes_read)
     IN  \/ found = NULL /\ UnlockAndReturn(p, 0)
         \/ found # NULL /\ "copy_to_user" \in FailSites /\ UnlockAndReturn(p, EFAULT)
         \/ /\ found # NULL
            /\ mtx' = NONE
            /\ call' = [call EXCEPT ![p].pc  = "return",
                                    ![p].pos = @ + bytes_read,
                                    ![p].ret = bytes_read,
                                    ![p].got = copied]
  /\ UNCHANGED <<loaded, opened, f_pos, dev, heap, lost>>

(***************************************************************************)
(* The two handlers that move filp->f_pos find the new position and then   *)
(* store it.                                                               *)
(***************************************************************************)
SeekOrFail(p, valid, newpos) ==
  IF valid
    THEN mtx' = mtx /\ call' = [call EXCEPT ![p].pc = "seek", ![p].pos = newpos]
    ELSE UnlockAndReturn(p, EINVAL)

\* Mutation: both sides of the comparison are signed.
PastEndSigned(newpos) == newpos > buf.char_size

\* The comparison converts newpos to size_t, which also turns a negative one away.
PastEnd(newpos) == newpos % SIZE_T > buf.char_size

aesd_llseek(p) ==
  /\ InHandler(p, "llseek")
  /\ LET c      == call[p]
         newpos == CASE c.req.whence = 0 -> c.req.off
                     [] c.req.whence = 1 -> f_pos[c.file] + c.req.off
                     [] c.req.whence = 2 -> buf.char_size + c.req.off
                     [] OTHER -> -1
     IN  SeekOrFail(p, c.req.whence \in 0..2 /\ ~PastEnd(newpos), newpos)
  /\ UNCHANGED <<loaded, opened, f_pos, dev, heap, lost>>

aesd_ioctl(p) ==
  /\ InHandler(p, "ioctl")
  /\ LET req    == call[p].req
         newpos == FindFposForEntryOffset(buf, req.write_cmd, req.write_cmd_offset)
     IN  SeekOrFail(p, newpos >= 0, newpos)
  /\ UNCHANGED <<loaded, opened, f_pos, dev, heap, lost>>

StoreSeek(p) ==
  /\ At(p, "seek")
  /\ LET c == call[p]
     IN  /\ f_pos' = [f_pos EXCEPT ![c.file] = c.pos]
         /\ UnlockAndReturn(p, IF c.req.op = "llseek" THEN c.pos ELSE 0)
  /\ UNCHANGED <<loaded, opened, dev, heap, lost>>

\* Mutation: the started line is forgotten when the line buffer is widened.
WidenedSizeOfData(count) == count

\* The size to which aesd_write widens the buffer of a line already started.
WidenedSize(count) == line_len + count

(***************************************************************************)
(* aesd_write.  The first step makes room in line_buf for all of the data. *)
(***************************************************************************)
aesd_write(p) ==
  /\ InHandler(p, "write")
  /\ LET count == Len(call[p].req.data)
     IN  \/ /\ line_len > 0
            /\ \E q \in FreePtrs(heap) \cup ({line_buf} \ {NULL}) :
                 /\ heap' = krealloc(heap, line_buf, q, WidenedSize(count))
                 /\ line_buf' = q
            /\ Goto(p, "loop")
            /\ UNCHANGED <<mtx, lost>>
         \/ /\ line_len = 0
            /\ \E q \in FreePtrs(heap) :
                 /\ heap' = kmalloc(heap, q, count)
                 /\ line_buf' = q
            /\ Goto(p, "loop")
            /\ UNCHANGED <<mtx, lost>>
  /\ UNCHANGED <<loaded, opened, f_pos, buf, line_len>>

\* The failure of that allocation.  krealloc leaves the old object allocated,
\* but line_buf was its only pointer; line_len keeps the length it had.
aesd_write_no_room(p) ==
  /\ InHandler(p, "write")
  /\ \/ /\ line_len > 0
        /\ "krealloc" \in FailSites
        /\ lost' = lost \cup ({line_buf} \ {NULL})
        /\ Cardinality(lost') <= MaxLost
     \/ /\ line_len = 0
        /\ "line_kmalloc" \in FailSites
        /\ UNCHANGED lost
  /\ line_buf' = NULL
  /\ UnlockAndReturn(p, ENOMEM)
  /\ UNCHANGED <<loaded, opened, f_pos, buf, line_len, heap>>

(***************************************************************************)
(* One pass through the loop.  NextByte is what get_user fetches; Fetched  *)
(* is the heap with it stored behind the line.                             *)
(***************************************************************************)
InLoop(p) == At(p, "loop") /\ call[p].bytes_written < Len(call[p].req.data)

NextByte(p) == call[p].req.data[call[p].bytes_written + 1]

Fetched(byte) == [heap EXCEPT ![line_buf] = [@ EXCEPT ![line_len + 1] = byte]]

\* get_user faults: it has stored 0, and both counters have moved.
aesd_write_fault(p) ==
  /\ InLoop(p)
  /\ "get_user" \in FailSites
  /\ heap' = Fetched(ZERO)
  /\ line_len' = line_len + 1
  /\ UnlockAndReturn(p, EFAULT)
  /\ UNCHANGED <<loaded, opened, f_pos, buf, line_buf, lost>>

\* A byte inside a line.
aesd_write_byte(p) ==
  /\ InLoop(p)
  /\ NextByte(p) # NL
  /\ heap' = Fetched(NextByte(p))
  /\ line_len' = line_len + 1
  /\ call' = [call EXCEPT ![p].bytes_written = @ + 1]
  /\ UNCHANGED <<loaded, opened, f_pos, mtx, buf, line_buf, lost>>

\* Mutation: this error path does not unlock.
aesd_write_no_entry_locked(p) ==
  /\ InLoop(p)
  /\ NextByte(p) = NL
  /\ "entry_kmalloc" \in FailSites
  /\ heap' = Fetched(NL)
  /\ line_len' = line_len + 1
  /\ Return(p, ENOMEM)
  /\ UNCHANGED <<loaded, opened, f_pos, mtx, buf, line_buf, lost>>

\* The end of a line, with no memory for its entry.
aesd_write_no_entry(p) ==
  /\ InLoop(p)
  /\ NextByte(p) = NL
  /\ "entry_kmalloc" \in FailSites
  /\ heap' = Fetched(NL)
  /\ line_len' = line_len + 1
  /\ UnlockAndReturn(p, ENOMEM)
  /\ UNCHANGED <<loaded, opened, f_pos, buf, line_buf, lost>>

\* Mutation: the last byte of the line is not copied.
EntryCopyShort(line, size) == [i \in 1 .. size |-> IF i < size THEN line[i] ELSE UNINIT]

\* The contents of the new entry.
EntryCopy(line, size) == SubSeq(line, 1, size)

(***************************************************************************)
(* The end of a line: it is copied into an entry of its own, the entry it  *)
(* overwrites and the line buffer are freed, and what is left of the data  *)
(* gets a new line buffer.                                                 *)
(***************************************************************************)
aesd_write_line(p) ==
  /\ InLoop(p)
  /\ NextByte(p) = NL
  /\ \E q \in FreePtrs(heap) :
       LET size   == line_len + 1
           copied == [Fetched(NL) EXCEPT ![q] = EntryCopy(Fetched(NL)[line_buf], size)]
           freed  == kfree(kfree(copied, OverwrittenPtr(buf)), line_buf)
           left   == Len(call[p].req.data) - (call[p].bytes_written + 1)
       IN  /\ buf' = AddEntry(buf, [buffptr |-> q, size |-> size])
           /\ line_len' = 0
           /\ \/ /\ left = 0
                 /\ heap' = freed
                 /\ call' = [call EXCEPT ![p].bytes_written = @ + 1]
                 /\ UNCHANGED <<mtx, line_buf>>
              \/ /\ left > 0
                 /\ \E r \in FreePtrs(freed) :
                      heap' = kmalloc(freed, r, left) /\ line_buf' = r
                 /\ call' = [call EXCEPT ![p].bytes_written = @ + 1]
                 /\ UNCHANGED mtx
              \/ /\ left > 0
                 /\ "rest_kmalloc" \in FailSites
                 /\ heap' = freed
                 /\ line_buf' = NULL
                 /\ UnlockAndReturn(p, ENOMEM)
  /\ UNCHANGED <<loaded, opened, f_pos, lost>>

\* The loop is over.
aesd_write_done(p) ==
  /\ At(p, "loop")
  /\ ~InLoop(p)
  /\ UnlockAndReturn(p, call[p].bytes_written)
  /\ UNCHANGED <<loaded, opened, f_pos, dev, heap, lost>>

(***************************************************************************)
(* Opening and closing.  A file is released when no call uses it any more. *)
(***************************************************************************)
aesd_open(f) ==
  /\ loaded
  /\ f \notin opened
  /\ opened' = opened \cup {f}
  /\ f_pos' = [f_pos EXCEPT ![f] = 0]
  /\ UNCHANGED <<loaded, mtx, dev, heap, call, lost>>

aesd_release(f) ==
  /\ f \in opened
  /\ \A p \in Procs : call[p].file # f
  /\ opened' = opened \ {f}
  /\ UNCHANGED <<loaded, f_pos, mtx, dev, heap, call, lost>>

(***************************************************************************)
(* Loading and unloading.  The open files hold a reference to the module,  *)
(* so it is only unloaded when there are none.  The memset comes before    *)
(* aesd_setup_cdev, which may fail and leave the module unloaded.          *)
(***************************************************************************)
aesd_init_module ==
  /\ ~loaded
  /\ loaded' \in {TRUE} \cup (IF "cdev_add" \in FailSites THEN {FALSE} ELSE {})
  /\ buf' = EmptyBuffer
  /\ line_buf' = NULL
  /\ line_len' = 0
  /\ mtx' = NONE
  /\ UNCHANGED <<opened, f_pos, heap, call, lost>>

\* Mutation: cleanup frees only the entries.
CleanupEntriesOnly == {buf.entry[i].buffptr : i \in SizedSlots(buf)} \ {NULL}

\* The pointers cleanup frees: those of the slots with a size, and line_buf
\* when a line has been started.
CleanupPtrs ==
  ({buf.entry[i].buffptr : i \in SizedSlots(buf)} \cup (IF line_len > 0 THEN {line_buf} ELSE {}))
    \ {NULL}

aesd_cleanup_module ==
  /\ loaded
  /\ opened = {}
  /\ loaded' = FALSE
  /\ heap' = [q \in Ptrs |-> IF q \in CleanupPtrs THEN <<>> ELSE heap[q]]
  /\ UNCHANGED <<opened, f_pos, mtx, dev, call, lost>>

Init ==
  /\ loaded = FALSE
  /\ opened = {}
  /\ f_pos = [f \in Files |-> 0]
  /\ mtx = NONE
  /\ buf = EmptyBuffer
  /\ line_buf = NULL
  /\ line_len = 0
  /\ heap = [q \in Ptrs |-> <<>>]
  /\ call = [p \in Procs |-> NoCall]
  /\ lost = {}

\* The steps a process takes by itself from its entry into a system call to its
\* return.
Step(p) ==
  \/ Lock(p)
  \/ aesd_read(p)
  \/ aesd_llseek(p)
  \/ aesd_ioctl(p)
  \/ StoreSeek(p)
  \/ aesd_write(p)
  \/ aesd_write_no_room(p)
  \/ aesd_write_fault(p)
  \/ aesd_write_byte(p)
  \/ aesd_write_no_entry(p)
  \/ aesd_write_line(p)
  \/ aesd_write_done(p)
  \/ Leave(p)

Next ==
  \/ aesd_init_module
  \/ aesd_cleanup_module
  \/ \E f \in Files : aesd_open(f) \/ aesd_release(f)
  \/ \E p \in Procs : Step(p) \/ Interrupted(p)
  \/ \E p \in Procs, f \in Files, req \in Requests : Enter(p, f, req)

Spec == Init /\ [][Next]_vars

(***************************************************************************)
(* Fairness: the scheduler runs every process, and a mutex that is freed   *)
(* again and again is not kept from a waiter for ever (Linux hands a mutex *)
(* over to the first waiter).  Nothing makes a process start a call, and   *)
(* no signal has to come.                                                  *)
(***************************************************************************)
Fairness == \A p \in Procs : WF_vars(Step(p)) /\ SF_vars(Lock(p))

FairSpec == Spec /\ Fairness

(***************************************************************************)
(* Properties.                                                             *)
(***************************************************************************)
Entries == [buffptr : Ptrs, size : Nat \ {0}]

Calls == [pc   : {"idle", "lock", "locked", "seek", "loop", "return"},
          file : Files \cup {NULL},
          req  : Requests \cup {NULL},
          pos  : Int,
          bytes_written : Nat,
          ret  : Int,
          got  : Seq(Bytes \cup {UNINIT})]

TypeOK ==
  /\ loaded \in BOOLEAN
  /\ opened \subseteq Files
  /\ f_pos \in [Files -> Int]
  /\ mtx \in Procs \cup {NONE}
  /\ BufferType(buf, Entries)
  /\ line_buf \in Ptrs \cup {NULL}
  /\ line_len \in Nat
  /\ heap \in [Ptrs -> Seq(Bytes \cup {UNINIT})]
  /\ call \in [Procs -> Calls]
  /\ lost \subseteq Ptrs

Holds(p) == call[p].pc \in {"locked", "seek", "loop"}

\* The mutex is held by exactly the process that is between lock and unlock:
\* no two handlers are in the critical section, and every way out of a handler
\* (end of data, bad seek, fault, no memory) gives the mutex back once.
MutexExact == \A p \in Procs : Holds(p) <=> mtx = p

\* The objects the entries own, and the one the unfinished line owns.  A line
\* buffer is owned while it holds bytes or the write loop will store into it;
\* after a line has been completed line_buf dangles.
EntryPtrs == {buf.entry[i].buffptr : i \in HeldSlots(buf)}
LinePtrs ==
  IF line_len > 0 \/ \E p \in Procs : InLoop(p) THEN {line_buf} \ {NULL} ELSE {}

\* Every access the driver makes to its memory is to an object it owns, inside
\* its bounds: each held entry owns one object of exactly its size, no two share
\* one or share it with the line, and the line buffer has room for the line and
\* for all of the data the write loop has still to store.
HeapSafe ==
  loaded =>
    /\ \A i \in HeldSlots(buf) :
         /\ Len(heap[buf.entry[i].buffptr]) = buf.entry[i].size
         /\ \A j \in HeldSlots(buf) \ {i} : buf.entry[j].buffptr # buf.entry[i].buffptr
    /\ LinePtrs \cap EntryPtrs = {}
    /\ \A q \in LinePtrs : Len(heap[q]) >= line_len
    /\ \A p \in Procs : InLoop(p) =>
         /\ line_buf \in Ptrs
         /\ Len(heap[line_buf]) >= line_len + Len(call[p].req.data) - call[p].bytes_written

\* No object is allocated that the device does not own, and after unloading
\* none is left: eviction, the end of a line, every failure and cleanup free what
\* they must.  The one exception are the objects a failing krealloc loses.
NoLeak ==
  LET owned == IF loaded THEN EntryPtrs \cup LinePtrs ELSE {}
  IN  /\ Ptrs \ FreePtrs(heap) = owned \cup lost
      /\ owned \cap lost = {}

\* The stored lines, oldest first.
Lines == [k \in 1 .. Held(buf) |-> heap[Contents(buf)[k].buffptr]]

\* Whatever fails, a step leaves the stored lines alone or appends one line,
\* dropping the oldest when there were MAX; a reader never sees a line change
\* or lines reordered.
StoredLinesKept ==
  [][loaded /\ loaded' =>
       \/ Lines' = Lines
       \/ /\ Held(buf') = Min({Held(buf) + 1, MAX})
          /\ \A k \in 1 .. Held(buf') - 1 : Lines'[k] = Lines[k + Held(buf) + 1 - Held(buf')]]_vars

\* Unless an allocation for a line or a read of the user's buffer fails, a stored
\* entry is one line: it ends with its only newline, and all of its bytes were
\* written by a process.
EntriesAreLines ==
  loaded => \A k \in 1 .. Held(buf) :
    LET line == Lines[k]
    IN  /\ \A i \in 1 .. Len(line) : line[i] = NL <=> i = Len(line)
        /\ \A i \in 1 .. Len(line) : line[i] \in Bytes \ {ZERO}

\* What is stored and later read is what processes wrote: no entry contains
\* memory that was never written.
EntriesInitialised ==
  loaded => \A k \in 1 .. Held(buf) : \A i \in 1 .. Len(Lines[k]) : Lines[k][i] # UNINIT

\* No call leaves a negative position behind, although llseek compares the
\* signed new position with an unsigned size.
PosNonNegative == \A f \in Files : f_pos[f] >= 0

\* A seek that succeeds lands on the byte asked for, in the device as it is when
\* the position is stored: llseek inside the device or at its end, and ioctl on
\* byte write_cmd_offset of the line number write_cmd.
SeeksLand ==
  [][\A p \in Procs : At(p, "seek") /\ call'[p].pc = "return" =>
       LET c   == call[p]
           pos == f_pos'[c.file]
       IN  /\ pos \in 0 .. buf'.char_size
           /\ c.req.op = "ioctl" =>
                /\ c.req.write_cmd < Held(buf')
                /\ FindEntryOffsetForFpos(buf', pos) =
                     [entry  |-> Contents(buf')[c.req.write_cmd + 1],
                      offset |-> c.req.write_cmd_offset]]_vars

\* Every system call returns, whatever fails and whoever competes for the mutex.
CallsReturn == \A p \in Procs : ~At(p, "idle") ~> At(p, "idle")
=============================================================================
