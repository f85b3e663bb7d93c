--------------------------- MODULE AesdCharProofs ---------------------------
(***************************************************************************)
(* The theorems about the driver, for any number of processes, files,      *)
(* addresses and requests, and for every set of kernel services that may   *)
(* fail: mutual exclusion, the memory the driver owns, the stored lines    *)
(* and the file positions.                                                 *)
(***************************************************************************)
EXTENDS AesdChar, RingProofs

(***************************************************************************)
(* The inductive invariant.                                                *)
(***************************************************************************)
Memory == Seq(Bytes \cup {UNINIT})

Holding == {"locked", "seek", "loop"}

\* What a call's step requires of what the steps before it have left in it.
Sound(c, files) ==
  c.pc # "idle" =>
    /\ c.file \in files /\ c.req \in Requests
    /\ c.pc \in {"lock", "locked", "loop"} /\ c.req.op = "write" =>
         c.req.data \in Seq(Bytes) /\ c.req.data # <<>>
    /\ c.pc \in {"lock", "locked"} => c.bytes_written = 0
    /\ c.pc = "seek" => c.req.op \in {"llseek", "ioctl"}
    /\ c.pc = "loop" => c.req.op = "write" /\ c.bytes_written <= Len(c.req.data)

\* The calls, and the mutex their states go with.  Files are open only while the
\* module is loaded, and so calls are under way only then.
CallInv ==
  /\ loaded \in BOOLEAN /\ opened \subseteq Files /\ (opened # {} => loaded)
  /\ f_pos \in [Files -> Int]
  /\ mtx \in Procs \cup {NONE}
  /\ call \in [Procs -> Calls]
  /\ \A p \in Procs : Sound(call[p], opened)
  /\ MutexExact

BufInv ==
  /\ BufferType(buf, Entries) /\ Ring(buf, Entries)
  /\ TotalSize(Contents(buf), buf.char_size)

\* The objects of the heap h are those of the entries of b, those in line and
\* those in gone, each of them only one.
Stores(b, h, gone, line) ==
  /\ h \in [Ptrs -> Memory] /\ gone \cup line \subseteq Ptrs /\ gone \cap line = {}
  /\ \A i \in SizedSlots(b) :
       /\ b.entry[i].buffptr \in Ptrs \ (gone \cup line)
       /\ Len(h[b.entry[i].buffptr]) = b.entry[i].size
       /\ \A j \in SizedSlots(b) : b.entry[j].buffptr = b.entry[i].buffptr => j = i
  /\ \A q \in gone \cup line : h[q] # <<>>
  /\ \A q \in Ptrs : h[q] # <<>> =>
       q \in gone \cup line \/ \E i \in SizedSlots(b) : b.entry[i].buffptr = q

\* The memory of the driver.  HeapSafe and NoLeak follow from it.
MemInv ==
  /\ line_buf \in Ptrs \cup {NULL} /\ line_len \in Nat
  /\ ~loaded => Stores(EmptyBuffer, heap, lost, {})
  /\ loaded => Stores(buf, heap, lost, LinePtrs)
  /\ loaded /\ line_len > 0 /\ line_buf # NULL => Len(heap[line_buf]) >= line_len
  /\ \A p \in Procs : InLoop(p) =>
       /\ line_buf \in Ptrs
       /\ Len(heap[line_buf]) >= line_len + (Len(call[p].req.data) - call[p].bytes_written)

CharInv == CallInv /\ BufInv /\ MemInv

-----------------------------------------------------------------------------
(* The calls and the mutex.                                                  *)

\* In the invariant the calls have their types.
LEMMA CallType ==
  ASSUME CallInv, NEW p \in Procs
  PROVE  /\ call[p] \in Calls /\ Sound(call[p], opened)
         /\ call[p].pc # "idle" => loaded /\ opened # {} /\ call[p].file \in Files /\ call[p].req \in Requests
         /\ NULL \notin Ptrs /\ NONE \notin Procs
         /\ call[p].pc \in Holding <=> mtx = p
<1>1. call[p] \in Calls /\ Sound(call[p], opened) /\ NONE \notin Procs /\ NULL \notin Ptrs
  BY ModelValuesAssumption DEF CallInv
<1>2. call[p].pc # "idle" => loaded /\ opened # {} /\ call[p].file \in Files /\ call[p].req \in Requests
  BY <1>1 DEF CallInv, Sound
<1> QED
  BY <1>1, <1>2 DEF CallInv, MutexExact, Holds, Holding

\* A step of one process, which takes the mutex, keeps it or gives it back, and
\* leaves its call ready for the step to come.
CallStep(p, c) ==
  /\ call' = [call EXCEPT ![p] = c]
  /\ c \in Calls /\ Sound(c, opened)
  /\ c.pc \in Holding <=> mtx' = p
  /\ mtx' = mtx \/ (mtx \in {p, NONE} /\ mtx' \in {p, NONE})

LEMMA CallStepKeeps ==
  ASSUME CallInv, NEW p \in Procs, NEW c, CallStep(p, c),
         UNCHANGED <<loaded, opened>>, f_pos' \in [Files -> Int]
  PROVE  CallInv' /\ \A q \in Procs : call'[q] = IF q = p THEN c ELSE call[q]
<1>1. \A q \in Procs : call'[q] = IF q = p THEN c ELSE call[q]
  BY DEF CallInv, CallStep
<1>2. call' \in [Procs -> Calls] /\ mtx' \in Procs \cup {NONE}
  BY DEF CallInv, CallStep
<1>3. \A q \in Procs : Sound(call'[q], opened)
  BY <1>1 DEF CallInv, CallStep
<1>4. ASSUME NEW q \in Procs
      PROVE  call'[q].pc \in Holding <=> mtx' = q
  <2>1. CASE q = p
    BY <1>1, <2>1 DEF CallStep
  <2>2. CASE q # p
    BY <1>1, <2>2, CallType DEF CallStep
  <2> QED
    BY <2>1, <2>2
<1>5. MutexExact'
  BY <1>4 DEF MutexExact, Holds, Holding
<1> QED
  BY <1>1, <1>2, <1>3, <1>5 DEF CallInv

\* What Return and Goto leave in the call.
LEMMA ReturnIs ==
  ASSUME CallInv, NEW p \in Procs, NEW ret \in Int, Return(p, ret)
  PROVE  \E c \in Calls : /\ call' = [call EXCEPT ![p] = c]
                          /\ c.pc = "return" /\ c.ret = ret
                          /\ c.file = call[p].file /\ c.req = call[p].req
                          /\ c.pos = call[p].pos /\ c.got = call[p].got
<1>1. PICK c : c = [call[p] EXCEPT !.pc = "return", !.ret = ret]
  OBVIOUS
<1>2. call[p] \in Calls
  BY CallType
<1>3. c \in Calls /\ c.pc = "return" /\ c.ret = ret
      /\ c.file = call[p].file /\ c.req = call[p].req
      /\ c.pos = call[p].pos /\ c.got = call[p].got
  BY <1>1, <1>2 DEF Calls
<1>4. call' = [call EXCEPT ![p] = c]
  BY <1>1 DEF Return, CallInv
<1> QED
  BY <1>3, <1>4

LEMMA GotoIs ==
  ASSUME CallInv, NEW p \in Procs, NEW pc \in {"locked", "loop"}, Goto(p, pc)
  PROVE  \E c \in Calls : /\ call' = [call EXCEPT ![p] = c]
                          /\ c.pc = pc /\ c.bytes_written = call[p].bytes_written
                          /\ c.file = call[p].file /\ c.req = call[p].req
                          /\ c.pos = call[p].pos /\ c.got = call[p].got
<1>1. PICK c : c = [call[p] EXCEPT !.pc = pc]
  OBVIOUS
<1>2. call[p] \in Calls
  BY CallType
<1>3. c \in Calls /\ c.pc = pc /\ c.bytes_written = call[p].bytes_written
      /\ c.file = call[p].file /\ c.req = call[p].req
      /\ c.pos = call[p].pos /\ c.got = call[p].got
  BY <1>1, <1>2 DEF Calls
<1>4. call' = [call EXCEPT ![p] = c]
  BY <1>1 DEF Goto, CallInv
<1> QED
  BY <1>3, <1>4

\* A handler that has the mutex gives it back and returns.
LEMMA UnlockReturns ==
  ASSUME CallInv, NEW p \in Procs, call[p].pc \in Holding, NEW ret \in Int, UnlockAndReturn(p, ret)
  PROVE  \E c \in Calls : CallStep(p, c) /\ c.pc = "return" /\ c.ret = ret /\ c.pos = call[p].pos
<1>1. Return(p, ret) /\ mtx' = NONE
  BY DEF UnlockAndReturn
<1>2. PICK c \in Calls : /\ call' = [call EXCEPT ![p] = c]
                         /\ c.pc = "return" /\ c.ret = ret
                         /\ c.file = call[p].file /\ c.req = call[p].req /\ c.pos = call[p].pos
  BY <1>1, ReturnIs
<1>3. Sound(c, opened)
  BY <1>2, CallType DEF Sound, Holding
<1>4. mtx = p /\ NONE \notin Procs
  BY CallType
<1> QED
  BY <1>1, <1>2, <1>3, <1>4 DEF CallStep, Holding

\* A handler that returns without having taken it.
LEMMA RefusedReturns ==
  ASSUME CallInv, NEW p \in Procs, call[p].pc = "lock", NEW ret \in Int, Return(p, ret), mtx' = mtx
  PROVE  \E c \in Calls : CallStep(p, c) /\ c.pc = "return" /\ c.ret = ret /\ c.pos = call[p].pos
<1>2. PICK c \in Calls : /\ call' = [call EXCEPT ![p] = c]
                         /\ c.pc = "return" /\ c.ret = ret
                         /\ c.file = call[p].file /\ c.req = call[p].req /\ c.pos = call[p].pos
  BY ReturnIs
<1>3. Sound(c, opened)
  BY <1>2, CallType DEF Sound
<1>4. mtx # p
  BY CallType DEF Holding
<1> QED
  BY <1>2, <1>3, <1>4 DEF CallStep, Holding

-----------------------------------------------------------------------------
(* Steps that leave the memory alone.                                        *)

\* Whether a write loop has data to store depends on its own call.
LEMMA LoopsKept ==
  ASSUME CallInv, NEW p \in Procs, NEW c, CallStep(p, c),
         UNCHANGED <<loaded, opened>>, f_pos' \in [Files -> Int]
  PROVE  /\ \A q \in Procs : q # p => (InLoop(q)' <=> InLoop(q)) /\ call'[q] = call[q]
         /\ call'[p] = c
         /\ InLoop(p)' <=> c.pc = "loop" /\ c.bytes_written < Len(c.req.data)
<1>1. \A q \in Procs : call'[q] = IF q = p THEN c ELSE call[q]
  BY CallStepKeeps
<1> QED
  BY <1>1 DEF InLoop, At

\* Only the process that has the mutex is in the write loop.
LEMMA OneLoop ==
  ASSUME CallInv, NEW p \in Procs, NEW q \in Procs, InLoop(p)
  PROVE  /\ mtx = p /\ loaded /\ (InLoop(q) => q = p)
         /\ call[p].req.data \in Seq(Bytes) /\ call[p].req.data # <<>>
         /\ Len(call[p].req.data) \in Nat /\ call[p].bytes_written \in Nat
         /\ call[p].bytes_written < Len(call[p].req.data)
<1>1. call[p].pc = "loop" /\ call[p].bytes_written < Len(call[p].req.data)
  BY DEF InLoop, At
<1>2. mtx = p /\ loaded
  BY <1>1, CallType DEF Holding
<1>3. InLoop(q) => mtx = q
  BY CallType DEF InLoop, At, Holding
<1>4. call[p].req.data \in Seq(Bytes) /\ call[p].req.data # <<>> /\ call[p].bytes_written \in Nat
  BY <1>1, CallType DEF Sound, Calls
<1> QED
  BY <1>1, <1>2, <1>3, <1>4, LenProperties

\* A step outside the write loop that touches no memory.
LEMMA QuietKeeps ==
  ASSUME CharInv, NEW p \in Procs, NEW c, CallStep(p, c), c.pc # "loop", ~InLoop(p),
         UNCHANGED <<loaded, opened, dev, heap, lost>>, f_pos' \in [Files -> Int]
  PROVE  CharInv'
<1>1. CallInv' /\ CallInv
  BY CallStepKeeps DEF CharInv
<1>2. \A q \in Procs : (InLoop(q)' <=> InLoop(q)) /\ (InLoop(q) => call'[q] = call[q])
  BY <1>1, LoopsKept
<1>3. BufInv'
  BY DEF CharInv, BufInv, dev
<1>4. UNCHANGED <<line_buf, line_len, buf, heap, lost, loaded>> /\ LinePtrs' = LinePtrs
  BY <1>2 DEF dev, LinePtrs
<1>5. MemInv'
  BY <1>2, <1>4 DEF CharInv, MemInv
<1> QED
  BY <1>1, <1>3, <1>5 DEF CharInv

\* What a handler may return before it takes the mutex.
LEMMA BeforeLockIs ==
  ASSUME NEW req \in Requests, NEW go \in BeforeLock(req)
  PROVE  /\ go \in Int
         /\ go = TAKE_LOCK /\ req.op = "write" => req.data \in Seq(Bytes) /\ req.data # <<>>
<1>1. go \in {EINVAL, 0, ENOTTY, EFAULT, TAKE_LOCK}
  BY DEF BeforeLock
<1>2. ASSUME go = TAKE_LOCK, req.op = "write"
      PROVE  req.data # NULL /\ req.data # <<>>
  BY <1>2 DEF BeforeLock, TAKE_LOCK, EINVAL
<1>3. req.op = "write" => req.data \in Seq(Bytes) \cup {NULL}
  BY RequestsAssumption
<1> QED
  BY <1>1, <1>2, <1>3 DEF EINVAL, ENOTTY, EFAULT, TAKE_LOCK

LEMMA EnterStep ==
  ASSUME CallInv, NEW p \in Procs, NEW f \in Files, NEW req \in Requests, Enter(p, f, req)
  PROVE  \E c \in Calls : CallStep(p, c) /\ c.pc \in {"lock", "return"} /\ ~InLoop(p) /\ c.pos = f_pos[f]
<1>1. PICK go \in BeforeLock(req) :
        call' = [call EXCEPT ![p] =
                  [NoCall EXCEPT !.pc   = IF go = TAKE_LOCK THEN "lock" ELSE "return",
                                 !.file = f,
                                 !.req  = req,
                                 !.pos  = f_pos[f],
                                 !.ret  = IF go = TAKE_LOCK THEN 0 ELSE go]]
  BY DEF Enter
<1>2. PICK c : c = [NoCall EXCEPT !.pc   = IF go = TAKE_LOCK THEN "lock" ELSE "return",
                                  !.file = f,
                                  !.req  = req,
                                  !.pos  = f_pos[f],
                                  !.ret  = IF go = TAKE_LOCK THEN 0 ELSE go]
  OBVIOUS
<1>3. call' = [call EXCEPT ![p] = c]
  BY <1>1, <1>2
<1>7. c.pc = IF go = TAKE_LOCK THEN "lock" ELSE "return"
  BY <1>2 DEF NoCall
<1>8. c.file = f /\ c.req = req /\ c.pos = f_pos[f] /\ c.bytes_written = 0
  BY <1>2 DEF NoCall
<1>4. c \in Calls
  <2>1. NoCall \in Calls
    BY DEF NoCall, Calls
  <2>2. PICK pc \in {"lock", "return"} : pc = IF go = TAKE_LOCK THEN "lock" ELSE "return"
    OBVIOUS
  <2>3. PICK ret \in Int : ret = IF go = TAKE_LOCK THEN 0 ELSE go
    BY BeforeLockIs
  <2>4. PICK pos \in Int : pos = f_pos[f]
    BY DEF CallInv
  <2>5. c = [[NoCall EXCEPT !.pc = pc, !.file = f] EXCEPT !.req = req, !.pos = pos, !.ret = ret]
    BY <1>2, <2>2, <2>3, <2>4
  <2>6. [NoCall EXCEPT !.pc = pc, !.file = f] \in Calls
    BY <2>1 DEF Calls
  <2> QED
    BY <2>5, <2>6 DEF Calls
<1>5. Sound(c, opened)
  BY <1>7, <1>8, BeforeLockIs DEF Sound, Enter
<1>6. call[p].pc = "idle" /\ mtx' = mtx /\ mtx # p
  BY CallType DEF Enter, At, Holding
<1> QED
  BY <1>3, <1>4, <1>5, <1>6, <1>7, <1>8 DEF CallStep, Holding, InLoop, At

LEMMA LockStep ==
  ASSUME CallInv, NEW p \in Procs, Lock(p)
  PROVE  \E c \in Calls : CallStep(p, c) /\ c.pc = "locked" /\ ~InLoop(p) /\ c.pos = call[p].pos
<1>1. PICK c \in Calls : /\ call' = [call EXCEPT ![p] = c]
                         /\ c.pc = "locked" /\ c.bytes_written = call[p].bytes_written
                         /\ c.file = call[p].file /\ c.req = call[p].req /\ c.pos = call[p].pos
  BY GotoIs DEF Lock
<1>2. call[p].pc = "lock" /\ mtx = NONE /\ mtx' = p
  BY DEF Lock, At
<1>3. Sound(c, opened)
  BY <1>1, <1>2, CallType DEF Sound
<1> QED
  BY <1>1, <1>2, <1>3 DEF CallStep, Holding, InLoop, At

LEMMA LeaveStep ==
  ASSUME CallInv, NEW p \in Procs, Leave(p)
  PROVE  \E c \in Calls : CallStep(p, c) /\ c.pc = "idle" /\ ~InLoop(p) /\ c.pos = 0
<1>1. call[p].pc = "return" /\ call' = [call EXCEPT ![p] = NoCall] /\ mtx' = mtx /\ mtx # p
  BY CallType DEF Leave, At, Holding
<1>2. NoCall \in Calls /\ Sound(NoCall, opened) /\ NoCall.pc = "idle" /\ NoCall.pos = 0
  BY DEF NoCall, Calls, Sound
<1> QED
  BY <1>1, <1>2 DEF CallStep, Holding, InLoop, At

-----------------------------------------------------------------------------
(* Reads and seeks.                                                          *)

\* The lines' entries.
LEMMA EntriesAre ==
  ASSUME BufInv
  PROVE  /\ Sized(Entries) /\ BufferType(buf, Entries) /\ Ring(buf, Entries)
         /\ TotalSize(Contents(buf), buf.char_size)
         /\ SizedSlots(buf) = HeldSlots(buf) /\ SizedSlots(buf) \subseteq Slots
         /\ \A i \in SizedSlots(buf) : buf.entry[i] \in Entries /\ buf.entry[i].buffptr \in Ptrs
                                       /\ buf.entry[i].size \in Nat \ {0}
         /\ Held(buf) \in Nat /\ Held(buf) <= MAX
         /\ buf.char_size \in Nat /\ buf.in_offs \in Slots
         /\ \A k \in 1 .. Held(buf) : \E i \in SizedSlots(buf) : Contents(buf)[k] = buf.entry[i]
<1>1. Sized(Entries) /\ BufferType(buf, Entries) /\ Ring(buf, Entries) /\ TotalSize(Contents(buf), buf.char_size)
  BY DEF BufInv, Sized, Entries
<1>2. \A e \in Entries : e.size \in Nat \ {0} /\ e.buffptr \in Ptrs
  BY DEF Entries
<1>3. SizedSlots(buf) = HeldSlots(buf)
  BY <1>1, <1>2, RingSlots
<1>4. ASSUME NEW i \in SizedSlots(buf)
      PROVE  i \in Slots /\ buf.entry[i] \in Entries
  <2>1. i \in Slots /\ buf.entry[i].size > 0 /\ buf.entry[i] \in Entries \cup {ZeroEntry}
    BY <1>1, FieldTypes DEF SizedSlots
  <2> QED
    BY <2>1 DEF ZeroEntry
<1>5. Held(buf) \in Nat /\ Held(buf) <= MAX
  BY <1>1, ContentsSlot
<1>6. ASSUME NEW k \in 1 .. Held(buf)
      PROVE  \E i \in SizedSlots(buf) : Contents(buf)[k] = buf.entry[i]
  <2>1. k - 1 \in 0 .. Held(buf) - 1 /\ (k - 1) + 1 = k
    BY <1>5
  <2>2. Slot(buf, k - 1) \in HeldSlots(buf)
    BY <2>1 DEF HeldSlots
  <2>3. buf.entry[Slot(buf, k - 1)] = Contents(buf)[k]
    BY <1>1, <2>1, ContentsSlot
  <2> QED
    BY <1>3, <2>2, <2>3
<1> QED
  BY <1>1, <1>2, <1>3, <1>4, <1>5, <1>6, FieldTypes

\* What the search hands to read: bytes of an object that is as long as the entry
\* says.
LEMMA ReadFinds ==
  ASSUME CharInv, loaded, NEW off \in Nat, FindEntryOffsetForFpos(buf, off) # NULL
  PROVE  LET found == FindEntryOffsetForFpos(buf, off)
         IN  /\ off < buf.char_size
             /\ found.entry.buffptr \in Ptrs /\ found.entry.size \in Nat /\ found.offset \in Nat
             /\ found.entry.size - found.offset \in Nat \ {0}
             /\ off + (found.entry.size - found.offset) <= buf.char_size
             /\ Len(heap[found.entry.buffptr]) = found.entry.size
<1>0. BufInv
  BY DEF CharInv
<1>1. PICK max \in Nat : max = buf.char_size
  BY <1>0, EntriesAre
<1>2. off < max
  BY <1>0, <1>1, EntriesAre, FindsEntry
<1>3. PICK k \in 1 .. Held(buf) :
        /\ InEntry(buf, k, off)
        /\ FindEntryOffsetForFpos(buf, off) =
             [entry |-> Contents(buf)[k], offset |-> off - CountBefore(buf)[k-1]]
  BY <1>0, <1>1, <1>2, EntriesAre, FindsEntry
<1>4. PICK i \in SizedSlots(buf) : Contents(buf)[k] = buf.entry[i]
  BY <1>0, EntriesAre
<1>5. PICK t : t = CountBefore(buf)
  OBVIOUS
<1>6. k - 1 \in 0 .. Held(buf) /\ k \in 0 .. Held(buf)
  BY <1>0, EntriesAre
<1>7. PICK len \in Nat : len = buf.entry[i].size /\ t[k] = t[k-1] + len
  BY <1>0, <1>4, <1>5, EntriesAre, TotalsType
<1>8. t[k-1] \in Nat /\ t[k] \in 0 .. max /\ t[k-1] <= off /\ off < t[k]
  BY <1>0, <1>1, <1>3, <1>5, <1>6, EntriesAre, TotalsType DEF InEntry
<1>9. PICK offset : offset = off - t[k-1]
  OBVIOUS
<1>10. offset \in Nat /\ len - offset \in Nat \ {0} /\ off + (len - offset) <= max
  BY <1>7, <1>8, <1>9
<1>11. buf.entry[i].buffptr \in Ptrs /\ Len(heap[buf.entry[i].buffptr]) = len
  BY <1>7 DEF CharInv, MemInv, Stores
<1> QED
  BY <1>1, <1>2, <1>3, <1>4, <1>5, <1>7, <1>9, <1>10, <1>11

\* A read ends, and moves the position over what it has copied.
LEMMA ReadStep ==
  ASSUME CharInv, NEW p \in Procs, aesd_read(p)
  PROVE  \E c \in Calls : /\ CallStep(p, c) /\ c.pc = "return" /\ ~InLoop(p)
                          /\ \/ c.pos = call[p].pos
                             \/ /\ call[p].pos % SIZE_T < buf.char_size
                                /\ \E n \in Nat : /\ c.pos = call[p].pos + n
                                                  /\ (call[p].pos % SIZE_T) + n <= buf.char_size
<1>0. CallInv /\ BufInv /\ call[p].pc = "locked" /\ call[p].req.op = "read" /\ ~InLoop(p)
  BY DEF CharInv, aesd_read, InHandler, InLoop, At
<1>1. /\ call[p] \in Calls /\ Sound(call[p], opened) /\ loaded /\ mtx = p /\ NONE \notin Procs
      /\ call[p].req \in Requests /\ call[p].pc \in Holding
  BY <1>0, CallType DEF Holding
<1>2. call[p].pos \in Int /\ call[p].req.count \in Nat
  BY <1>0, <1>1, RequestsAssumption DEF Calls
<1>3. PICK off \in Nat : off = call[p].pos % SIZE_T
  BY <1>2, SizeAssumption
<1>4. PICK found : found = FindEntryOffsetForFpos(buf, off)
  OBVIOUS
<1>5. PICK n : n = Min({call[p].req.count, found.entry.size - found.offset})
  OBVIOUS
<1>6. PICK copied : copied = SubSeq(heap[found.entry.buffptr], found.offset + 1, found.offset + n)
  OBVIOUS
<1>7. \/ UnlockAndReturn(p, 0)
      \/ UnlockAndReturn(p, EFAULT)
      \/ /\ found # NULL
         /\ mtx' = NONE
         /\ call' = [call EXCEPT ![p].pc  = "return", ![p].pos = @ + n, ![p].ret = n, ![p].got = copied]
  BY <1>3, <1>4, <1>5, <1>6 DEF aesd_read
<1>8. CASE UnlockAndReturn(p, 0) \/ UnlockAndReturn(p, EFAULT)
  BY <1>0, <1>1, <1>8, UnlockReturns DEF EFAULT
<1>9. CASE /\ found # NULL
           /\ mtx' = NONE
           /\ call' = [call EXCEPT ![p].pc  = "return", ![p].pos = @ + n, ![p].ret = n, ![p].got = copied]
  <2>1. PICK size, offset, q : size = found.entry.size /\ offset = found.offset /\ q = found.entry.buffptr
    OBVIOUS
  <2>2. /\ off < buf.char_size /\ q \in Ptrs /\ size \in Nat /\ offset \in Nat
        /\ size - offset \in Nat \ {0}
        /\ off + (size - offset) <= buf.char_size /\ Len(heap[q]) = size
    BY <1>1, <1>4, <1>9, <2>1, ReadFinds
  <2>3. n \in Nat /\ n <= size - offset
    <3>1. PICK S \in SUBSET Nat : S = {call[p].req.count, size - offset}
      BY <1>2, <2>2
    <3>2. n = Min(S) /\ S # {} /\ size - offset \in S
      BY <1>5, <2>1, <3>1
    <3>3. Min(S) \in S /\ \A m \in S : Min(S) <= m
      BY <3>1, <3>2, MinOfSet
    <3> QED
      BY <3>1, <3>2, <3>3
  <2>4. copied \in Memory
    <3>1. heap[q] \in Seq(Bytes \cup {UNINIT})
      BY <1>1, <2>2 DEF CharInv, MemInv, Stores, Memory
    <3>2. ASSUME NEW i \in offset + 1 .. offset + n
          PROVE  heap[q][i] \in Bytes \cup {UNINIT}
      <4>1. i \in 1 .. size
        BY <2>2, <2>3
      <4> QED
        BY <2>2, <3>1, <4>1, ElementOfSeq
    <3>3. offset + 1 \in Int /\ offset + n \in Int
      BY <2>2, <2>3
    <3> QED
      BY <1>6, <2>1, <3>2, <3>3, SubSeqProperties DEF Memory
  <2>5. PICK c : c = [call[p] EXCEPT !.pc = "return", !.pos = @ + n, !.ret = n, !.got = copied]
    OBVIOUS
  <2>6. call' = [call EXCEPT ![p] = c]
    BY <1>0, <1>9, <2>5 DEF CallInv
  <2>7. call[p].pos + n \in Int
    BY <1>2, <2>3
  <2>8. c \in Calls /\ c.pc = "return" /\ c.pos = call[p].pos + n /\ c.file = call[p].file /\ c.req = call[p].req
    <3>1. PICK pos \in Int : pos = call[p].pos + n
      BY <2>7
    <3>2. c = [[call[p] EXCEPT !.pc = "return", !.pos = pos] EXCEPT !.ret = n, !.got = copied]
      BY <2>5, <3>1
    <3>3. [call[p] EXCEPT !.pc = "return", !.pos = pos] \in Calls
      BY <1>1 DEF Calls
    <3>4. n \in Int /\ copied \in Seq(Bytes \cup {UNINIT})
      BY <2>3, <2>4 DEF Memory
    <3>5. c \in Calls
      BY <3>2, <3>3, <3>4 DEF Calls
    <3> QED
      BY <1>1, <2>5, <3>5 DEF Calls
  <2>9. Sound(c, opened)
    BY <1>0, <1>1, <2>8 DEF Sound
  <2>10. CallStep(p, c)
    BY <1>1, <1>9, <2>6, <2>8, <2>9 DEF CallStep, Holding
  <2>11. off + n <= buf.char_size
    <3>1. buf.char_size \in Nat
      BY <1>0, EntriesAre
    <3> QED
      BY <2>2, <2>3, <3>1
  <2> QED
    BY <1>0, <1>3, <2>2, <2>3, <2>8, <2>10, <2>11
<1> QED
  BY <1>7, <1>8, <1>9

\* The two ways a seeking handler goes on.
LEMMA SeekOrFailStep ==
  ASSUME CallInv, NEW p \in Procs, call[p].pc = "locked", call[p].req.op \in {"llseek", "ioctl"},
         NEW valid \in BOOLEAN, NEW newpos \in Int, SeekOrFail(p, valid, newpos)
  PROVE  \E c \in Calls : /\ CallStep(p, c) /\ ~InLoop(p) /\ c.req = call[p].req
                          /\ \/ c.pc = "return" /\ c.pos = call[p].pos
                             \/ c.pc = "seek" /\ valid /\ c.pos = newpos
<1>1. call[p] \in Calls /\ Sound(call[p], opened) /\ mtx = p /\ call[p].pc \in Holding /\ ~InLoop(p)
  BY CallType DEF Holding, InLoop, At
<1>2. CASE valid
  <2>1. mtx' = mtx /\ call' = [call EXCEPT ![p].pc = "seek", ![p].pos = newpos]
    BY <1>2 DEF SeekOrFail
  <2>2. PICK c : c = [call[p] EXCEPT !.pc = "seek", !.pos = newpos]
    OBVIOUS
  <2>3. c \in Calls /\ c.pc = "seek" /\ c.pos = newpos /\ c.req = call[p].req /\ c.file = call[p].file
    BY <1>1, <2>2 DEF Calls
  <2>4. call' = [call EXCEPT ![p] = c]
    BY <2>1, <2>2 DEF CallInv
  <2>5. Sound(c, opened)
    BY <1>1, <2>3 DEF Sound
  <2> QED
    BY <1>1, <1>2, <2>1, <2>3, <2>4, <2>5 DEF CallStep, Holding
<1>3. CASE ~valid
  <2>1. UnlockAndReturn(p, EINVAL) /\ EINVAL \in Int
    BY <1>3 DEF SeekOrFail, EINVAL
  <2>2. PICK c \in Calls : CallStep(p, c) /\ c.pc = "return" /\ c.pos = call[p].pos
    BY <1>1, <2>1, UnlockReturns
  <2>3. c.req = call[p].req
    <3>1. call' = [call EXCEPT ![p].pc = "return", ![p].ret = EINVAL]
      BY <2>1 DEF UnlockAndReturn, Return
    <3>2. call'[p].req = call[p].req
      BY <3>1 DEF CallInv
    <3>3. call'[p] = c
      BY <2>2 DEF CallStep, CallInv
    <3> QED
      BY <3>2, <3>3
  <2> QED
    BY <1>1, <2>2, <2>3
<1> QED
  BY <1>2, <1>3

\* What a seek under way promises about the buffer b, whose mutex it holds.
Aims(c, b) ==
  c.pc = "seek" =>
    /\ c.req.op = "ioctl" =>
         c.pos >= 0 /\ c.pos = FindFposForEntryOffset(b, c.req.write_cmd, c.req.write_cmd_offset)
    /\ c.req.op = "llseek" => c.pos % SIZE_T <= b.char_size

LEMMA LlseekStep ==
  ASSUME CharInv, NEW p \in Procs, aesd_llseek(p)
  PROVE  \E c \in Calls : /\ CallStep(p, c) /\ ~InLoop(p) /\ c.req = call[p].req /\ c.req.op = "llseek"
                          /\ \/ c.pc = "return" /\ c.pos = call[p].pos
                             \/ /\ c.pc = "seek" /\ Aims(c, buf)
                                /\ c.pos \in {c.req.off, f_pos[call[p].file] + c.req.off,
                                              buf.char_size + c.req.off}
<1>0. CallInv /\ BufInv /\ call[p].pc = "locked" /\ call[p].req.op = "llseek"
  BY DEF CharInv, aesd_llseek, InHandler, At
<1>1. call[p].file \in Files /\ call[p].req \in Requests
  BY <1>0, CallType
<1>2. PICK off \in Int, wh \in Int, pos \in Int, size \in Nat :
        off = call[p].req.off /\ wh = call[p].req.whence /\ pos = f_pos[call[p].file] /\ size = buf.char_size
  <2>1. call[p].req.off \in Int /\ call[p].req.whence \in Int
    BY <1>0, <1>1, RequestsAssumption
  <2> QED
    BY <1>0, <1>1, <2>1, EntriesAre DEF CallInv
<1>3. PICK newpos : newpos = CASE wh = 0 -> off [] wh = 1 -> pos + off [] wh = 2 -> size + off [] OTHER -> -1
  OBVIOUS
<1>4. newpos \in Int /\ (wh \in 0 .. 2 => newpos \in {off, pos + off, size + off})
  BY <1>3
<1>5. PICK valid \in BOOLEAN : valid <=> wh \in 0 .. 2 /\ ~PastEnd(newpos)
  OBVIOUS
<1>6. SeekOrFail(p, valid, newpos)
  BY <1>2, <1>3, <1>5 DEF aesd_llseek, SeekOrFail
<1>7. PICK c \in Calls : /\ CallStep(p, c) /\ ~InLoop(p) /\ c.req = call[p].req
                         /\ \/ c.pc = "return" /\ c.pos = call[p].pos
                            \/ c.pc = "seek" /\ valid /\ c.pos = newpos
  BY <1>0, <1>4, <1>6, SeekOrFailStep
<1>8. ASSUME valid PROVE newpos % SIZE_T <= buf.char_size /\ newpos \in {off, pos + off, size + off}
  <2>1. newpos % SIZE_T \in Int
    BY <1>4, SizeAssumption
  <2> QED
    BY <1>2, <1>4, <1>5, <1>8, <2>1 DEF PastEnd
<1>9. CASE c.pc = "return" /\ c.pos = call[p].pos
  BY <1>0, <1>7, <1>9
<1>10. CASE c.pc = "seek" /\ valid /\ c.pos = newpos
  BY <1>0, <1>2, <1>7, <1>8, <1>10 DEF Aims
<1> QED
  BY <1>7, <1>9, <1>10

LEMMA IoctlStep ==
  ASSUME CharInv, NEW p \in Procs, aesd_ioctl(p)
  PROVE  \E c \in Calls : /\ CallStep(p, c) /\ ~InLoop(p) /\ c.req = call[p].req /\ c.req.op = "ioctl"
                          /\ \/ c.pc = "return" /\ c.pos = call[p].pos
                             \/ c.pc = "seek" /\ Aims(c, buf) /\ c.pos \in 0 .. buf.char_size
<1>0. CallInv /\ BufInv /\ call[p].pc = "locked" /\ call[p].req.op = "ioctl"
  BY DEF CharInv, aesd_ioctl, InHandler, At
<1>1. call[p].req \in Requests
  BY <1>0, CallType
<1>2. PICK k \in Nat, off \in Nat, size \in Nat :
        k = call[p].req.write_cmd /\ off = call[p].req.write_cmd_offset /\ size = buf.char_size
  <2>1. call[p].req.write_cmd \in Nat /\ call[p].req.write_cmd_offset \in Nat
    BY <1>0, <1>1, RequestsAssumption
  <2> QED
    BY <1>0, <2>1, EntriesAre
<1>3. PICK newpos : newpos = FindFposForEntryOffset(buf, k, off)
  OBVIOUS
<1>4. newpos = -1 \/ newpos \in 0 .. size - 1
  BY <1>0, <1>2, <1>3, EntriesAre, FindsFpos
<1>5. PICK valid \in BOOLEAN : valid <=> newpos >= 0
  OBVIOUS
<1>6. SeekOrFail(p, valid, newpos)
  BY <1>2, <1>3, <1>5 DEF aesd_ioctl, SeekOrFail
<1>7. PICK c \in Calls : /\ CallStep(p, c) /\ ~InLoop(p) /\ c.req = call[p].req
                         /\ \/ c.pc = "return" /\ c.pos = call[p].pos
                            \/ c.pc = "seek" /\ valid /\ c.pos = newpos
  BY <1>0, <1>4, <1>6, SeekOrFailStep
<1>8. CASE c.pc = "seek" /\ valid /\ c.pos = newpos
  <2>1. newpos >= 0 /\ newpos \in 0 .. size
    BY <1>4, <1>5, <1>8
  <2> QED
    BY <1>0, <1>2, <1>3, <1>7, <1>8, <2>1 DEF Aims
<1> QED
  BY <1>0, <1>7, <1>8

\* The new position is stored, and the handler returns.
LEMMA StoreSeekStep ==
  ASSUME CallInv, NEW p \in Procs, StoreSeek(p)
  PROVE  \E c \in Calls : CallStep(p, c) /\ c.pc = "return" /\ ~InLoop(p) /\ c.pos = call[p].pos
<1>1. call[p].pc = "seek" /\ call[p].pc \in Holding /\ ~InLoop(p)
  BY DEF StoreSeek, At, InLoop, Holding
<1>2. PICK ret : ret = IF call[p].req.op = "llseek" THEN call[p].pos ELSE 0
  OBVIOUS
<1>3. ret \in Int
  BY <1>2, CallType DEF Calls
<1>4. UnlockAndReturn(p, ret)
  BY <1>2 DEF StoreSeek
<1> QED
  BY <1>1, <1>3, <1>4, UnlockReturns

\* The file positions stay numbers.
LEMMA PositionType ==
  ASSUME CallInv, NEW p \in Procs, StoreSeek(p) \/ Leave(p)
  PROVE  f_pos' \in [Files -> Int]
<1>1. call[p].pos \in Int
  BY CallType DEF Calls
<1> QED
  BY <1>1 DEF StoreSeek, Leave, CallInv

-----------------------------------------------------------------------------
(* The memory.                                                               *)

\* No object is lost or taken twice when one is given back, given out, changed
\* or forgotten.
LEMMA LineFreed ==
  ASSUME NEW b, NEW h, NEW gone, NEW line, Stores(b, h, gone, line),
         NEW h2 \in [Ptrs -> Memory],
         \A q \in Ptrs : h2[q] = IF q \in line THEN <<>> ELSE h[q]
  PROVE  Stores(b, h2, gone, {})
BY DEF Stores

LEMMA LineTaken ==
  ASSUME NEW b, NEW h, NEW gone, Stores(b, h, gone, {}),
         NEW r \in Ptrs, h[r] = <<>>,
         \A i \in SizedSlots(b) : b.entry[i].size \in Nat \ {0},
         NEW h2 \in [Ptrs -> Memory], h2[r] # <<>>, \A q \in Ptrs \ {r} : h2[q] = h[q]
  PROVE  Stores(b, h2, gone, {r})
<1>1. ASSUME NEW i \in SizedSlots(b)
      PROVE  b.entry[i].buffptr # r
  <2>1. Len(<<>>) = 0 /\ b.entry[i].size # 0
    OBVIOUS
  <2> QED
    BY <2>1 DEF Stores
<1>2. r \notin gone
  BY DEF Stores
<1> QED
  BY <1>1, <1>2 DEF Stores

LEMMA LineChanged ==
  ASSUME NEW b, NEW h, NEW gone, NEW r, Stores(b, h, gone, {r}),
         NEW h2 \in [Ptrs -> Memory], h2[r] # <<>>, \A q \in Ptrs \ {r} : h2[q] = h[q]
  PROVE  Stores(b, h2, gone, {r})
BY DEF Stores

LEMMA LineForgotten ==
  ASSUME NEW b, NEW h, NEW gone, NEW line, Stores(b, h, gone, line)
  PROVE  Stores(b, h, gone \cup line, {})
BY DEF Stores

\* The slots with an entry after add_entry, and the memory it returns.
LEMMA AddedSlots ==
  ASSUME BufInv, NEW e \in Entries
  PROVE  LET b2 == AddEntry(buf, e)
         IN  /\ \A i \in SizedSlots(b2) : b2.entry[i] = IF i = buf.in_offs THEN e ELSE buf.entry[i]
             /\ \A i : i \in SizedSlots(b2) <=> i \in SizedSlots(buf) \/ i = buf.in_offs
             /\ OverwrittenPtr(buf) = IF buf.in_offs \in SizedSlots(buf)
                                        THEN buf.entry[buf.in_offs].buffptr ELSE NULL
<1>1. /\ BufferType(buf, Entries) /\ Ring(buf, Entries) /\ buf.in_offs \in Slots
      /\ buf.entry \in [Slots -> Entries \cup {ZeroEntry}]
  BY EntriesAre, FieldTypes
<1>2. PICK b2 : b2 = AddEntry(buf, e)
  OBVIOUS
<1>3. b2.entry = [buf.entry EXCEPT ![buf.in_offs] = e]
  BY <1>2, AddFields
<1>4. \A i \in Slots : b2.entry[i] = IF i = buf.in_offs THEN e ELSE buf.entry[i]
  BY <1>1, <1>3
<1>5. e.size > 0
  BY DEF Entries
<1>6. \A i : i \in SizedSlots(b2) <=> i \in SizedSlots(buf) \/ i = buf.in_offs
  BY <1>1, <1>4, <1>5 DEF SizedSlots
<1>7. OverwrittenPtr(buf) = IF buf.in_offs \in SizedSlots(buf) THEN buf.entry[buf.in_offs].buffptr ELSE NULL
  <2>1. CASE buf.full
    <3>1. Overwrites(buf) /\ buf.in_offs = buf.out_offs
      BY <1>1, <2>1, FullContents DEF Ring
    <3>2. buf.entry[buf.in_offs] \in Entries
      BY <1>1, <2>1 DEF Ring
    <3>3. buf.in_offs \in SizedSlots(buf)
      BY <1>1, <3>2 DEF SizedSlots, Entries
    <3> QED
      BY <3>1, <3>3 DEF OverwrittenPtr
  <2>2. CASE ~buf.full
    <3>1. ~Overwrites(buf)
      BY <1>1, <2>2, PartContents
    <3>2. ~(buf.in_offs < buf.in_offs)
      BY <1>1, MaxAssumption DEF Slots
    <3>3. buf.entry[buf.in_offs] = ZeroEntry
      BY <1>1, <2>2, <3>2 DEF Ring
    <3>4. buf.in_offs \notin SizedSlots(buf)
      BY <3>3 DEF SizedSlots, ZeroEntry
    <3> QED
      BY <3>1, <3>4 DEF OverwrittenPtr
  <2> QED
    BY <2>1, <2>2
<1>8. SizedSlots(b2) \subseteq Slots
  BY DEF SizedSlots
<1> QED
  BY <1>2, <1>4, <1>6, <1>7, <1>8

\* The heap h once the line is copied into the object q, and the objects old and r
\* are freed.
Stored(h, q, line, r, old, h2) ==
  /\ h2 \in [Ptrs -> Memory]
  /\ \A s \in Ptrs : h2[s] = IF s = r \/ s = old THEN <<>> ELSE IF s = q THEN line ELSE h[s]

\* A finished line gets an object of its own; the line buffer and the entry it
\* overwrites are given back.
LEMMA LineStored ==
  ASSUME BufInv, NEW h, NEW gone, NEW r, Stores(buf, h, gone, {r}), NULL \notin Ptrs,
         NEW q \in Ptrs, h[q] = <<>>, NEW line \in Memory, Len(line) > 0,
         NEW e \in Entries, e.buffptr = q, e.size = Len(line),
         NEW h2, Stored(h, q, line, r, OverwrittenPtr(buf), h2)
  PROVE  Stores(AddEntry(buf, e), h2, gone, {})
<1>0. /\ h2 \in [Ptrs -> Memory]
      /\ \A s \in Ptrs : h2[s] = IF s = r \/ s = OverwrittenPtr(buf) THEN <<>>
                                 ELSE IF s = q THEN line ELSE h[s]
  BY DEF Stored
<1>1. PICK b2, in, old : b2 = AddEntry(buf, e) /\ in = buf.in_offs /\ old = OverwrittenPtr(buf)
  OBVIOUS
<1>2. /\ \A i \in SizedSlots(b2) : b2.entry[i] = IF i = in THEN e ELSE buf.entry[i]
      /\ \A i : i \in SizedSlots(b2) <=> i \in SizedSlots(buf) \/ i = in
      /\ old = IF in \in SizedSlots(buf) THEN buf.entry[in].buffptr ELSE NULL
  BY <1>1, AddedSlots
<1>3. \A i \in SizedSlots(buf) : buf.entry[i].size \in Nat \ {0}
  BY EntriesAre
<1>4. q # r /\ q # old /\ q \notin gone /\ \A i \in SizedSlots(buf) : buf.entry[i].buffptr # q
  <2>1. q # r /\ q \notin gone
    BY DEF Stores
  <2>2. ASSUME NEW i \in SizedSlots(buf)
        PROVE  buf.entry[i].buffptr # q
    <3>1. Len(<<>>) = 0 /\ buf.entry[i].size # 0
      BY <1>3
    <3> QED
      BY <3>1 DEF Stores
  <2> QED
    BY <1>2, <2>1, <2>2
<1>5. line # <<>>
  OBVIOUS
<1>6. ASSUME NEW i \in SizedSlots(buf), i # in
      PROVE  /\ buf.entry[i].buffptr \in Ptrs \ gone
             /\ h2[buf.entry[i].buffptr] = h[buf.entry[i].buffptr]
  BY <1>0, <1>1, <1>2, <1>4, <1>6 DEF Stores
<1>7. h2[q] = line
  BY <1>0, <1>1, <1>4
<1>8. ASSUME NEW i \in SizedSlots(b2)
      PROVE  /\ b2.entry[i].buffptr \in Ptrs \ gone
             /\ Len(h2[b2.entry[i].buffptr]) = b2.entry[i].size
             /\ \A j \in SizedSlots(b2) : b2.entry[j].buffptr = b2.entry[i].buffptr => j = i
  <2>1. CASE i = in
    BY <1>2, <1>4, <1>7, <2>1
  <2>2. CASE i # in
    BY <1>2, <1>4, <1>6, <2>2 DEF Stores
  <2> QED
    BY <2>1, <2>2
<1>9. \A s \in gone : h2[s] # <<>>
  BY <1>0, <1>1, <1>2, <1>4 DEF Stores
<1>10. ASSUME NEW s \in Ptrs, h2[s] # <<>>, s \notin gone
       PROVE  \E i \in SizedSlots(b2) : b2.entry[i].buffptr = s
  <2>1. CASE s = q
    BY <1>2, <2>1
  <2>2. CASE s # q
    <3>1. h[s] # <<>> /\ s # r /\ s # old
      BY <1>0, <1>1, <1>10, <2>2
    <3>2. PICK i \in SizedSlots(buf) : buf.entry[i].buffptr = s
      BY <1>10, <3>1 DEF Stores
    <3> QED
      BY <1>2, <3>1, <3>2
  <2> QED
    BY <2>1, <2>2
<1>11. gone \subseteq Ptrs
  BY DEF Stores
<1> QED
  BY <1>0, <1>1, <1>8, <1>9, <1>10, <1>11 DEF Stores

-----------------------------------------------------------------------------
(* Writes.                                                                   *)

\* An object keeps its bytes when it gets longer.
KeepsBytes(old, new) == \A i \in 1 .. Len(new) : i <= Len(old) => new[i] = old[i]

\* The allocator's calls.
LEMMA KreallocIs ==
  ASSUME NEW h \in [Ptrs -> Memory], NEW old \in Ptrs \cup {NULL}, NEW q \in Ptrs, NEW size \in Nat
  PROVE  /\ krealloc(h, old, q, size) \in [Ptrs -> Memory] /\ Len(krealloc(h, old, q, size)[q]) = size
         /\ \A r \in Ptrs \ {q} : krealloc(h, old, q, size)[r] = IF r = old THEN <<>> ELSE h[r]
         /\ old # NULL => KeepsBytes(h[old], krealloc(h, old, q, size)[q])
<1>1. NULL \notin Ptrs
  BY ModelValuesAssumption
<1>2. PICK kept : kept = IF old = NULL THEN <<>> ELSE h[old]
  OBVIOUS
<1>3. kept \in Memory
  BY <1>2 DEF Memory
<1>4. PICK new : new = [i \in 1 .. size |-> IF i <= Len(kept) THEN kept[i] ELSE UNINIT]
  OBVIOUS
<1>5. new \in Memory /\ Len(new) = size
  <2>1. ASSUME NEW i \in 1 .. size
        PROVE  (IF i <= Len(kept) THEN kept[i] ELSE UNINIT) \in Bytes \cup {UNINIT}
    <3>1. CASE i <= Len(kept)
      <4>1. Len(kept) \in Nat
        BY <1>3, LenProperties DEF Memory
      <4>2. i \in 1 .. Len(kept)
        BY <3>1, <4>1
      <4>3. kept[i] \in Bytes \cup {UNINIT}
        BY <1>3, <4>2, ElementOfSeq DEF Memory
      <4> QED
        BY <3>1, <4>3
    <3> QED
      BY <3>1
  <2>2. new \in [1 .. size -> Bytes \cup {UNINIT}]
    BY <1>4, <2>1
  <2> QED
    BY <2>2 DEF Memory
<1>6. kfree(h, old) \in [Ptrs -> Memory] /\ \A r \in Ptrs : kfree(h, old)[r] = IF r = old THEN <<>> ELSE h[r]
  <2>1. <<>> \in Memory
    BY DEF Memory
  <2> QED
    BY <1>1, <2>1 DEF kfree
<1>7. krealloc(h, old, q, size) = [kfree(h, old) EXCEPT ![q] = new]
  BY <1>2, <1>4 DEF krealloc
<1>8. old # NULL => KeepsBytes(h[old], new)
  BY <1>2, <1>4, <1>5 DEF KeepsBytes
<1> QED
  BY <1>5, <1>6, <1>7, <1>8

\* A new object.
LEMMA KmallocIs ==
  ASSUME NEW h \in [Ptrs -> Memory], NEW q \in Ptrs, NEW size \in Nat
  PROVE  /\ kmalloc(h, q, size) \in [Ptrs -> Memory] /\ Len(kmalloc(h, q, size)[q]) = size
         /\ \A r \in Ptrs \ {q} : kmalloc(h, q, size)[r] = h[r]
<1>1. [i \in 1 .. size |-> UNINIT] \in Memory /\ Len([i \in 1 .. size |-> UNINIT]) = size
  BY DEF Memory
<1> QED
  BY <1>1 DEF kmalloc

\* The object of the unfinished line, for a process that has the mutex.
LEMMA LineOf ==
  ASSUME CharInv, NEW p \in Procs, call[p].pc \in Holding
  PROVE  /\ InLoop(p) => LinePtrs = {line_buf}
         /\ ~InLoop(p) => LinePtrs = IF line_len > 0 THEN {line_buf} \ {NULL} ELSE {}
         /\ loaded /\ NULL \notin Ptrs
<1>1. ASSUME NEW q \in Procs, InLoop(q)
      PROVE  q = p
  <2>1. mtx = p /\ mtx = q
    BY <1>1, OneLoop, CallType DEF CharInv
  <2> QED
    BY <2>1
<1>2. loaded /\ NULL \notin Ptrs
  BY CallType DEF CharInv, Holding
<1>3. InLoop(p) => line_buf # NULL
  BY <1>2 DEF CharInv, MemInv
<1> QED
  BY <1>1, <1>2, <1>3 DEF LinePtrs

\* After the step of a process that has the mutex.
LEMMA LineAfter ==
  ASSUME CharInv, NEW p \in Procs, call[p].pc \in Holding, NEW c, CallStep(p, c),
         UNCHANGED <<loaded, opened>>, f_pos' \in [Files -> Int], line_buf' \in Ptrs \cup {NULL}
  PROVE  /\ \A q \in Procs : InLoop(q)' => q = p
         /\ call'[p] = c
         /\ IF c.pc = "loop" /\ c.bytes_written < Len(c.req.data)
              THEN InLoop(p)' /\ LinePtrs' = {line_buf'} \ {NULL}
              ELSE ~InLoop(p)' /\ LinePtrs' = IF line_len' > 0 THEN {line_buf'} \ {NULL} ELSE {}
<1>1. /\ \A q \in Procs : q # p => (InLoop(q)' <=> InLoop(q))
      /\ call'[p] = c
      /\ InLoop(p)' <=> c.pc = "loop" /\ c.bytes_written < Len(c.req.data)
  BY LoopsKept DEF CharInv
<1>2. \A q \in Procs : InLoop(q) => q = p
  BY OneLoop, CallType DEF CharInv
<1> QED
  BY <1>1, <1>2 DEF LinePtrs

\* The write loop begins, with room for all of the data behind what the line
\* holds already.
LEMMA WriteStarts ==
  ASSUME CharInv, NEW p \in Procs, aesd_write(p)
  PROVE  /\ CharInv'
         /\ \E c \in Calls : CallStep(p, c) /\ c.pc = "loop" /\ c.pos = call[p].pos
<1>0. CallInv /\ BufInv /\ MemInv /\ call[p].pc = "locked" /\ call[p].req.op = "write" /\ call[p].pc \in Holding /\ ~InLoop(p)
  BY DEF CharInv, aesd_write, InHandler, At, InLoop, Holding
<1>1. /\ loaded /\ NULL \notin Ptrs /\ mtx = p
      /\ LinePtrs = IF line_len > 0 THEN {line_buf} \ {NULL} ELSE {}
      /\ Stores(buf, heap, lost, LinePtrs)
  BY <1>0, LineOf, CallType DEF MemInv
<1>2. PICK count \in Nat \ {0} : count = Len(call[p].req.data) /\ call[p].req.data \in Seq(Bytes)
  <2>1. call[p].req.data \in Seq(Bytes) /\ call[p].req.data # <<>>
    BY <1>0, CallType DEF Sound
  <2>2. Len(call[p].req.data) \in Nat \ {0}
    BY <2>1
  <2> QED
    BY <2>1, <2>2
<1>3. Goto(p, "loop") /\ UNCHANGED <<loaded, opened, f_pos, mtx, buf, line_len, lost>>
  BY DEF aesd_write
<1>4. PICK c \in Calls : /\ call' = [call EXCEPT ![p] = c]
                         /\ c.pc = "loop" /\ c.bytes_written = call[p].bytes_written
                         /\ c.file = call[p].file /\ c.req = call[p].req /\ c.pos = call[p].pos
  BY <1>0, <1>3, GotoIs
<1>5. c.bytes_written = 0 /\ Sound(c, opened)
  BY <1>0, <1>2, <1>4, CallType DEF Sound
<1>6. CallStep(p, c)
  BY <1>1, <1>3, <1>4, <1>5 DEF CallStep, Holding
<1>7. line_len \in Nat /\ line_buf \in Ptrs \cup {NULL} /\ heap \in [Ptrs -> Memory] /\ lost \subseteq Ptrs
  BY <1>0, <1>1 DEF MemInv, Stores
<1>8. PICK q \in Ptrs, size \in Nat :
        /\ line_buf' = q /\ size = line_len + count
        /\ heap' \in [Ptrs -> Memory] /\ Len(heap'[q]) = size
        /\ Stores(buf, heap', lost, {q})
  <2>0. \A i \in SizedSlots(buf) : buf.entry[i].size \in Nat \ {0}
    BY <1>0, EntriesAre
  <2>1. CASE line_len > 0
    <3>1. PICK q \in FreePtrs(heap) \cup ({line_buf} \ {NULL}) :
            heap' = krealloc(heap, line_buf, q, WidenedSize(count)) /\ line_buf' = q
      BY <1>2, <2>1 DEF aesd_write
    <3>2. PICK size \in Nat : size = line_len + count /\ size = WidenedSize(count) /\ size > 0
      BY <1>2, <1>7 DEF WidenedSize
    <3>3. q \in Ptrs /\ (q # line_buf => heap[q] = <<>>)
      BY <1>7, <3>1 DEF FreePtrs
    <3>4. /\ heap' \in [Ptrs -> Memory] /\ Len(heap'[q]) = size
          /\ \A r \in Ptrs \ {q} : heap'[r] = IF r = line_buf THEN <<>> ELSE heap[r]
      <4>1. PICK h2 : h2 = krealloc(heap, line_buf, q, size)
        OBVIOUS
      <4>2. heap' = h2
        BY <3>1, <3>2, <4>1
      <4>3. /\ h2 \in [Ptrs -> Memory] /\ Len(h2[q]) = size
            /\ \A r \in Ptrs \ {q} : h2[r] = IF r = line_buf THEN <<>> ELSE heap[r]
        <5>1. /\ krealloc(heap, line_buf, q, size) \in [Ptrs -> Memory]
              /\ Len(krealloc(heap, line_buf, q, size)[q]) = size
              /\ \A r \in Ptrs \ {q} :
                   krealloc(heap, line_buf, q, size)[r] = IF r = line_buf THEN <<>> ELSE heap[r]
          <6>1. PICK h \in [Ptrs -> Memory], old \in Ptrs \cup {NULL}, new \in Ptrs :
                  h = heap /\ old = line_buf /\ new = q
            BY <1>7, <3>3
          <6>2. /\ krealloc(h, old, new, size) \in [Ptrs -> Memory]
                /\ Len(krealloc(h, old, new, size)[new]) = size
                /\ \A r \in Ptrs \ {new} : krealloc(h, old, new, size)[r] = IF r = old THEN <<>> ELSE h[r]
            BY KreallocIs
          <6> QED
            BY <6>1, <6>2
        <5> QED
          BY <4>1, <5>1
      <4> QED
        BY <4>2, <4>3
    <3>5. PICK h : h = [r \in Ptrs |-> IF r \in LinePtrs THEN <<>> ELSE heap[r]]
      OBVIOUS
    <3>6. h \in [Ptrs -> Memory] /\ \A r \in Ptrs : h[r] = IF r \in LinePtrs THEN <<>> ELSE heap[r]
      <4>1. <<>> \in Memory
        BY DEF Memory
      <4> QED
        BY <1>7, <3>5, <4>1
    <3>7. Stores(buf, h, lost, {})
      BY <1>1, <3>6, LineFreed
    <3>8. h[q] = <<>> /\ \A r \in Ptrs \ {q} : heap'[r] = h[r]
      BY <1>1, <2>1, <3>3, <3>4, <3>6
    <3>9. PICK h2 \in [Ptrs -> Memory] : h2 = heap' /\ h2[q] # <<>> /\ \A r \in Ptrs \ {q} : h2[r] = h[r]
      BY <3>2, <3>4, <3>8
    <3>10. Stores(buf, h2, lost, {q})
      BY <2>0, <3>3, <3>7, <3>8, <3>9, LineTaken
    <3> QED
      BY <3>1, <3>2, <3>3, <3>4, <3>9, <3>10
  <2>2. CASE ~(line_len > 0)
    <3>1. line_len = 0
      BY <1>7, <2>2
    <3>2. PICK q \in FreePtrs(heap) : heap' = kmalloc(heap, q, count) /\ line_buf' = q
      BY <1>2, <2>2 DEF aesd_write
    <3>3. q \in Ptrs /\ heap[q] = <<>> /\ count \in Nat
      BY <3>2 DEF FreePtrs
    <3>4. /\ heap' \in [Ptrs -> Memory] /\ Len(heap'[q]) = count
          /\ \A r \in Ptrs \ {q} : heap'[r] = heap[r]
      BY <1>7, <3>2, <3>3, KmallocIs
    <3>5. PICK h2 \in [Ptrs -> Memory] : h2 = heap' /\ h2[q] # <<>> /\ \A r \in Ptrs \ {q} : h2[r] = heap[r]
      BY <3>4
    <3>6. Stores(buf, heap, lost, {})
      BY <1>1, <2>2
    <3>7. Stores(buf, h2, lost, {q})
      BY <2>0, <3>3, <3>5, <3>6, LineTaken
    <3>8. count = line_len + count
      BY <3>1
    <3> QED
      BY <3>2, <3>3, <3>4, <3>5, <3>7, <3>8
  <2> QED
    BY <2>1, <2>2
<1>9. c.req = call[p].req /\ c.bytes_written < Len(c.req.data)
  BY <1>2, <1>4, <1>5
<1>10. /\ \A r \in Procs : InLoop(r)' => r = p
       /\ call'[p] = c /\ LinePtrs' = {q}
  <2>1. f_pos' \in [Files -> Int] /\ line_buf' \in Ptrs \cup {NULL} /\ q # NULL
    BY <1>0, <1>1, <1>3, <1>8 DEF CallInv
  <2> QED
    BY <1>0, <1>3, <1>4, <1>6, <1>8, <1>9, <2>1, LineAfter DEF CharInv
<1>11. CallInv'
  BY <1>0, <1>3, <1>6, CallStepKeeps DEF CallInv
<1>12. MemInv'
  <2>1. Len(heap'[q]) >= line_len /\ Len(heap'[q]) >= line_len + (Len(c.req.data) - c.bytes_written)
    BY <1>2, <1>4, <1>5, <1>7, <1>8
  <2> QED
    BY <1>1, <1>3, <1>7, <1>8, <1>10, <2>1 DEF MemInv
<1>13. BufInv'
  BY <1>0, <1>3 DEF BufInv
<1> QED
  BY <1>4, <1>6, <1>11, <1>12, <1>13 DEF CharInv

\* The write fails before its loop: krealloc's old object is lost.
LEMMA NoRoom ==
  ASSUME CharInv, NEW p \in Procs, aesd_write_no_room(p)
  PROVE  /\ CharInv'
         /\ \E c \in Calls : CallStep(p, c) /\ c.pc = "return" /\ c.pos = call[p].pos
<1>0. CallInv /\ BufInv /\ MemInv /\ call[p].pc = "locked" /\ call[p].pc \in Holding /\ ~InLoop(p)
  BY DEF CharInv, aesd_write_no_room, InHandler, At, InLoop, Holding
<1>1. /\ loaded /\ NULL \notin Ptrs
      /\ LinePtrs = IF line_len > 0 THEN {line_buf} \ {NULL} ELSE {}
      /\ Stores(buf, heap, lost, LinePtrs)
  BY <1>0, LineOf, CallType DEF MemInv
<1>2. UNCHANGED <<loaded, opened, f_pos, buf, line_len, heap>> /\ line_buf' = NULL /\ UnlockAndReturn(p, ENOMEM)
  BY DEF aesd_write_no_room
<1>3. PICK c \in Calls : CallStep(p, c) /\ c.pc = "return" /\ c.pos = call[p].pos
  BY <1>0, <1>2, UnlockReturns DEF ENOMEM
<1>4. lost' = lost \cup LinePtrs
  <2>1. CASE line_len > 0
    BY <1>1, <2>1 DEF aesd_write_no_room
  <2>2. CASE ~(line_len > 0)
    BY <1>1, <2>2 DEF aesd_write_no_room
  <2> QED
    BY <2>1, <2>2
<1>5. Stores(buf, heap, lost \cup LinePtrs, {})
  BY <1>1, LineForgotten
<1>6. (\A q \in Procs : ~InLoop(q)') /\ LinePtrs' = {}
  BY <1>0, <1>2, <1>3, LineAfter DEF CharInv, CallInv
<1>7. CallInv'
  BY <1>0, <1>2, <1>3, CallStepKeeps DEF CallInv
<1>8. MemInv'
  BY <1>0, <1>1, <1>2, <1>4, <1>5, <1>6 DEF MemInv
<1>9. BufInv'
  BY <1>0, <1>2 DEF BufInv
<1> QED
  BY <1>3, <1>7, <1>8, <1>9 DEF CharInv

\* In the loop there is room for the next byte.
LEMMA FetchedIs ==
  ASSUME CharInv, NEW p \in Procs, InLoop(p), NEW byte \in Bytes
  PROVE  /\ Fetched(byte) \in [Ptrs -> Memory]
         /\ line_len + 1 \in 1 .. Len(heap[line_buf])
         /\ Len(Fetched(byte)[line_buf]) = Len(heap[line_buf])
         /\ \A i \in 1 .. Len(heap[line_buf]) :
              Fetched(byte)[line_buf][i] = IF i = line_len + 1 THEN byte ELSE heap[line_buf][i]
         /\ \A q \in Ptrs \ {line_buf} : Fetched(byte)[q] = heap[q]
<1>1. CallInv /\ MemInv
  BY DEF CharInv
<1>2. PICK left \in Nat : left = Len(call[p].req.data) - call[p].bytes_written /\ left > 0
  BY <1>1, OneLoop
<1>3. loaded /\ line_buf \in Ptrs /\ line_len \in Nat /\ heap \in [Ptrs -> Memory]
      /\ Len(heap[line_buf]) >= line_len + left
  BY <1>1, <1>2, OneLoop DEF MemInv, Stores
<1>4. PICK old \in Memory : old = heap[line_buf]
  BY <1>3
<1>5. PICK len \in Nat : len = Len(old) /\ DOMAIN old = 1 .. len /\ old \in [1 .. len -> Bytes \cup {UNINIT}]
  BY LenProperties DEF Memory
<1>6. line_len + 1 \in 1 .. len
  BY <1>2, <1>3, <1>4, <1>5
<1>7. PICK new : new = [old EXCEPT ![line_len + 1] = byte]
  OBVIOUS
<1>8. new \in [1 .. len -> Bytes \cup {UNINIT}] /\ \A i \in 1 .. len : new[i] = IF i = line_len + 1 THEN byte ELSE old[i]
  BY <1>5, <1>6, <1>7
<1>9. new \in Memory /\ Len(new) = len
  BY <1>8 DEF Memory
<1>10. Fetched(byte) = [heap EXCEPT ![line_buf] = new]
  BY <1>4, <1>7 DEF Fetched
<1>11. Fetched(byte)[line_buf] = new /\ Fetched(byte) \in [Ptrs -> Memory]
  BY <1>3, <1>9, <1>10
<1>12. \A q \in Ptrs \ {line_buf} : Fetched(byte)[q] = heap[q]
  BY <1>3, <1>10
<1> QED
  BY <1>4, <1>5, <1>6, <1>8, <1>9, <1>11, <1>12

\* A byte is stored behind the line, whether the loop goes on or ends with an error.
LEMMA ByteStored ==
  ASSUME CharInv, NEW p \in Procs, InLoop(p), NEW byte \in Bytes,
         heap' = Fetched(byte), line_len' = line_len + 1,
         UNCHANGED <<loaded, opened, f_pos, buf, line_buf, lost>>,
         NEW c \in Calls, CallStep(p, c),
         \/ c.pc = "return"
         \/ c.pc = "loop" /\ c.req = call[p].req /\ c.bytes_written = call[p].bytes_written + 1
  PROVE  CharInv'
<1>0. CallInv /\ BufInv /\ MemInv /\ call[p].pc \in Holding
  BY DEF CharInv, InLoop, At, Holding
<1>1. /\ loaded /\ NULL \notin Ptrs /\ LinePtrs = {line_buf}
      /\ Stores(buf, heap, lost, {line_buf})
  BY <1>0, LineOf, OneLoop DEF MemInv
<1>2. PICK n \in Nat, done \in Nat, len \in Nat, size \in Nat :
        /\ n = Len(call[p].req.data) /\ done = call[p].bytes_written /\ done < n
        /\ len = line_len /\ size = Len(heap[line_buf])
  <2>1. line_buf \in Ptrs /\ heap[line_buf] \in Memory /\ line_len \in Nat
    BY <1>0, <1>1 DEF MemInv, Stores
  <2>2. Len(heap[line_buf]) \in Nat
    BY <2>1, LenProperties DEF Memory
  <2> QED
    BY <1>0, <2>1, <2>2, OneLoop
<1>3. line_buf \in Ptrs /\ size >= len + (n - done)
  BY <1>0, <1>2 DEF MemInv
<1>4. PICK h2 \in [Ptrs -> Memory] :
        /\ h2 = heap' /\ Len(h2[line_buf]) = size /\ \A q \in Ptrs \ {line_buf} : h2[q] = heap[q]
  BY <1>2, FetchedIs
<1>5. size > 0 /\ h2[line_buf] # <<>>
  <2>1. n - done > 0
    BY <1>2
  <2>2. size > 0
    BY <1>3, <2>1
  <2>3. Len(h2[line_buf]) = size
    BY <1>4
  <2>4. Len(<<>>) = 0
    OBVIOUS
  <2>5. h2[line_buf] # <<>>
    BY <2>2, <2>3, <2>4
  <2> QED
    BY <2>2, <2>5
<1>6. Stores(buf, h2, lost, {line_buf})
  BY <1>1, <1>4, <1>5, LineChanged
<1>7. /\ \A q \in Procs : InLoop(q)' => q = p
      /\ call'[p] = c
      /\ InLoop(p)' => c.pc = "loop"
      /\ LinePtrs' = {line_buf}
  <2>1. line_len' > 0
    BY <1>2
  <2>2. {line_buf} \ {NULL} = {line_buf} /\ line_buf \in Ptrs \cup {NULL}
    BY <1>1, <1>3
  <2>3. f_pos' \in [Files -> Int]
    BY <1>0 DEF CallInv
  <2>4. /\ \A q \in Procs : InLoop(q)' => q = p
        /\ call'[p] = c
        /\ IF c.pc = "loop" /\ c.bytes_written < Len(c.req.data)
             THEN InLoop(p)' /\ LinePtrs' = {line_buf'} \ {NULL}
             ELSE ~InLoop(p)' /\ LinePtrs' = IF line_len' > 0 THEN {line_buf'} \ {NULL} ELSE {}
    BY <1>0, <2>2, <2>3, LineAfter
  <2>5. LinePtrs' = {line_buf'} \ {NULL}
    BY <2>1, <2>4
  <2>6. LinePtrs' = {line_buf}
    BY <2>2, <2>5
  <2>7. InLoop(p)' => c.pc = "loop"
    BY <2>4
  <2> QED
    BY <2>4, <2>6, <2>7
<1>8. CallInv'
  BY <1>0, CallStepKeeps DEF CallInv
<1>9. MemInv'
  <2>1. size >= len + 1
    <3>1. n - done >= 1
      BY <1>2
    <3>2. size >= len + (n - done)
      BY <1>3
    <3> QED
      BY <3>1, <3>2
  <2>2. c.pc = "loop" => size >= (len + 1) + (Len(c.req.data) - c.bytes_written)
    <3>0. size >= len + (n - done)
      BY <1>3
    <3>1. size >= (len + 1) + (n - (done + 1))
      BY <3>0
    <3> QED
      BY <1>2, <3>1
  <2>3. line_len' = len + 1 /\ line_len' \in Nat /\ heap' = h2 /\ Len(heap'[line_buf]) = size
    BY <1>2, <1>4
  <2>4. Stores(buf', heap', lost', LinePtrs')
    BY <1>6, <1>7, <2>3
  <2>5. ASSUME NEW q \in Procs, InLoop(q)'
        PROVE  line_buf' \in Ptrs /\ Len(heap'[line_buf']) >= line_len' + (Len(call'[q].req.data) - call'[q].bytes_written)
    BY <1>3, <1>7, <2>2, <2>3, <2>5
  <2> QED
    BY <1>1, <1>3, <2>1, <2>3, <2>4, <2>5 DEF MemInv
<1>10. BufInv'
  BY <1>0 DEF BufInv
<1> QED
  BY <1>8, <1>9, <1>10 DEF CharInv

\* get_user fails, or the entry's kmalloc.
LEMMA ByteFails ==
  ASSUME CharInv, NEW p \in Procs, aesd_write_fault(p) \/ aesd_write_no_entry(p)
  PROVE  /\ CharInv'
         /\ \E c \in Calls : CallStep(p, c) /\ c.pc = "return" /\ c.pos = call[p].pos
<1>0. CallInv /\ InLoop(p) /\ call[p].pc \in Holding
  BY DEF CharInv, aesd_write_fault, aesd_write_no_entry, InLoop, At, Holding
<1>1. PICK byte \in Bytes, ret \in Int : heap' = Fetched(byte) /\ UnlockAndReturn(p, ret)
  BY ModelValuesAssumption DEF aesd_write_fault, aesd_write_no_entry, EFAULT, ENOMEM
<1>2. PICK c \in Calls : CallStep(p, c) /\ c.pc = "return" /\ c.pos = call[p].pos
  BY <1>0, <1>1, UnlockReturns
<1>3. line_len' = line_len + 1 /\ UNCHANGED <<loaded, opened, f_pos, buf, line_buf, lost>>
  BY DEF aesd_write_fault, aesd_write_no_entry
<1> QED
  BY <1>0, <1>1, <1>2, <1>3, ByteStored

\* What one more byte taken leaves in the call.
LEMMA ByteTaken ==
  ASSUME CallInv, NEW p \in Procs, InLoop(p), call' = [call EXCEPT ![p].bytes_written = @ + 1], mtx' = mtx
  PROVE  \E c \in Calls : /\ CallStep(p, c) /\ c.pc = "loop" /\ c.req = call[p].req /\ c.pos = call[p].pos
                          /\ c.bytes_written = call[p].bytes_written + 1
<1>0. PICK done \in Nat, len \in Nat : done = call[p].bytes_written /\ len = Len(call[p].req.data) /\ done < len
  BY OneLoop
<1>1. PICK n \in Nat : n = call[p].bytes_written + 1 /\ n <= Len(call[p].req.data)
  <2>1. done + 1 \in Nat /\ done + 1 <= len
    BY <1>0
  <2> QED
    BY <1>0, <2>1
<1>2. PICK c : c = [call[p] EXCEPT !.bytes_written = n]
  OBVIOUS
<1>3. call[p] \in Calls /\ Sound(call[p], opened) /\ call[p].pc = "loop" /\ mtx = p
  BY OneLoop, CallType DEF InLoop, At
<1>4. /\ c \in Calls /\ c.pc = "loop" /\ c.req = call[p].req /\ c.pos = call[p].pos
      /\ c.file = call[p].file /\ c.bytes_written = n
  BY <1>2, <1>3 DEF Calls
<1>5. call' = [call EXCEPT ![p] = c]
  BY <1>1, <1>2 DEF CallInv
<1>6. Sound(c, opened)
  BY <1>1, <1>3, <1>4 DEF Sound
<1> QED
  BY <1>1, <1>3, <1>4, <1>5, <1>6 DEF CallStep, Holding

LEMMA NextByteType ==
  ASSUME CallInv, NEW p \in Procs, InLoop(p)
  PROVE  NextByte(p) \in Bytes
<1>1. /\ call[p].req.data \in Seq(Bytes)
      /\ call[p].bytes_written + 1 \in 1 .. Len(call[p].req.data)
  BY OneLoop
<1> QED
  BY <1>1, ElementOfSeq DEF NextByte

\* A byte inside a line.
LEMMA ByteInside ==
  ASSUME CharInv, NEW p \in Procs, aesd_write_byte(p)
  PROVE  /\ CharInv'
         /\ \E c \in Calls : CallStep(p, c) /\ c.pc = "loop" /\ c.pos = call[p].pos
<1>0. CallInv /\ InLoop(p) /\ NextByte(p) \in Bytes
  BY NextByteType DEF CharInv, aesd_write_byte
<1>1. PICK c \in Calls : /\ CallStep(p, c) /\ c.pc = "loop" /\ c.req = call[p].req /\ c.pos = call[p].pos
                         /\ c.bytes_written = call[p].bytes_written + 1
  BY <1>0, ByteTaken DEF aesd_write_byte
<1> QED
  BY <1>0, <1>1, ByteStored DEF aesd_write_byte
\* What the copy and the frees at the end of a line do.
LEMMA HeapStored ==
  ASSUME NEW h \in [Ptrs -> Memory], NEW q \in Ptrs, NEW line \in Memory, NEW r \in Ptrs,
         NEW old \in Ptrs \cup {NULL}, NEW h2, h2 = kfree(kfree([h EXCEPT ![q] = line], old), r)
  PROVE  Stored(h, q, line, r, old, h2)
<1>1. NULL \notin Ptrs /\ <<>> \in Memory
  BY ModelValuesAssumption DEF Memory
<1>2. PICK h1 : h1 = [h EXCEPT ![q] = line]
  OBVIOUS
<1>3. h1 \in [Ptrs -> Memory] /\ \A s \in Ptrs : h1[s] = IF s = q THEN line ELSE h[s]
  BY <1>2
<1>4. PICK h3 : h3 = kfree(h1, old)
  OBVIOUS
<1>5. h3 \in [Ptrs -> Memory] /\ \A s \in Ptrs : h3[s] = IF s = old THEN <<>> ELSE h1[s]
  BY <1>1, <1>3, <1>4 DEF kfree
<1>6. h2 = kfree(h3, r)
  BY <1>2, <1>4
<1>7. h2 \in [Ptrs -> Memory] /\ \A s \in Ptrs : h2[s] = IF s = r THEN <<>> ELSE h3[s]
  BY <1>1, <1>5, <1>6 DEF kfree
<1> QED
  BY <1>3, <1>5, <1>7 DEF Stored

\* What the end of a line does: h is the heap with the newline stored, e the new
\* entry and q its object, which holds the line, and h2 what the frees leave.
Completes(p, h, q, line, e, h2) ==
  /\ h = Fetched(NL) /\ q \in FreePtrs(heap) /\ h[q] = <<>>
  /\ line = EntryCopy(h[line_buf], line_len + 1) /\ Len(line) = line_len + 1
  /\ e.buffptr = q /\ e.size = line_len + 1 /\ buf' = AddEntry(buf, e)
  /\ Stored(h, q, line, line_buf, OverwrittenPtr(buf), h2)
  /\ line_len' = 0

\* And what it does with the rest of the data, of which left bytes remain.
GoesOn(p, left, h2) ==
  \/ /\ left = 0
     /\ heap' = h2
     /\ call' = [call EXCEPT ![p].bytes_written = @ + 1]
     /\ UNCHANGED <<mtx, line_buf>>
  \/ /\ left > 0
     /\ \E r \in FreePtrs(h2) : heap' = kmalloc(h2, r, left) /\ line_buf' = r
     /\ call' = [call EXCEPT ![p].bytes_written = @ + 1]
     /\ UNCHANGED mtx
  \/ /\ left > 0
     /\ "rest_kmalloc" \in FailSites
     /\ heap' = h2
     /\ line_buf' = NULL
     /\ UnlockAndReturn(p, ENOMEM)

LEMMA LineCompleted ==
  ASSUME CharInv, NEW p \in Procs, aesd_write_line(p)
  PROVE  \E h \in [Ptrs -> Memory], q \in Ptrs, line \in Memory, e \in Entries, h2 \in [Ptrs -> Memory],
            left \in Nat :
           /\ Completes(p, h, q, line, e, h2) /\ GoesOn(p, left, h2)
           /\ left = Len(call[p].req.data) - (call[p].bytes_written + 1)
<1>0. CallInv /\ BufInv /\ MemInv /\ InLoop(p) /\ call[p].pc \in Holding /\ NL \in Bytes
  BY ModelValuesAssumption DEF CharInv, aesd_write_line, InLoop, At, Holding
<1>1. PICK h \in [Ptrs -> Memory], size \in Nat, len \in Nat :
        /\ h = Fetched(NL) /\ size = line_len + 1 /\ len = Len(heap[line_buf])
        /\ Len(h[line_buf]) = len /\ 1 <= size /\ size <= len
        /\ \A s \in Ptrs \ {line_buf} : h[s] = heap[s]
  <2>1. line_len \in Nat /\ Len(heap[line_buf]) \in Nat
    <3>1. line_len \in Nat /\ line_buf \in Ptrs /\ heap \in [Ptrs -> Memory]
      BY <1>0, OneLoop DEF MemInv, Stores
    <3> QED
      BY <3>1, LenProperties DEF Memory
  <2>2. PICK size \in Nat, len \in Nat : size = line_len + 1 /\ len = Len(heap[line_buf])
    <3>1. line_len + 1 \in Nat
      BY <2>1
    <3> QED
      BY <2>1, <3>1
  <2>3. size \in 1 .. len
    BY <1>0, <2>2, FetchedIs
  <2> QED
    BY <1>0, <2>2, <2>3, FetchedIs
<1>2. line_buf \in Ptrs
  BY <1>0 DEF MemInv
<1>3. PICK line : line = EntryCopy(h[line_buf], size)
  OBVIOUS
<1>4. line \in Memory /\ Len(line) = size
  <2>1. PICK s \in Memory : s = h[line_buf] /\ Len(s) = len
    BY <1>1, <1>2
  <2>2. \A i \in 1 .. size : s[i] \in Bytes \cup {UNINIT}
    <3>1. ASSUME NEW i \in 1 .. size PROVE s[i] \in Bytes \cup {UNINIT}
      <4>1. i \in 1 .. len
        BY <1>1
      <4>2. i \in 1 .. Len(s)
        BY <2>1, <4>1
      <4> QED
        BY <4>2, ElementOfSeq DEF Memory
    <3> QED
      BY <3>1
  <2>3. SubSeq(s, 1, size) \in Seq(Bytes \cup {UNINIT}) /\ Len(SubSeq(s, 1, size)) = IF 1 <= size THEN size - 1 + 1 ELSE 0
    BY <2>2, SubSeqProperties
  <2>4. size - 1 + 1 = size
    OBVIOUS
  <2> QED
    BY <1>1, <1>3, <2>1, <2>3, <2>4 DEF Memory, EntryCopy
<1>5. PICK left \in Nat : left = Len(call[p].req.data) - (call[p].bytes_written + 1)
  <2>1. PICK n \in Nat, done \in Nat : n = Len(call[p].req.data) /\ done = call[p].bytes_written /\ done < n
    BY <1>0, OneLoop
  <2>2. n - (done + 1) \in Nat
    BY <2>1
  <2> QED
    BY <2>1, <2>2
<1>6. PICK q, copied, freed, e :
        /\ q \in FreePtrs(heap) /\ copied = [h EXCEPT ![q] = line]
        /\ freed = kfree(kfree(copied, OverwrittenPtr(buf)), line_buf)
        /\ e = [buffptr |-> q, size |-> size] /\ buf' = AddEntry(buf, e) /\ line_len' = 0
        /\ GoesOn(p, left, freed)
  BY <1>1, <1>3, <1>5 DEF aesd_write_line, GoesOn
<1>7. q \in Ptrs /\ e \in Entries /\ e.buffptr = q /\ e.size = size
  BY <1>1, <1>6 DEF FreePtrs, Entries
<1>8. h[q] = <<>>
  <2>1. heap[q] = <<>>
    BY <1>6 DEF FreePtrs
  <2>2. Len(heap[line_buf]) # 0
    BY <1>1
  <2>3. q # line_buf
    BY <2>1, <2>2
  <2> QED
    BY <1>1, <1>7, <2>1, <2>3
<1>9. OverwrittenPtr(buf) \in Ptrs \cup {NULL}
  <2>1. OverwrittenPtr(buf) = IF buf.in_offs \in SizedSlots(buf) THEN buf.entry[buf.in_offs].buffptr ELSE NULL
    BY <1>0, <1>7, AddedSlots
  <2> QED
    BY <1>0, <2>1, EntriesAre
<1>10. Stored(h, q, line, line_buf, OverwrittenPtr(buf), freed) /\ freed \in [Ptrs -> Memory]
  <2>1. PICK old \in Ptrs \cup {NULL}, r \in Ptrs : old = OverwrittenPtr(buf) /\ r = line_buf
    BY <1>2, <1>9
  <2>2. freed = kfree(kfree([h EXCEPT ![q] = line], old), r)
    BY <1>6, <2>1
  <2>3. Stored(h, q, line, r, old, freed)
    BY <1>4, <1>7, <2>2, HeapStored
  <2> QED
    BY <2>1, <2>3 DEF Stored
<1>11. Completes(p, h, q, line, e, freed)
  BY <1>1, <1>3, <1>4, <1>6, <1>7, <1>8, <1>10 DEF Completes
<1> QED
  BY <1>4, <1>5, <1>6, <1>7, <1>10, <1>11

\* The memory after the end of a line, without the new line buffer.
LEMMA LineKept ==
  ASSUME CharInv, NEW p \in Procs, InLoop(p),
         NEW h \in [Ptrs -> Memory], NEW q \in Ptrs, NEW line \in Memory, NEW e \in Entries,
         NEW h2 \in [Ptrs -> Memory], Completes(p, h, q, line, e, h2)
  PROVE  BufInv' /\ Stores(buf', h2, lost, {})
<1>0. CallInv /\ BufInv /\ MemInv /\ call[p].pc \in Holding /\ NL \in Bytes
  BY ModelValuesAssumption DEF CharInv, InLoop, At, Holding
<1>1. /\ NULL \notin Ptrs /\ Stores(buf, heap, lost, {line_buf})
      /\ line_len \in Nat /\ line_buf \in Ptrs
  BY <1>0, LineOf, OneLoop DEF MemInv
<1>2. /\ h = Fetched(NL) /\ h[q] = <<>> /\ Len(line) = line_len + 1
      /\ e.buffptr = q /\ e.size = line_len + 1 /\ buf' = AddEntry(buf, e)
      /\ Stored(h, q, line, line_buf, OverwrittenPtr(buf), h2)
  BY DEF Completes
<1>3. Stores(buf, h, lost, {line_buf})
  <2>1. /\ line_len + 1 \in 1 .. Len(heap[line_buf]) /\ Len(h[line_buf]) = Len(heap[line_buf])
        /\ \A s \in Ptrs \ {line_buf} : h[s] = heap[s]
    <3>1. PICK g : g = Fetched(NL)
      OBVIOUS
    <3>2. /\ line_len + 1 \in 1 .. Len(heap[line_buf]) /\ Len(g[line_buf]) = Len(heap[line_buf])
          /\ \A s \in Ptrs \ {line_buf} : g[s] = heap[s]
      BY <1>0, <3>1, FetchedIs
    <3> QED
      BY <1>2, <3>1, <3>2
  <2>2. h[line_buf] # <<>>
    BY <2>1
  <2> QED
    BY <1>1, <2>1, <2>2, LineChanged
<1>4. Len(line) > 0 /\ e.size = Len(line)
  BY <1>1, <1>2
<1>5. Stores(AddEntry(buf, e), h2, lost, {})
  <2>1. PICK r, gone : r = line_buf /\ gone = lost
    OBVIOUS
  <2>2. Stored(h, q, line, r, OverwrittenPtr(buf), h2)
    BY <1>2, <2>1
  <2>3. Stores(buf, h, gone, {r})
    BY <1>3, <2>1
  <2>4. e.buffptr = q /\ h[q] = <<>>
    BY <1>2
  <2>5. Stores(AddEntry(buf, e), h2, gone, {})
    BY <1>0, <1>1, <1>4, <2>2, <2>3, <2>4, LineStored
  <2> QED
    BY <2>1, <2>5
<1>6. BufInv'
  <2>1. PICK b : b = AddEntry(buf, e)
    OBVIOUS
  <2>2. BufferType(b, Entries) /\ Ring(b, Entries) /\ TotalSize(Contents(b), b.char_size)
    BY <1>0, <2>1, EntriesAre, AddKeepsRing
  <2>3. buf' = b
    BY <1>2, <2>1
  <2> QED
    BY <2>2, <2>3 DEF BufInv
<1> QED
  BY <1>2, <1>5, <1>6

\* The end of a line.
LEMMA LineEnds ==
  ASSUME CharInv, NEW p \in Procs, aesd_write_line(p)
  PROVE  /\ CharInv'
         /\ \E c \in Calls : CallStep(p, c) /\ c.pc \in {"loop", "return"} /\ c.pos = call[p].pos
<1>0. CallInv /\ BufInv /\ MemInv /\ InLoop(p) /\ call[p].pc \in Holding /\ loaded
      /\ UNCHANGED <<loaded, opened, f_pos, lost>>
  BY CallType DEF CharInv, aesd_write_line, InLoop, At, Holding
<1>1. PICK h \in [Ptrs -> Memory], q \in Ptrs, line \in Memory, e \in Entries, h2 \in [Ptrs -> Memory],
           left \in Nat :
        /\ Completes(p, h, q, line, e, h2) /\ GoesOn(p, left, h2)
        /\ left = Len(call[p].req.data) - (call[p].bytes_written + 1)
  BY LineCompleted
<1>2. BufInv' /\ Stores(buf', h2, lost, {}) /\ line_len' = 0
  BY <1>0, <1>1, LineKept DEF Completes
<1>3. /\ NULL \notin Ptrs /\ f_pos' \in [Files -> Int] /\ line_buf \in Ptrs
      /\ Len(call[p].req.data) \in Nat /\ call[p].bytes_written \in Nat
  BY <1>0, CallType, OneLoop DEF CallInv, MemInv
<1>4. CASE left = 0 /\ heap' = h2 /\ call' = [call EXCEPT ![p].bytes_written = @ + 1] /\ UNCHANGED <<mtx, line_buf>>
  <2>1. PICK c \in Calls : /\ CallStep(p, c) /\ c.pc = "loop" /\ c.req = call[p].req /\ c.pos = call[p].pos
                           /\ c.bytes_written = call[p].bytes_written + 1
    BY <1>0, <1>4, ByteTaken
  <2>2. ~(c.bytes_written < Len(c.req.data))
    BY <1>1, <1>3, <1>4, <2>1
  <2>3. (\A s \in Procs : ~InLoop(s)') /\ LinePtrs' = {}
    BY <1>0, <1>2, <1>3, <1>4, <2>1, <2>2, LineAfter
  <2>4. MemInv'
    BY <1>0, <1>2, <1>3, <1>4, <2>3 DEF MemInv
  <2>5. CallInv'
    BY <1>0, <1>3, <2>1, CallStepKeeps
  <2> QED
    BY <1>2, <2>1, <2>4, <2>5 DEF CharInv
<1>5. CASE /\ left > 0
           /\ \E r \in FreePtrs(h2) : heap' = kmalloc(h2, r, left) /\ line_buf' = r
           /\ call' = [call EXCEPT ![p].bytes_written = @ + 1] /\ UNCHANGED mtx
  <2>1. PICK c \in Calls : /\ CallStep(p, c) /\ c.pc = "loop" /\ c.req = call[p].req /\ c.pos = call[p].pos
                           /\ c.bytes_written = call[p].bytes_written + 1
    BY <1>0, <1>5, ByteTaken
  <2>2. c.bytes_written < Len(c.req.data) /\ left = Len(c.req.data) - c.bytes_written
    BY <1>1, <1>3, <1>5, <2>1
  <2>3. PICK r \in Ptrs : h2[r] = <<>> /\ heap' = kmalloc(h2, r, left) /\ line_buf' = r
    BY <1>5 DEF FreePtrs
  <2>4. PICK h3 \in [Ptrs -> Memory] : heap' = h3 /\ Len(h3[r]) = left /\ \A s \in Ptrs \ {r} : h3[s] = h2[s]
    BY <2>3, KmallocIs
  <2>5. Stores(buf', h3, lost, {r})
    <3>1. h3[r] # <<>>
      BY <1>5, <2>4
    <3>2. \A i \in SizedSlots(buf') : buf'.entry[i].size \in Nat \ {0}
      <4>1. PICK b : b = AddEntry(buf, e)
        OBVIOUS
      <4>2. buf' = b
        BY <1>1, <4>1 DEF Completes
      <4>3. \A i \in SizedSlots(b) : b.entry[i].size \in Nat \ {0}
        <5>1. ASSUME NEW i \in SizedSlots(b)
              PROVE  b.entry[i].size \in Nat \ {0}
          <6>1. /\ b.entry[i] = IF i = buf.in_offs THEN e ELSE buf.entry[i]
                /\ i \in SizedSlots(buf) \/ i = buf.in_offs
            BY <1>0, <4>1, AddedSlots
          <6>2. e.size \in Nat \ {0}
            BY DEF Entries
          <6> QED
            BY <1>0, <6>1, <6>2, EntriesAre
        <5> QED
          BY <5>1
      <4> QED
        BY <4>2, <4>3
    <3> QED
      BY <1>2, <2>3, <2>4, <3>1, <3>2, LineTaken
  <2>6. (\A s \in Procs : InLoop(s)' => s = p) /\ call'[p] = c /\ LinePtrs' = {r}
    <3>1. r # NULL /\ line_buf' \in Ptrs \cup {NULL}
      BY <1>3, <2>3
    <3> QED
      BY <1>0, <1>3, <2>1, <2>2, <2>3, <3>1, LineAfter
  <2>7. MemInv'
    <3>1. line_len' + (Len(c.req.data) - c.bytes_written) = left
      BY <1>2, <2>2
    <3>2. line_len' \in Nat /\ ~(line_len' > 0) /\ left >= left
      BY <1>2
    <3>3. Len(heap'[line_buf']) = left /\ line_buf' \in Ptrs /\ Stores(buf', heap', lost', LinePtrs') /\ loaded'
      BY <1>0, <2>3, <2>4, <2>5, <2>6
    <3>4. ASSUME NEW s \in Procs, InLoop(s)'
          PROVE  Len(heap'[line_buf']) >= line_len' + (Len(call'[s].req.data) - call'[s].bytes_written)
      BY <2>6, <3>1, <3>2, <3>3, <3>4
    <3> QED
      BY <3>2, <3>3, <3>4 DEF MemInv
  <2>8. CallInv'
    BY <1>0, <1>3, <2>1, CallStepKeeps
  <2> QED
    BY <1>2, <2>1, <2>7, <2>8 DEF CharInv
<1>6. CASE left > 0 /\ heap' = h2 /\ line_buf' = NULL /\ UnlockAndReturn(p, ENOMEM)
  <2>1. PICK c \in Calls : CallStep(p, c) /\ c.pc = "return" /\ c.pos = call[p].pos
    BY <1>0, <1>6, UnlockReturns DEF ENOMEM
  <2>2. (\A s \in Procs : ~InLoop(s)') /\ LinePtrs' = {}
    BY <1>0, <1>2, <1>3, <1>6, <2>1, LineAfter
  <2>3. MemInv'
    BY <1>0, <1>2, <1>3, <1>6, <2>2 DEF MemInv
  <2>4. CallInv'
    BY <1>0, <1>3, <2>1, CallStepKeeps
  <2> QED
    BY <1>2, <2>1, <2>3, <2>4 DEF CharInv
<1> QED
  BY <1>1, <1>4, <1>5, <1>6 DEF GoesOn

-----------------------------------------------------------------------------
(* Opening, loading and unloading, and the invariant.                        *)

\* Without open files no call is under way.
LEMMA AllIdle ==
  ASSUME CallInv, opened = {}
  PROVE  \A p \in Procs : call[p].pc = "idle" /\ ~InLoop(p)
BY DEF CallInv, Sound, InLoop, At

LEMMA EmptySlots == SizedSlots(EmptyBuffer) = {}
<1>1. ASSUME NEW i \in SizedSlots(EmptyBuffer) PROVE FALSE
  <2>1. i \in Slots /\ EmptyBuffer.entry[i].size > 0
    BY DEF SizedSlots
  <2>2. EmptyBuffer.entry[i] = ZeroEntry
    BY <2>1 DEF EmptyBuffer
  <2>3. EmptyBuffer.entry[i].size = 0
    BY <2>2 DEF ZeroEntry
  <2> QED
    BY <2>1, <2>3
<1> QED
  BY <1>1

LEMMA EmptyBufInv == BufferType(EmptyBuffer, Entries) /\ Ring(EmptyBuffer, Entries)
                     /\ TotalSize(Contents(EmptyBuffer), EmptyBuffer.char_size)
BY EmptyRing

LEMMA FilesKeep ==
  ASSUME CharInv, NEW f \in Files, aesd_open(f) \/ aesd_release(f)
  PROVE  CharInv'
<1>0. CallInv /\ BufInv /\ MemInv
  BY DEF CharInv
<1>1. UNCHANGED <<loaded, mtx, buf, line_buf, line_len, heap, call, lost>>
  BY DEF aesd_open, aesd_release, dev
<1>2. /\ opened' \subseteq Files /\ (opened' # {} => loaded) /\ f_pos' \in [Files -> Int]
      /\ \A p \in Procs : Sound(call[p], opened')
  BY <1>0 DEF aesd_open, aesd_release, CallInv, Sound
<1>3. CallInv'
  BY <1>0, <1>1, <1>2 DEF CallInv, MutexExact, Holds
<1>4. BufInv'
  BY <1>0, <1>1 DEF BufInv
<1>5. LinePtrs' = LinePtrs /\ \A p \in Procs : InLoop(p)' <=> InLoop(p)
  BY <1>1 DEF LinePtrs, InLoop, At
<1>6. MemInv'
  BY <1>0, <1>1, <1>5 DEF MemInv
<1> QED
  BY <1>3, <1>4, <1>6 DEF CharInv

LEMMA InitKeeps ==
  ASSUME CharInv, aesd_init_module
  PROVE  CharInv'
<1>0. CallInv /\ BufInv /\ MemInv /\ ~loaded /\ opened = {}
  BY DEF CharInv, aesd_init_module, CallInv
<1>1. /\ UNCHANGED <<opened, f_pos, heap, call, lost>> /\ loaded' \in BOOLEAN
      /\ buf' = EmptyBuffer /\ line_buf' = NULL /\ line_len' = 0 /\ mtx' = NONE
  BY DEF aesd_init_module
<1>2. \A p \in Procs : call'[p].pc = "idle" /\ ~InLoop(p)'
  BY <1>0, <1>1, AllIdle DEF InLoop, At
<1>3. CallInv'
  <2>1. MutexExact'
    BY <1>1, <1>2, ModelValuesAssumption DEF MutexExact, Holds
  <2> QED
    BY <1>0, <1>1, <2>1 DEF CallInv
<1>4. BufInv'
  BY <1>1, EmptyBufInv DEF BufInv
<1>5. LinePtrs' = {}
  BY <1>1, <1>2 DEF LinePtrs
<1>6. MemInv'
  <2>1. Stores(EmptyBuffer, heap', lost', {})
    BY <1>0, <1>1 DEF MemInv
  <2> QED
    BY <1>1, <1>2, <1>5, <2>1 DEF MemInv
<1> QED
  BY <1>3, <1>4, <1>6 DEF CharInv

LEMMA CleanupKeeps ==
  ASSUME CharInv, aesd_cleanup_module
  PROVE  CharInv'
<1>0. CallInv /\ BufInv /\ MemInv /\ loaded /\ opened = {} /\ NULL \notin Ptrs
  BY ModelValuesAssumption DEF CharInv, aesd_cleanup_module
<1>1. /\ UNCHANGED <<opened, f_pos, mtx, buf, line_buf, line_len, call, lost>> /\ loaded' = FALSE
      /\ heap' = [q \in Ptrs |-> IF q \in CleanupPtrs THEN <<>> ELSE heap[q]]
  BY DEF aesd_cleanup_module, dev
<1>2. \A p \in Procs : ~InLoop(p) /\ ~InLoop(p)'
  BY <1>0, <1>1, AllIdle DEF InLoop, At
<1>3. CallInv'
  BY <1>0, <1>1 DEF CallInv, MutexExact, Holds
<1>4. BufInv'
  BY <1>0, <1>1 DEF BufInv
<1>5. LinePtrs = IF line_len > 0 THEN {line_buf} \ {NULL} ELSE {}
  BY <1>2 DEF LinePtrs
<1>6. Stores(buf, heap, lost, LinePtrs)
  BY <1>0 DEF MemInv
<1>7. \A q \in Ptrs : q \in CleanupPtrs <=> q \in LinePtrs \/ \E i \in SizedSlots(buf) : buf.entry[i].buffptr = q
  BY <1>0, <1>5 DEF CleanupPtrs
<1>8. heap' \in [Ptrs -> Memory] /\ \A q \in Ptrs : heap'[q] = IF q \in CleanupPtrs THEN <<>> ELSE heap[q]
  <2>1. <<>> \in Memory /\ heap \in [Ptrs -> Memory]
    BY <1>6 DEF Memory, Stores
  <2> QED
    BY <1>1, <2>1
<1>9. Stores(EmptyBuffer, heap', lost, {})
  <2>1. lost \subseteq Ptrs /\ \A q \in lost : heap'[q] # <<>>
    BY <1>6, <1>7, <1>8 DEF Stores
  <2>2. \A q \in Ptrs : heap'[q] # <<>> => q \in lost
    BY <1>6, <1>7, <1>8 DEF Stores
  <2> QED
    BY <1>8, <2>1, <2>2, EmptySlots DEF Stores
<1>10. MemInv'
  BY <1>0, <1>1, <1>2, <1>9 DEF MemInv
<1> QED
  BY <1>3, <1>4, <1>10 DEF CharInv

LEMMA CharInit ==
  ASSUME Init
  PROVE  CharInv
<1>1. CallInv
  <2>1. NoCall \in Calls /\ NoCall.pc = "idle"
    BY DEF NoCall, Calls
  <2>2. \A p \in Procs : call[p] = NoCall
    BY DEF Init
  <2>3. \A p \in Procs : Sound(call[p], opened)
    BY <2>1, <2>2 DEF Sound
  <2>4. MutexExact
    BY <2>1, <2>2, ModelValuesAssumption DEF MutexExact, Holds, Init
  <2>5. call \in [Procs -> Calls]
    BY <2>1 DEF Init
  <2>6. f_pos \in [Files -> Int]
    BY DEF Init
  <2> QED
    BY <2>3, <2>4, <2>5, <2>6 DEF CallInv, Init
<1>2. BufInv
  BY EmptyBufInv DEF BufInv, Init
<1>3. \A p \in Procs : ~InLoop(p)
  BY DEF InLoop, At, Init, NoCall
<1>4. Stores(EmptyBuffer, heap, {}, {})
  <2>1. <<>> \in Memory
    BY DEF Memory
  <2>2. heap \in [Ptrs -> Memory] /\ \A q \in Ptrs : heap[q] = <<>>
    BY <2>1 DEF Init
  <2> QED
    BY <2>2, EmptySlots DEF Stores
<1>5. MemInv
  BY <1>3, <1>4 DEF MemInv, Init
<1> QED
  BY <1>1, <1>2, <1>5 DEF CharInv

\* No step of a call breaks the invariant.
LEMMA StepKeeps ==
  ASSUME CharInv, NEW p \in Procs, Step(p) \/ Interrupted(p)
  PROVE  CharInv'
<1>0. CallInv
  BY DEF CharInv
<1>1. CASE Lock(p)
  <2>1. PICK c \in Calls : CallStep(p, c) /\ c.pc = "locked" /\ ~InLoop(p)
    BY <1>0, <1>1, LockStep
  <2> QED
    BY <1>0, <1>1, <2>1, QuietKeeps DEF Lock, CallInv
<1>2. CASE Interrupted(p)
  <2>1. call[p].pc = "lock" /\ ~InLoop(p) /\ Return(p, ERESTART) /\ mtx' = mtx /\ ERESTART \in Int
    BY <1>2 DEF Interrupted, At, InLoop, ERESTART
  <2>2. PICK c \in Calls : CallStep(p, c) /\ c.pc = "return"
    BY <1>0, <2>1, RefusedReturns
  <2> QED
    BY <1>0, <1>2, <2>1, <2>2, QuietKeeps DEF Interrupted, CallInv
<1>3. CASE aesd_read(p)
  <2>1. PICK c \in Calls : CallStep(p, c) /\ c.pc = "return" /\ ~InLoop(p)
    BY <1>3, ReadStep
  <2> QED
    BY <1>0, <1>3, <2>1, QuietKeeps DEF aesd_read, CallInv
<1>4. CASE aesd_llseek(p)
  <2>1. PICK c \in Calls : CallStep(p, c) /\ c.pc \in {"return", "seek"} /\ ~InLoop(p)
    BY <1>4, LlseekStep
  <2> QED
    BY <1>0, <1>4, <2>1, QuietKeeps DEF aesd_llseek, CallInv
<1>5. CASE aesd_ioctl(p)
  <2>1. PICK c \in Calls : CallStep(p, c) /\ c.pc \in {"return", "seek"} /\ ~InLoop(p)
    BY <1>5, IoctlStep
  <2> QED
    BY <1>0, <1>5, <2>1, QuietKeeps DEF aesd_ioctl, CallInv
<1>6. CASE StoreSeek(p)
  <2>1. PICK c \in Calls : CallStep(p, c) /\ c.pc = "return" /\ ~InLoop(p)
    BY <1>0, <1>6, StoreSeekStep
  <2> QED
    BY <1>0, <1>6, <2>1, PositionType, QuietKeeps DEF StoreSeek
<1>7. CASE aesd_write(p)
  BY <1>7, WriteStarts
<1>8. CASE aesd_write_no_room(p)
  BY <1>8, NoRoom
<1>9. CASE aesd_write_fault(p) \/ aesd_write_no_entry(p)
  BY <1>9, ByteFails
<1>10. CASE aesd_write_byte(p)
  BY <1>10, ByteInside
<1>11. CASE aesd_write_line(p)
  BY <1>11, LineEnds
<1>12. CASE aesd_write_done(p)
  <2>1. call[p].pc \in Holding /\ ~InLoop(p) /\ call[p].bytes_written \in Int
    BY <1>0, <1>12, CallType DEF aesd_write_done, At, Holding, Calls
  <2>2. PICK c \in Calls : CallStep(p, c) /\ c.pc = "return"
    BY <1>0, <1>12, <2>1, UnlockReturns DEF aesd_write_done
  <2> QED
    BY <1>0, <1>12, <2>1, <2>2, QuietKeeps DEF aesd_write_done, CallInv
<1>13. CASE Leave(p)
  <2>1. PICK c \in Calls : CallStep(p, c) /\ c.pc = "idle" /\ ~InLoop(p)
    BY <1>0, <1>13, LeaveStep
  <2> QED
    BY <1>0, <1>13, <2>1, PositionType, QuietKeeps DEF Leave
<1> QED
  BY <1>1, <1>2, <1>3, <1>4, <1>5, <1>6, <1>7, <1>8, <1>9, <1>10, <1>11, <1>12, <1>13 DEF Step

\* Nor does any other.
LEMMA InductiveChar ==
  ASSUME CharInv, [Next]_vars
  PROVE  CharInv'
<1>1. CASE aesd_init_module
  BY <1>1, InitKeeps
<1>2. CASE aesd_cleanup_module
  BY <1>2, CleanupKeeps
<1>3. ASSUME NEW f \in Files, aesd_open(f) \/ aesd_release(f)
      PROVE  CharInv'
  BY <1>3, FilesKeep
<1>4. ASSUME NEW p \in Procs, Step(p) \/ Interrupted(p)
      PROVE  CharInv'
  BY <1>4, StepKeeps
<1>5. ASSUME NEW p \in Procs, NEW f \in Files, NEW req \in Requests, Enter(p, f, req)
      PROVE  CharInv'
  <2>1. PICK c \in Calls : CallStep(p, c) /\ c.pc \in {"lock", "return"} /\ ~InLoop(p)
    BY <1>5, EnterStep DEF CharInv
  <2> QED
    BY <1>5, <2>1, QuietKeeps DEF Enter, CharInv, CallInv
<1>6. CASE UNCHANGED vars
  BY <1>6 DEF vars, dev, CharInv, CallInv, BufInv, MemInv, MutexExact, Holds, LinePtrs, InLoop, At
<1> QED
  BY <1>1, <1>2, <1>3, <1>4, <1>5, <1>6 DEF Next

\* The invariant holds in every state.
LEMMA CharInvAlways == Spec => []CharInv
<1>1. Init => CharInv
  BY CharInit
<1>2. CharInv /\ [Next]_vars => CharInv'
  BY InductiveChar
<1> QED
  BY <1>1, <1>2, PTL DEF Spec

-----------------------------------------------------------------------------
(* The theorems.                                                             *)

\* Every variable of the driver, and every call, has its type.
THEOREM DriverTyped == Spec => []TypeOK
<1>1. ASSUME CharInv PROVE TypeOK
  <2>1. heap \in [Ptrs -> Memory] /\ lost \subseteq Ptrs
    BY <1>1 DEF CharInv, MemInv, Stores
  <2> QED
    BY <1>1, <2>1 DEF CharInv, CallInv, BufInv, MemInv, TypeOK, Memory
<1> QED
  BY <1>1, CharInvAlways, PTL

\* The mutex is held by exactly the handler between lock and unlock: no two
\* handlers are there, and every way out of one gives the mutex back once.
THEOREM MutexHeldExactly == Spec => []MutexExact
<1>1. ASSUME CharInv PROVE MutexExact
  BY <1>1 DEF CharInv, CallInv
<1> QED
  BY <1>1, CharInvAlways, PTL

\* Every access of the driver is inside an object it owns, and no object has two
\* owners, whatever fails and however the handlers interleave.
THEOREM MemorySafe == Spec => []HeapSafe
<1>1. ASSUME CharInv, loaded
      PROVE  /\ \A i \in HeldSlots(buf) :
                  /\ Len(heap[buf.entry[i].buffptr]) = buf.entry[i].size
                  /\ \A j \in HeldSlots(buf) \ {i} : buf.entry[j].buffptr # buf.entry[i].buffptr
             /\ LinePtrs \cap EntryPtrs = {}
  BY <1>1, EntriesAre DEF CharInv, MemInv, Stores, EntryPtrs
<1>2. ASSUME CharInv, loaded, NEW q \in LinePtrs
      PROVE  Len(heap[q]) >= line_len
  <2>1. q = line_buf /\ line_buf # NULL
    BY <1>2 DEF LinePtrs
  <2>2. CASE line_len > 0
    BY <1>2, <2>1, <2>2 DEF CharInv, MemInv
  <2>3. CASE ~(line_len > 0)
    <3>1. Len(heap[q]) \in Nat
      <4>1. q \in Ptrs /\ heap \in [Ptrs -> Memory]
        BY <1>2, <2>1 DEF CharInv, MemInv, Stores
      <4> QED
        BY <4>1, LenProperties DEF Memory
    <3>2. line_len = 0
      BY <1>2, <2>3 DEF CharInv, MemInv
    <3> QED
      BY <3>1, <3>2
  <2> QED
    BY <2>2, <2>3
<1>3. ASSUME CharInv, loaded, NEW p \in Procs, InLoop(p)
      PROVE  line_buf \in Ptrs /\ Len(heap[line_buf]) >= line_len + Len(call[p].req.data) - call[p].bytes_written
  <2>1. PICK n, done, len, size \in Nat :
          /\ n = Len(call[p].req.data) /\ done = call[p].bytes_written /\ len = line_len
          /\ size = Len(heap[line_buf])
    <3>1. line_buf \in Ptrs /\ heap \in [Ptrs -> Memory] /\ line_len \in Nat
      BY <1>3 DEF CharInv, MemInv, Stores
    <3>2. Len(heap[line_buf]) \in Nat
      BY <3>1, LenProperties DEF Memory
    <3>3. Len(call[p].req.data) \in Nat /\ call[p].bytes_written \in Nat
      BY <1>3, OneLoop DEF CharInv
    <3> QED
      BY <3>1, <3>2, <3>3
  <2>2. size >= len + (n - done) /\ line_buf \in Ptrs
    BY <1>3, <2>1 DEF CharInv, MemInv
  <2>3. size >= len + n - done
    BY <2>2
  <2> QED
    BY <2>1, <2>2, <2>3
<1>4. ASSUME CharInv PROVE HeapSafe
  BY <1>1, <1>2, <1>3, <1>4 DEF HeapSafe
<1> QED
  BY <1>4, CharInvAlways, PTL

\* Every object that is allocated is owned by the device or was lost by a failing
\* krealloc, and after unloading none is owned.
THEOREM NothingLeaks == Spec => []NoLeak
<1>1. ASSUME CharInv PROVE NoLeak
  <2>1. PICK owned : owned = IF loaded THEN EntryPtrs \cup LinePtrs ELSE {}
    OBVIOUS
  <2>2. \A q \in Ptrs : q \notin FreePtrs(heap) <=> heap[q] # <<>>
    BY DEF FreePtrs
  <2>3. CASE loaded
    <3>1. Stores(buf, heap, lost, LinePtrs)
      BY <1>1, <2>3 DEF CharInv, MemInv
    <3>2. \A i \in SizedSlots(buf) : heap[buf.entry[i].buffptr] # <<>>
      <4>1. ASSUME NEW i \in SizedSlots(buf), heap[buf.entry[i].buffptr] = <<>>
            PROVE  FALSE
        <5>1. Len(<<>>) = 0 /\ buf.entry[i].size # 0
          BY <1>1, EntriesAre DEF CharInv
        <5> QED
          BY <3>1, <4>1, <5>1 DEF Stores
      <4> QED
        BY <4>1
    <3>3. \A q : q \in EntryPtrs <=> \E i \in SizedSlots(buf) : buf.entry[i].buffptr = q
      BY <1>1, EntriesAre DEF CharInv, EntryPtrs
    <3>4. owned \cap lost = {}
      BY <2>1, <2>3, <3>1, <3>3 DEF Stores
    <3>5. \A q : q \in owned \cup lost <=> q \in Ptrs /\ heap[q] # <<>>
      BY <2>1, <2>3, <3>1, <3>2, <3>3 DEF Stores
    <3>6. Ptrs \ FreePtrs(heap) = owned \cup lost
      BY <2>2, <3>5
    <3> QED
      BY <2>1, <3>4, <3>6 DEF NoLeak
  <2>4. CASE ~loaded
    <3>1. Stores(EmptyBuffer, heap, lost, {})
      BY <1>1, <2>4 DEF CharInv, MemInv
    <3>2. \A q : q \in lost <=> q \in Ptrs /\ heap[q] # <<>>
      BY <3>1, EmptySlots DEF Stores
    <3> QED
      BY <2>2, <2>4, <3>2 DEF NoLeak
  <2> QED
    BY <2>3, <2>4
<1> QED
  BY <1>1, CharInvAlways, PTL

-----------------------------------------------------------------------------
(* The stored lines.                                                         *)

\* The objects of the entries keep their bytes.
SameObjects == \A i \in SizedSlots(buf) : heap'[buf.entry[i].buffptr] = heap[buf.entry[i].buffptr]

LEMMA LinesSame ==
  ASSUME BufInv, buf' = buf, SameObjects
  PROVE  Lines' = Lines
<1>1. ASSUME NEW k \in 1 .. Held(buf)
      PROVE  heap'[Contents(buf)[k].buffptr] = heap[Contents(buf)[k].buffptr]
  <2>1. PICK i \in SizedSlots(buf) : Contents(buf)[k] = buf.entry[i]
    BY EntriesAre
  <2> QED
    BY <2>1 DEF SameObjects
<1>2. [k \in 1 .. Held(buf) |-> heap'[Contents(buf)[k].buffptr]]
        = [k \in 1 .. Held(buf) |-> heap[Contents(buf)[k].buffptr]]
  BY <1>1
<1> QED
  BY <1>2 DEF Lines

\* No entry's object is the line buffer or free.
LEMMA EntryObjects ==
  ASSUME BufInv, loaded, MemInv, NEW i \in SizedSlots(buf)
  PROVE  /\ buf.entry[i].buffptr \in Ptrs \ LinePtrs
         /\ heap[buf.entry[i].buffptr] # <<>> /\ buf.entry[i].buffptr \notin FreePtrs(heap)
<1>1. Stores(buf, heap, lost, LinePtrs)
  BY DEF MemInv
<1>2. PICK size \in Nat \ {0} : size = buf.entry[i].size
  BY EntriesAre
<1>3. buf.entry[i].buffptr \in Ptrs \ LinePtrs /\ Len(heap[buf.entry[i].buffptr]) = size
  BY <1>1, <1>2 DEF Stores
<1>4. heap[buf.entry[i].buffptr] # <<>>
  BY <1>3
<1> QED
  BY <1>3, <1>4 DEF FreePtrs

\* A byte stored behind the line, and the making of room for a line.
LEMMA FetchSame ==
  ASSUME CharInv, NEW p \in Procs, InLoop(p), NEW byte \in Bytes, heap' = Fetched(byte)
  PROVE  SameObjects
<1>0. BufInv /\ loaded /\ MemInv /\ LinePtrs = {line_buf}
  BY LineOf, OneLoop DEF CharInv, InLoop, At, Holding
<1>1. \A q \in Ptrs \ {line_buf} : heap'[q] = heap[q]
  BY FetchedIs
<1> QED
  BY <1>0, <1>1, EntryObjects DEF SameObjects

LEMMA RoomSame ==
  ASSUME CharInv, NEW p \in Procs, aesd_write(p)
  PROVE  SameObjects
<1>0. /\ CallInv /\ BufInv /\ loaded /\ MemInv /\ NULL \notin Ptrs
      /\ LinePtrs = IF line_len > 0 THEN {line_buf} \ {NULL} ELSE {}
  BY LineOf, CallType DEF CharInv, InLoop, At, Holding, aesd_write, InHandler
<1>1. heap \in [Ptrs -> Memory] /\ line_buf \in Ptrs \cup {NULL} /\ line_len \in Nat
  BY <1>0 DEF MemInv, Stores
<1>2. PICK count \in Nat : count = Len(call[p].req.data)
  <2>1. call[p].req.data \in Seq(Bytes)
    BY <1>0, CallType DEF Sound, aesd_write, InHandler, At
  <2> QED
    BY <2>1, LenProperties
<1>3. CASE line_len > 0
  <2>1. PICK q \in FreePtrs(heap) \cup ({line_buf} \ {NULL}) :
          heap' = krealloc(heap, line_buf, q, WidenedSize(count))
    BY <1>2, <1>3 DEF aesd_write
  <2>2. q \in Ptrs
    BY <1>1, <2>1 DEF FreePtrs
  <2>3. WidenedSize(count) \in Nat
    BY <1>1 DEF WidenedSize
  <2>4. PICK h \in [Ptrs -> Memory], old \in Ptrs \cup {NULL}, new \in Ptrs, size \in Nat :
          h = heap /\ old = line_buf /\ new = q /\ size = WidenedSize(count)
    BY <1>1, <2>2, <2>3
  <2>5. /\ krealloc(h, old, new, size) \in [Ptrs -> Memory]
        /\ Len(krealloc(h, old, new, size)[new]) = size
        /\ \A r \in Ptrs \ {new} : krealloc(h, old, new, size)[r] = IF r = old THEN <<>> ELSE h[r]
    BY KreallocIs
  <2>6. \A r \in Ptrs \ {q, line_buf} : heap'[r] = heap[r]
    BY <2>1, <2>4, <2>5
  <2>7. ASSUME NEW i \in SizedSlots(buf) PROVE buf.entry[i].buffptr \in Ptrs \ {q, line_buf}
    BY <1>0, <1>3, <2>1, EntryObjects
  <2> QED
    BY <2>6, <2>7 DEF SameObjects
<1>4. CASE ~(line_len > 0)
  <2>1. PICK q \in FreePtrs(heap) : heap' = kmalloc(heap, q, count)
    BY <1>2, <1>4 DEF aesd_write
  <2>2. q \in Ptrs
    BY <2>1 DEF FreePtrs
  <2>3. \A r \in Ptrs \ {q} : heap'[r] = heap[r]
    BY <1>1, <2>1, <2>2, KmallocIs
  <2> QED
    BY <1>0, <2>1, <2>3, EntryObjects DEF SameObjects
<1> QED
  BY <1>3, <1>4

\* One line more.
OneLineMore ==
  /\ Held(buf') = Min({Held(buf) + 1, MAX})
  /\ \A k \in 1 .. Held(buf') - 1 : Lines'[k] = Lines[k + Held(buf) + 1 - Held(buf')]

\* The entries of b after add_entry, n of them before: the new one is the last,
\* the oldest of MAX is gone, and the others have moved up.
MovedUp(old, n, b) ==
  /\ Held(b) = IF n = MAX THEN MAX ELSE n + 1
  /\ \A k \in 1 .. Held(b) - 1 : Contents(b)[k] = Contents(old)[k + n + 1 - Held(b)]

LEMMA AddedContents ==
  ASSUME BufInv, NEW e \in Entries, NEW b, b = AddEntry(buf, e), NEW n, n = Held(buf)
  PROVE  /\ BufferType(b, Entries) /\ Ring(b, Entries) /\ TotalSize(Contents(b), b.char_size)
         /\ n \in Nat /\ Contents(b)[Held(b)] = e /\ MovedUp(buf, n, b)
<1>1. /\ Contents(buf) \in Seq(Entries) /\ Len(Contents(buf)) = n /\ n \in Nat /\ n <= MAX /\ MAX \in Nat \ {0}
  <2>1. Contents(buf) \in Seq(Entries)
    BY EntriesAre, FullIffMax
  <2>2. n \in Nat /\ n <= MAX
    BY EntriesAre
  <2>3. Contents(buf) = [k \in 1 .. n |-> buf.entry[Slot(buf, k-1)]]
    BY DEF Contents
  <2> QED
    BY <2>1, <2>2, <2>3, MaxAssumption
<1>2. /\ BufferType(b, Entries) /\ Ring(b, Entries) /\ TotalSize(Contents(b), b.char_size)
      /\ IF n = MAX THEN Contents(b) = Append(Tail(Contents(buf)), e)
                    ELSE Contents(b) = Append(Contents(buf), e)
  BY <1>1, EntriesAre, AddKeepsRing
<1>3. Held(b) \in Nat /\ Len(Contents(b)) = Held(b)
  <2>1. Held(b) \in Nat
    BY <1>2, ContentsSlot, EntriesAre
  <2> QED
    BY <2>1 DEF Contents
<1>4. PICK s \in Seq(Entries) : s = Contents(buf) /\ Len(s) = n
  BY <1>1
<1>5. CASE n = MAX
  <2>1. s # <<>>
    BY <1>1, <1>4, <1>5
  <2>2. Tail(s) \in Seq(Entries) /\ Len(Tail(s)) = n - 1 /\ \A i \in 1 .. n - 1 : Tail(s)[i] = s[i+1]
    BY <1>4, <2>1, HeadTailProperties
  <2>3. PICK t \in Seq(Entries) : t = Tail(s) /\ Len(t) = n - 1
    BY <2>2
  <2>4. Contents(b) = Append(t, e)
    BY <1>2, <1>4, <1>5, <2>3
  <2>5. Len(Append(t, e)) = n /\ Append(t, e)[n] = e /\ \A i \in 1 .. n - 1 : Append(t, e)[i] = t[i]
    BY <1>1, <1>5, <2>3, AppendProperties
  <2>6. Held(b) = n
    BY <1>3, <2>4, <2>5
  <2>7. ASSUME NEW k \in 1 .. n - 1 PROVE k + n + 1 - n = k + 1
    BY <1>1
  <2> QED
    BY <1>1, <1>2, <1>4, <1>5, <2>2, <2>3, <2>4, <2>5, <2>6, <2>7 DEF MovedUp
<1>6. CASE n # MAX
  <2>1. Contents(b) = Append(s, e)
    BY <1>2, <1>4, <1>6
  <2>2. Len(Append(s, e)) = n + 1 /\ Append(s, e)[n+1] = e /\ \A i \in 1 .. n : Append(s, e)[i] = s[i]
    BY <1>4, AppendProperties
  <2>3. Held(b) = n + 1
    BY <1>3, <2>1, <2>2
  <2>4. (n + 1) - 1 = n /\ \A k \in 1 .. n : k + n + 1 - (n + 1) = k
    BY <1>1
  <2> QED
    BY <1>1, <1>2, <1>4, <1>6, <2>1, <2>2, <2>3, <2>4 DEF MovedUp
<1> QED
  BY <1>5, <1>6

\* The entries that stay keep their bytes when a line is added: they are neither
\* the new entry's object nor among the freed ones.
LEMMA LineAppended ==
  ASSUME CharInv, NEW p \in Procs, aesd_write_line(p)
  PROVE  OneLineMore
<1>0. /\ CallInv /\ BufInv /\ MemInv /\ loaded /\ InLoop(p) /\ LinePtrs = {line_buf}
  BY LineOf, CallType DEF CharInv, InLoop, At, Holding, aesd_write_line
<1>1. PICK h \in [Ptrs -> Memory], q \in Ptrs, line \in Memory, e \in Entries, h2 \in [Ptrs -> Memory],
           left \in Nat :
        Completes(p, h, q, line, e, h2) /\ GoesOn(p, left, h2)
  BY LineCompleted
<1>2. Stores(buf', h2, lost, {})
  BY <1>0, <1>1, LineKept
<1>3. PICK b, n : b = AddEntry(buf, e) /\ n = Held(buf) /\ b = buf'
  BY <1>1 DEF Completes
<1>4. BufferType(b, Entries) /\ Ring(b, Entries) /\ n \in Nat /\ MovedUp(buf, n, b)
  BY <1>0, <1>3, AddedContents
<1>a. PICK len \in Nat, max \in Nat \ {0} :
        /\ max = MAX /\ n <= max /\ len = Held(b) /\ len = IF n = max THEN max ELSE n + 1
  BY <1>0, <1>3, <1>4, EntriesAre, MaxAssumption DEF MovedUp
<1>5. /\ n \in Nat /\ len > 0 /\ len \in {n, n + 1}
      /\ \A k \in 1 .. len - 1 : k + n + 1 - len \in 1 .. n /\ k - 1 \in 0 .. len - 1 /\ k \in 1 .. len
  BY <1>4, <1>a
<1>6. Stores(b, h2, lost, {})
  BY <1>2, <1>3
<1>7. /\ \A s \in Ptrs \ {line_buf} : h[s] = heap[s]
      /\ q \in FreePtrs(heap) /\ Stored(h, q, line, line_buf, OverwrittenPtr(buf), h2)
  <2>1. NL \in Bytes
    BY ModelValuesAssumption
  <2>2. PICK g : g = Fetched(NL)
    OBVIOUS
  <2>3. \A s \in Ptrs \ {line_buf} : g[s] = heap[s]
    BY <1>0, <2>1, <2>2, FetchedIs
  <2> QED
    BY <1>1, <2>2, <2>3 DEF Completes
<1>8. ASSUME NEW k \in 1 .. len - 1
      PROVE  heap'[Contents(b)[k].buffptr] = heap[Contents(buf)[k + n + 1 - len].buffptr]
  <2>1. PICK m \in 1 .. n : m = k + n + 1 - len
    BY <1>5
  <2>2. PICK s : s = Contents(b)[k].buffptr /\ s = Contents(buf)[m].buffptr
    BY <1>4, <1>a, <2>1 DEF MovedUp
  <2>3. s \in Ptrs /\ s # line_buf /\ s # q
    <3>1. PICK i \in SizedSlots(buf) : Contents(buf)[m] = buf.entry[i]
      BY <1>0, <1>3, <2>1, EntriesAre
    <3> QED
      BY <1>0, <1>7, <2>2, <3>1, EntryObjects
  <2>4. h2[s] # <<>>
    <3>1. PICK j \in 0 .. Held(b) - 1 : j = k - 1 /\ j + 1 = k
      BY <1>5, <1>a
    <3>2. b.entry[Slot(b, j)] = Contents(b)[k]
      BY <1>4, <3>1, ContentsSlot
    <3>3. Slot(b, j) \in SizedSlots(b)
      <4>1. \A d \in Entries : d.size \in Nat \ {0}
        BY DEF Entries
      <4>2. SizedSlots(b) = HeldSlots(b)
        BY <1>4, <4>1, RingSlots
      <4> QED
        BY <3>1, <4>2 DEF HeldSlots
    <3>4. PICK i \in SizedSlots(b) : b.entry[i].buffptr = s
      BY <2>2, <3>2, <3>3
    <3>5. b.entry[i].size > 0
      BY <3>4 DEF SizedSlots
    <3>6. Len(h2[s]) = b.entry[i].size
      BY <1>6, <3>4 DEF Stores
    <3> QED
      BY <3>5, <3>6
  <2>5. h2[s] = heap[s]
    BY <1>7, <2>3, <2>4 DEF Stored
  <2>6. heap'[s] = h2[s]
    <3>1. CASE heap' = h2
      BY <3>1
    <3>2. ASSUME NEW r \in FreePtrs(h2), heap' = kmalloc(h2, r, left) PROVE heap'[s] = h2[s]
      <4>1. r \in Ptrs /\ r # s
        BY <2>4 DEF FreePtrs
      <4> QED
        BY <2>3, <3>2, <4>1, KmallocIs
    <3> QED
      BY <1>1, <3>1, <3>2 DEF GoesOn
  <2> QED
    BY <2>1, <2>2, <2>5, <2>6
<1>9. Lines' = [k \in 1 .. Held(b) |-> heap'[Contents(b)[k].buffptr]]
  BY <1>3 DEF Lines
<1>10. ASSUME NEW k \in 1 .. len - 1
       PROVE  Lines'[k] = Lines[k + n + 1 - len]
  <2>1. k \in 1 .. Held(b)
    BY <1>5, <1>a
  <2>2. PICK m \in 1 .. n : m = k + n + 1 - len
    BY <1>5
  <2>3. Lines[m] = heap[Contents(buf)[m].buffptr]
    BY <1>3, <2>2 DEF Lines
  <2>4. Lines'[k] = heap'[Contents(b)[k].buffptr]
    BY <1>9, <2>1
  <2> QED
    BY <1>8, <2>2, <2>3, <2>4
<1>11. len = Min({n + 1, MAX})
  <2>1. PICK S : S = {n + 1, max}
    OBVIOUS
  <2>a. S \in SUBSET Nat /\ S # {}
    <3>1. n + 1 \in Nat
      BY <1>5
    <3> QED
      BY <2>1, <3>1
  <2>2. Min(S) \in S /\ \A m \in S : Min(S) <= m
    BY <2>a, MinOfSet
  <2> QED
    BY <1>4, <1>a, <2>1, <2>2
<1> QED
  BY <1>3, <1>a, <1>10, <1>11 DEF OneLineMore

\* Whatever a step does, the stored lines stay as they are or grow by one.
LEMMA LinesKept ==
  ASSUME CharInv, [Next]_vars, loaded, loaded'
  PROVE  Lines' = Lines \/ OneLineMore
<1>0. BufInv
  BY DEF CharInv
<1>1. ASSUME UNCHANGED <<buf, heap>> PROVE Lines' = Lines
  BY <1>0, <1>1, LinesSame DEF SameObjects
<1>2. ASSUME NEW p \in Procs, Step(p) PROVE Lines' = Lines \/ OneLineMore
  <2>1. CASE aesd_write(p)
    <3>1. buf' = buf /\ SameObjects
      BY <2>1, RoomSame DEF aesd_write
    <3> QED
      BY <1>0, <3>1, LinesSame
  <2>2. CASE aesd_write_fault(p) \/ aesd_write_byte(p) \/ aesd_write_no_entry(p)
    <3>1. InLoop(p) /\ buf' = buf
      BY <2>2 DEF aesd_write_fault, aesd_write_byte, aesd_write_no_entry
    <3>2. PICK byte \in Bytes : heap' = Fetched(byte)
      BY <2>2, <3>1, NextByteType, ModelValuesAssumption
      DEF CharInv, aesd_write_fault, aesd_write_byte, aesd_write_no_entry
    <3>3. SameObjects
      BY <3>1, <3>2, FetchSame
    <3> QED
      BY <1>0, <3>1, <3>3, LinesSame
  <2>3. CASE aesd_write_line(p)
    BY <2>3, LineAppended
  <2>4. CASE \/ Lock(p) \/ aesd_read(p) \/ aesd_llseek(p) \/ aesd_ioctl(p) \/ StoreSeek(p)
             \/ aesd_write_no_room(p) \/ aesd_write_done(p) \/ Leave(p)
    <3>1. UNCHANGED <<buf, heap>>
      BY <2>4 DEF Lock, aesd_read, aesd_llseek, aesd_ioctl, StoreSeek, aesd_write_no_room,
                  aesd_write_done, Leave, dev
    <3> QED
      BY <1>1, <3>1
  <2> QED
    BY <1>2, <2>1, <2>2, <2>3, <2>4 DEF Step
<1>3. ASSUME NEW p \in Procs, Interrupted(p) PROVE Lines' = Lines
  BY <1>1, <1>3 DEF Interrupted, dev
<1>4. ASSUME NEW p \in Procs, NEW f \in Files, NEW req \in Requests, Enter(p, f, req) PROVE Lines' = Lines
  BY <1>1, <1>4 DEF Enter, dev
<1>5. ASSUME NEW f \in Files, aesd_open(f) \/ aesd_release(f) PROVE Lines' = Lines
  BY <1>1, <1>5 DEF aesd_open, aesd_release, dev
<1>6. CASE UNCHANGED vars
  BY <1>1, <1>6 DEF vars, dev
<1>7. ~aesd_init_module /\ ~aesd_cleanup_module
  BY DEF aesd_init_module, aesd_cleanup_module
<1> QED
  BY <1>2, <1>3, <1>4, <1>5, <1>6, <1>7 DEF Next

\* A reader never sees a stored line change, vanish before it is the oldest of
\* MAX, or move past another.
THEOREM LinesOnlyGrow == Spec => StoredLinesKept
<1>1. CharInv /\ [Next]_vars =>
        [loaded /\ loaded' =>
           \/ Lines' = Lines
           \/ /\ Held(buf') = Min({Held(buf) + 1, MAX})
              /\ \A k \in 1 .. Held(buf') - 1 : Lines'[k] = Lines[k + Held(buf) + 1 - Held(buf')]]_vars
  BY LinesKept DEF OneLineMore
<1> QED
  BY <1>1, CharInvAlways, PTL DEF Spec, StoredLinesKept

-----------------------------------------------------------------------------
(* Seeks and positions.                                                      *)

\* How a step of p may move the call's position, which it leaves in the call c.
Moves(p, c) ==
  \/ c.pos = call[p].pos
  \/ c.pos = 0
  \/ \E n \in Nat : c.pos = call[p].pos + n /\ (call[p].pos % SIZE_T) + n <= buf.char_size
  \/ c.pos \in 0 .. buf.char_size
  \/ /\ c.pos % SIZE_T <= buf.char_size
     /\ c.req \in Requests /\ c.req.op = "llseek" /\ call[p].file \in Files
     /\ c.pos \in {c.req.off, f_pos[call[p].file] + c.req.off, buf.char_size + c.req.off}

\* What a step of p does to the positions and to the buffer.
Effect(p, c) ==
  /\ UNCHANGED opened
  /\ f_pos' = f_pos \/ f_pos' = [f_pos EXCEPT ![call[p].file] = call[p].pos]
  /\ Moves(p, c)
  /\ c.pc = "seek" => Aims(c, buf) /\ buf' = buf
  /\ call[p].pc \in Holding \/ buf' = buf
  /\ call[p].pc = "seek" => StoreSeek(p)

LEMMA StepEffect ==
  ASSUME CharInv, NEW p \in Procs, Step(p) \/ Interrupted(p)
  PROVE  \E c \in Calls : CallStep(p, c) /\ Effect(p, c)
<1>0. CallInv
  BY DEF CharInv
<1>1. CASE Lock(p)
  <2>1. PICK c \in Calls : CallStep(p, c) /\ c.pc = "locked" /\ c.pos = call[p].pos
    BY <1>0, <1>1, LockStep
  <2> QED
    BY <1>1, <2>1 DEF Effect, Moves, Lock, At, dev
<1>2. CASE Interrupted(p)
  <2>1. call[p].pc = "lock" /\ Return(p, ERESTART) /\ mtx' = mtx /\ ERESTART \in Int
    BY <1>2 DEF Interrupted, At, ERESTART
  <2>2. PICK c \in Calls : CallStep(p, c) /\ c.pc = "return" /\ c.pos = call[p].pos
    BY <1>0, <2>1, RefusedReturns
  <2> QED
    BY <1>2, <2>1, <2>2 DEF Effect, Moves, Interrupted, dev
<1>3. CASE aesd_read(p)
  <2>1. PICK c \in Calls : /\ CallStep(p, c) /\ c.pc = "return"
                           /\ \/ c.pos = call[p].pos
                              \/ \E n \in Nat : /\ c.pos = call[p].pos + n
                                                /\ (call[p].pos % SIZE_T) + n <= buf.char_size
    BY <1>3, ReadStep
  <2>2. Moves(p, c)
    BY <2>1 DEF Moves
  <2> QED
    BY <1>3, <2>1, <2>2 DEF Effect, aesd_read, InHandler, At, dev
<1>4. CASE aesd_llseek(p)
  <2>1. PICK c \in Calls : /\ CallStep(p, c) /\ c.req = call[p].req /\ c.req.op = "llseek"
                           /\ \/ c.pc = "return" /\ c.pos = call[p].pos
                              \/ /\ c.pc = "seek" /\ Aims(c, buf)
                                 /\ c.pos \in {c.req.off, f_pos[call[p].file] + c.req.off,
                                               buf.char_size + c.req.off}
    BY <1>4, LlseekStep
  <2>2. call[p].pc = "locked" /\ UNCHANGED <<opened, f_pos, buf>>
    BY <1>4 DEF aesd_llseek, InHandler, At, dev
  <2>3. call[p].file \in Files /\ c.req \in Requests
    BY <1>0, <2>1, <2>2, CallType
  <2>4. Moves(p, c)
    BY <2>1, <2>3 DEF Moves, Aims
  <2>5. c.pc = "seek" => Aims(c, buf)
    BY <2>1
  <2> QED
    BY <2>1, <2>2, <2>4, <2>5 DEF Effect
<1>5. CASE aesd_ioctl(p)
  <2>1. PICK c \in Calls : /\ CallStep(p, c)
                           /\ \/ c.pc = "return" /\ c.pos = call[p].pos
                              \/ c.pc = "seek" /\ Aims(c, buf) /\ c.pos \in 0 .. buf.char_size
    BY <1>5, IoctlStep
  <2>2. call[p].pc = "locked" /\ UNCHANGED <<opened, f_pos, buf>>
    BY <1>5 DEF aesd_ioctl, InHandler, At, dev
  <2>3. Moves(p, c)
    BY <2>1 DEF Moves
  <2>4. c.pc = "seek" => Aims(c, buf)
    BY <2>1
  <2> QED
    BY <2>1, <2>2, <2>3, <2>4 DEF Effect
<1>6. CASE StoreSeek(p)
  <2>1. PICK c \in Calls : CallStep(p, c) /\ c.pc = "return" /\ c.pos = call[p].pos
    BY <1>0, <1>6, StoreSeekStep
  <2>2. UNCHANGED <<opened, buf>> /\ f_pos' = [f_pos EXCEPT ![call[p].file] = call[p].pos]
    BY <1>6 DEF StoreSeek, dev
  <2> QED
    BY <1>6, <2>1, <2>2 DEF Effect, Moves
<1>7. CASE aesd_write(p)
  <2>1. PICK c \in Calls : CallStep(p, c) /\ c.pc = "loop" /\ c.pos = call[p].pos
    BY <1>7, WriteStarts
  <2> QED
    BY <1>7, <2>1 DEF Effect, Moves, aesd_write, InHandler, At
<1>8. CASE aesd_write_no_room(p)
  <2>1. PICK c \in Calls : CallStep(p, c) /\ c.pc = "return" /\ c.pos = call[p].pos
    BY <1>8, NoRoom
  <2> QED
    BY <1>8, <2>1 DEF Effect, Moves, aesd_write_no_room, InHandler, At
<1>9. CASE aesd_write_fault(p) \/ aesd_write_no_entry(p)
  <2>1. PICK c \in Calls : CallStep(p, c) /\ c.pc = "return" /\ c.pos = call[p].pos
    BY <1>9, ByteFails
  <2> QED
    BY <1>9, <2>1 DEF Effect, Moves, aesd_write_fault, aesd_write_no_entry, InLoop, At
<1>10. CASE aesd_write_byte(p)
  <2>1. PICK c \in Calls : CallStep(p, c) /\ c.pc = "loop" /\ c.pos = call[p].pos
    BY <1>10, ByteInside
  <2> QED
    BY <1>10, <2>1 DEF Effect, Moves, aesd_write_byte, InLoop, At
<1>11. CASE aesd_write_line(p)
  <2>1. PICK c \in Calls : CallStep(p, c) /\ c.pc \in {"loop", "return"} /\ c.pos = call[p].pos
    BY <1>11, LineEnds
  <2>2. call[p].pc = "loop" /\ UNCHANGED <<opened, f_pos>>
    BY <1>11 DEF aesd_write_line, InLoop, At
  <2> QED
    BY <2>1, <2>2 DEF Effect, Moves, Holding
<1>12. CASE aesd_write_done(p)
  <2>1. call[p].pc = "loop" /\ call[p].pc \in Holding /\ call[p].bytes_written \in Int
    BY <1>0, <1>12, CallType DEF aesd_write_done, At, Holding, Calls
  <2>2. PICK c \in Calls : CallStep(p, c) /\ c.pc = "return" /\ c.pos = call[p].pos
    BY <1>0, <1>12, <2>1, UnlockReturns DEF aesd_write_done
  <2> QED
    BY <1>12, <2>1, <2>2 DEF Effect, Moves, aesd_write_done, dev
<1>13. CASE Leave(p)
  <2>1. PICK c \in Calls : CallStep(p, c) /\ c.pc = "idle" /\ c.pos = 0
    BY <1>0, <1>13, LeaveStep
  <2>2. call[p].pc = "return" /\ UNCHANGED <<opened, buf>>
        /\ (f_pos' = f_pos \/ f_pos' = [f_pos EXCEPT ![call[p].file] = call[p].pos])
    BY <1>13 DEF Leave, At, dev
  <2> QED
    BY <2>1, <2>2 DEF Effect, Moves
<1> QED
  BY <1>1, <1>2, <1>3, <1>4, <1>5, <1>6, <1>7, <1>8, <1>9, <1>10, <1>11, <1>12, <1>13 DEF Step

\* A seek under way is valid in the buffer as it is: nobody else can change the
\* buffer while the seek has the mutex.
SeekInv == \A p \in Procs : Aims(call[p], buf)

LEMMA OthersAims ==
  ASSUME CallInv, SeekInv, NEW p \in Procs, NEW q \in Procs \ {p}, NEW c, CallStep(p, c),
         call[p].pc \in Holding \/ buf' = buf
  PROVE  Aims(call'[q], buf')
<1>1. call'[q] = call[q]
  BY DEF CallStep, CallInv
<1>2. CASE buf' = buf
  BY <1>1, <1>2 DEF SeekInv
<1>3. CASE call[p].pc \in Holding
  <2>1. call[q].pc # "seek"
    BY <1>3, CallType DEF Holding
  <2> QED
    BY <1>1, <2>1 DEF Aims
<1> QED
  BY <1>2, <1>3

LEMMA AimsKept ==
  ASSUME CharInv, SeekInv, [Next]_vars
  PROVE  SeekInv'
<1>0. CallInv
  BY DEF CharInv
<1>1. ASSUME NEW p \in Procs, NEW c, CallStep(p, c), call[p].pc \in Holding \/ buf' = buf,
             c.pc = "seek" => Aims(c, buf) /\ buf' = buf
      PROVE  SeekInv'
  <2>1. Aims(call'[p], buf')
    <3>1. call'[p] = c
      BY <1>0, <1>1 DEF CallStep, CallInv
    <3>2. CASE c.pc = "seek"
      BY <1>1, <3>1, <3>2
    <3>3. CASE c.pc # "seek"
      BY <3>1, <3>3 DEF Aims
    <3> QED
      BY <3>2, <3>3
  <2>2. \A q \in Procs \ {p} : Aims(call'[q], buf')
    BY <1>0, <1>1, OthersAims
  <2> QED
    BY <2>1, <2>2 DEF SeekInv
<1>2. ASSUME NEW p \in Procs, Step(p) \/ Interrupted(p) PROVE SeekInv'
  BY <1>1, <1>2, StepEffect DEF Effect
<1>3. ASSUME NEW p \in Procs, NEW f \in Files, NEW req \in Requests, Enter(p, f, req) PROVE SeekInv'
  <2>1. PICK c \in Calls : CallStep(p, c) /\ c.pc \in {"lock", "return"}
    BY <1>0, <1>3, EnterStep
  <2>2. buf' = buf
    BY <1>3 DEF Enter, dev
  <2> QED
    BY <1>1, <2>1, <2>2
<1>4. ASSUME NEW f \in Files, aesd_open(f) \/ aesd_release(f) PROVE SeekInv'
  BY <1>4 DEF SeekInv, aesd_open, aesd_release, dev
<1>5. CASE aesd_init_module
  <2>1. \A p \in Procs : call'[p].pc = "idle"
    BY <1>0, <1>5, AllIdle DEF aesd_init_module, CallInv
  <2> QED
    BY <2>1 DEF SeekInv, Aims
<1>6. CASE aesd_cleanup_module \/ UNCHANGED vars
  BY <1>6 DEF aesd_cleanup_module, vars, dev, SeekInv
<1> QED
  BY <1>2, <1>3, <1>4, <1>5, <1>6 DEF Next

\* The half of a size_t that a loff_t can name, the offsets a seek can have, and
\* the devices that fit.
Halves(H) == SIZE_T = 2 * H /\ \A r \in Requests : r.op = "llseek" => r.off \in -H .. H - 1
Fits(H) == buf.char_size < H

PosInv(H) == (\A f \in Files : f_pos[f] \in 0 .. H - 1) /\ \A p \in Procs : call[p].pos \in 0 .. H - 1

\* The remainders the conversion to size_t leaves.
LEMMA Converted ==
  ASSUME NEW H \in Nat \ {0}, NEW x \in -H .. 2 * H - 1
  PROVE  x % (2 * H) = IF x < 0 THEN x + 2 * H ELSE x
<1>1. PICK T \in Nat \ {0} : T = 2 * H
  <2>1. 2 * H \in Nat \ {0}
    OBVIOUS
  <2> QED
    BY <2>1
<1>2. CASE x < 0
  <2>1. x + T \in 0 .. T - 1 /\ x = T * (-1) + (x + T)
    BY <1>1, <1>2
  <2>2. x % T = x + T
    BY <1>1, <2>1
  <2> QED
    BY <1>1, <1>2, <2>2
<1>3. CASE ~(x < 0)
  <2>1. x \in 0 .. T - 1
    BY <1>1, <1>3
  <2>2. x % T = x
    BY <1>1, <2>1
  <2> QED
    BY <1>1, <1>3, <2>2
<1> QED
  BY <1>2, <1>3

LEMMA MoveInside ==
  ASSUME NEW H \in Nat \ {0}, Halves(H), Fits(H), PosInv(H), BufInv, NEW p \in Procs, NEW c, Moves(p, c)
  PROVE  c.pos \in 0 .. H - 1
<1>1. PICK size \in Nat, pos \in 0 .. H - 1 : size = buf.char_size /\ size < H /\ pos = call[p].pos
  BY EntriesAre DEF Fits, PosInv
<1>2. CASE c.pos = pos \/ c.pos = 0
  BY <1>2
<1>3. CASE c.pos \in 0 .. size
  BY <1>1, <1>3
<1>4. ASSUME NEW n \in Nat, c.pos = pos + n, (pos % SIZE_T) + n <= size
      PROVE  c.pos \in 0 .. H - 1
  <2>1. pos \in -H .. 2 * H - 1 /\ ~(pos < 0)
    OBVIOUS
  <2>2. pos % (2 * H) = pos
    BY <2>1, Converted
  <2>3. pos + n <= size
    BY <1>4, <2>2 DEF Halves
  <2> QED
    BY <1>1, <1>4, <2>3
<1>5. ASSUME c.pos % SIZE_T <= size, c.req \in Requests, c.req.op = "llseek", call[p].file \in Files,
             c.pos \in {c.req.off, f_pos[call[p].file] + c.req.off, size + c.req.off}
      PROVE  c.pos \in 0 .. H - 1
  <2>1. PICK off \in -H .. H - 1, from \in 0 .. H - 1 : off = c.req.off /\ from = f_pos[call[p].file]
    BY <1>5 DEF Halves, PosInv
  <2>2. PICK x : x = c.pos
    OBVIOUS
  <2>3. x \in {off, from + off, size + off}
    BY <1>5, <2>1, <2>2
  <2>4. x \in -H .. 2 * H - 1
    BY <1>1, <2>3
  <2>5. x % (2 * H) <= size
    BY <1>5, <2>2 DEF Halves
  <2>6. x % (2 * H) = IF x < 0 THEN x + 2 * H ELSE x
    BY <2>4, Converted
  <2>7. CASE x < 0
    <3>1. x + 2 * H <= size
      BY <2>5, <2>6, <2>7
    <3>2. x + 2 * H >= H
      BY <2>4
    <3> QED
      BY <1>1, <2>4, <3>1, <3>2
  <2>8. CASE ~(x < 0)
    BY <1>1, <2>2, <2>4, <2>5, <2>6, <2>8
  <2> QED
    BY <2>7, <2>8
<1> QED
  BY <1>1, <1>2, <1>3, <1>4, <1>5 DEF Moves

LEMMA PositionsKept ==
  ASSUME NEW H \in Nat \ {0}, Halves(H), Fits(H), PosInv(H), CharInv, [Next]_vars
  PROVE  PosInv(H)'
<1>0. CallInv /\ BufInv
  BY DEF CharInv
<1>z. 0 \in 0 .. H - 1
  OBVIOUS
<1>1. ASSUME NEW p \in Procs, NEW c \in Calls, CallStep(p, c), c.pos \in 0 .. H - 1,
             f_pos' = f_pos \/ f_pos' = [f_pos EXCEPT ![call[p].file] = call[p].pos]
      PROVE  PosInv(H)'
  <2>1. \A q \in Procs : call'[q].pos \in 0 .. H - 1
    <3>1. \A q \in Procs : call'[q] = IF q = p THEN c ELSE call[q]
      BY <1>0, <1>1 DEF CallStep, CallInv
    <3> QED
      BY <1>1, <3>1 DEF PosInv
  <2>2. \A f \in Files : f_pos'[f] \in 0 .. H - 1
    BY <1>0, <1>1 DEF PosInv, CallInv
  <2> QED
    BY <2>1, <2>2 DEF PosInv
<1>2. ASSUME NEW p \in Procs, Step(p) \/ Interrupted(p) PROVE PosInv(H)'
  <2>1. PICK c \in Calls : CallStep(p, c) /\ Effect(p, c)
    BY <1>2, StepEffect
  <2>2. c.pos \in 0 .. H - 1
    BY <1>0, <2>1, MoveInside DEF Effect
  <2> QED
    BY <1>1, <2>1, <2>2 DEF Effect
<1>3. ASSUME NEW p \in Procs, NEW f \in Files, NEW req \in Requests, Enter(p, f, req) PROVE PosInv(H)'
  <2>1. PICK c \in Calls : CallStep(p, c) /\ c.pos = f_pos[f]
    BY <1>0, <1>3, EnterStep
  <2>2. f_pos' = f_pos
    BY <1>3 DEF Enter
  <2> QED
    BY <1>1, <2>1, <2>2 DEF PosInv
<1>4. ASSUME NEW f \in Files, aesd_open(f) \/ aesd_release(f) PROVE PosInv(H)'
  <2>1. f_pos' = f_pos \/ f_pos' = [f_pos EXCEPT ![f] = 0]
    BY <1>4 DEF aesd_open, aesd_release
  <2>2. \A g \in Files : f_pos'[g] \in 0 .. H - 1
    BY <1>0, <1>z, <2>1 DEF PosInv, CallInv
  <2> QED
    BY <1>4, <2>2 DEF PosInv, aesd_open, aesd_release
<1>5. CASE aesd_init_module \/ aesd_cleanup_module \/ UNCHANGED vars
  BY <1>5 DEF aesd_init_module, aesd_cleanup_module, vars, dev, PosInv
<1> QED
  BY <1>2, <1>3, <1>4, <1>5 DEF Next

\* As long as the device holds less than half of the bytes a size_t can count, no
\* call leaves a negative position behind, although llseek compares the signed
\* new position with an unsigned size.
THEOREM PositionsStayInside ==
  ASSUME NEW H \in Nat \ {0}, Halves(H)
  PROVE  Spec /\ []Fits(H) => []PosNonNegative
<1>1. Init => PosInv(H)
  <2> SUFFICES ASSUME Init PROVE PosInv(H)
    OBVIOUS
  <2>1. 0 \in 0 .. H - 1 /\ NoCall.pos = 0
    BY DEF NoCall
  <2> QED
    BY <2>1 DEF Init, PosInv
<1>2. CharInv /\ Fits(H) /\ PosInv(H) /\ [Next]_vars => PosInv(H)'
  BY PositionsKept
<1>3. PosInv(H) => PosNonNegative
  BY DEF PosInv, PosNonNegative
<1> QED
  BY <1>1, <1>2, <1>3, CharInvAlways, PTL DEF Spec

\* A seek stores the position it was validated for, in the device as it is then.
LEMMA SeekLands ==
  ASSUME NEW H \in Nat \ {0}, Halves(H), Fits(H), PosInv(H), CharInv, SeekInv, [Next]_vars,
         NEW p \in Procs, At(p, "seek"), call'[p].pc = "return"
  PROVE  LET c   == call[p]
             pos == f_pos'[c.file]
         IN  /\ pos \in 0 .. buf'.char_size
             /\ c.req.op = "ioctl" =>
                  /\ c.req.write_cmd < Held(buf')
                  /\ FindEntryOffsetForFpos(buf', pos) =
                       [entry  |-> Contents(buf')[c.req.write_cmd + 1],
                        offset |-> c.req.write_cmd_offset]
<1>0. CallInv /\ BufInv /\ call[p].pc = "seek" /\ opened # {} /\ loaded
  BY CallType DEF CharInv, At
<1>1. StoreSeek(p)
  <2>1. ASSUME NEW q \in Procs, NEW c, CallStep(q, c), q # p PROVE FALSE
    <3>1. call'[p] = call[p]
      BY <1>0, <2>1 DEF CallStep, CallInv
    <3> QED
      BY <1>0, <3>1
  <2>2. ASSUME NEW q \in Procs, Step(q) \/ Interrupted(q) PROVE StoreSeek(p)
    <3>1. PICK c \in Calls : CallStep(q, c) /\ Effect(q, c)
      BY <2>2, StepEffect
    <3>2. q = p
      BY <2>1, <3>1
    <3> QED
      BY <1>0, <3>1, <3>2 DEF Effect
  <2>3. ASSUME NEW q \in Procs, NEW f \in Files, NEW req \in Requests, Enter(q, f, req) PROVE FALSE
    <3>1. call[q].pc = "idle" /\ q # p
      BY <1>0, <2>3 DEF Enter, At
    <3> QED
      BY <1>0, <2>1, <2>3, <3>1, EnterStep
  <2>4. ASSUME call' = call PROVE FALSE
    BY <1>0, <2>4
  <2> QED
    BY <2>2, <2>3, <2>4 DEF Next, aesd_init_module, aesd_cleanup_module, aesd_open, aesd_release, vars
<1>2. PICK c, pos : c = call[p] /\ pos = c.pos
  OBVIOUS
<1>3. /\ c.file \in Files /\ c.req \in Requests /\ c.req.op \in {"llseek", "ioctl"}
      /\ Aims(c, buf) /\ pos \in 0 .. H - 1
  BY <1>0, <1>2, CallType DEF Sound, SeekInv, PosInv
<1>4. f_pos'[c.file] = pos /\ buf' = buf
  BY <1>0, <1>1, <1>2, <1>3 DEF StoreSeek, CallInv, dev
<1>5. PICK size \in Nat : size = buf.char_size
  BY <1>0, EntriesAre
<1>6. CASE c.req.op = "llseek"
  <2>1. pos \in -H .. 2 * H - 1 /\ ~(pos < 0)
    BY <1>3
  <2>2. pos % SIZE_T = pos
    BY <2>1, Converted DEF Halves
  <2>3. pos <= size
    BY <1>0, <1>2, <1>3, <1>5, <1>6, <2>2 DEF Aims
  <2> QED
    BY <1>2, <1>3, <1>4, <1>5, <1>6, <2>3
<1>7. CASE c.req.op = "ioctl"
  <2>1. PICK k \in Nat, off \in Nat : k = c.req.write_cmd /\ off = c.req.write_cmd_offset
    BY <1>3, <1>7, RequestsAssumption
  <2>2. pos = FindFposForEntryOffset(buf, k, off) /\ pos >= 0
    BY <1>0, <1>2, <1>3, <1>7, <2>1 DEF Aims
  <2>3. pos # -1
    BY <1>3
  <2>4. k < Held(buf) /\ FindEntryOffsetForFpos(buf, pos) = [entry |-> Contents(buf)[k+1], offset |-> off]
    BY <1>0, <2>2, <2>3, EntriesAre, SearchesInverse
  <2>5. pos \in 0 .. size
    <3>1. pos = -1 \/ pos \in 0 .. size - 1
      BY <1>0, <1>5, <2>2, EntriesAre, FindsFpos
    <3> QED
      BY <2>3, <3>1
  <2> QED
    BY <1>2, <1>4, <1>5, <2>1, <2>4, <2>5
<1> QED
  BY <1>3, <1>6, <1>7

\* A seek that succeeds lands on the byte asked for, in the device as it is when
\* the position is stored, whatever other processes have done to the device and
\* to the file's position in the meantime.
THEOREM SeeksLandCorrect ==
  ASSUME NEW H \in Nat \ {0}, Halves(H)
  PROVE  Spec /\ []Fits(H) => SeeksLand
<1>1. Init => PosInv(H) /\ SeekInv
  <2> SUFFICES ASSUME Init PROVE PosInv(H) /\ SeekInv
    OBVIOUS
  <2>1. 0 \in 0 .. H - 1 /\ NoCall.pos = 0 /\ NoCall.pc = "idle"
    BY DEF NoCall
  <2> QED
    BY <2>1 DEF Init, PosInv, SeekInv, Aims
<1>2. CharInv /\ Fits(H) /\ PosInv(H) /\ SeekInv /\ [Next]_vars => PosInv(H)' /\ SeekInv'
  BY PositionsKept, AimsKept
<1>3. CharInv /\ Fits(H) /\ PosInv(H) /\ SeekInv /\ [Next]_vars =>
        [\A p \in Procs : At(p, "seek") /\ call'[p].pc = "return" =>
           LET c   == call[p]
               pos == f_pos'[c.file]
           IN  /\ pos \in 0 .. buf'.char_size
               /\ c.req.op = "ioctl" =>
                    /\ c.req.write_cmd < Held(buf')
                    /\ FindEntryOffsetForFpos(buf', pos) =
                         [entry  |-> Contents(buf')[c.req.write_cmd + 1],
                          offset |-> c.req.write_cmd_offset]]_vars
  BY SeekLands
<1> QED
  BY <1>1, <1>2, <1>3, CharInvAlways, PTL DEF Spec, SeeksLand

-----------------------------------------------------------------------------
(* What the stored bytes are.                                                *)

\* The first n bytes are in S, and a line of them that ends with its newline.
BytesIn(bytes, n, S) == \A i \in 1 .. n : bytes[i] \in S
LineIn(line, S) == \E n \in Nat : Len(line) = n + 1 /\ BytesIn(line, n, S) /\ line[n + 1] = NL

\* The bytes of S before the end of a line: all that processes write, the 0 that a
\* get_user that faults leaves, and a newline whose entry could not be allocated.
Stays(S) ==
  /\ "krealloc" \notin FailSites
  /\ "get_user" \in FailSites => ZERO \in S
  /\ "entry_kmalloc" \in FailSites => NL \in S
  /\ \A r \in Requests : r.op = "write" /\ r.data \in Seq(Bytes) => \A i \in 1 .. Len(r.data) : r.data[i] \in S \cup {NL}

EntriesIn(b, h, S) == \A i \in SizedSlots(b) : LineIn(h[b.entry[i].buffptr], S)

BytesInv(S) ==
  loaded => /\ line_len > 0 => line_buf # NULL /\ BytesIn(heap[line_buf], line_len, S)
            /\ EntriesIn(buf, heap, S)

LEMMA EntriesStay ==
  ASSUME NEW S, EntriesIn(buf, heap, S), buf' = buf, SameObjects
  PROVE  EntriesIn(buf', heap', S)
BY DEF EntriesIn, SameObjects

\* The bytes of a line stay when its object is widened.
LEMMA RoomKeepsLine ==
  ASSUME CharInv, NEW p \in Procs, aesd_write(p), line_len > 0, line_buf # NULL
  PROVE  /\ line_buf \in Ptrs /\ line_buf' \in Ptrs
         /\ line_len <= Len(heap[line_buf]) /\ line_len <= Len(heap'[line_buf'])
         /\ \A i \in 1 .. line_len : heap'[line_buf'][i] = heap[line_buf][i]
<1>0. CallInv /\ loaded /\ MemInv /\ NULL \notin Ptrs
  BY CallType DEF CharInv, At, aesd_write, InHandler
<1>1. heap \in [Ptrs -> Memory] /\ line_buf \in Ptrs /\ line_len \in Nat
  BY <1>0 DEF MemInv, Stores
<1>2. PICK count \in Nat : count = Len(call[p].req.data)
  <2>1. call[p].req.data \in Seq(Bytes)
    BY <1>0, CallType DEF Sound, aesd_write, InHandler, At
  <2> QED
    BY <2>1, LenProperties
<1>3. PICK q \in FreePtrs(heap) \cup ({line_buf} \ {NULL}) :
        heap' = krealloc(heap, line_buf, q, WidenedSize(count)) /\ line_buf' = q
  BY <1>2 DEF aesd_write
<1>4. q \in Ptrs
  BY <1>1, <1>3 DEF FreePtrs
<1>5. WidenedSize(count) \in Nat
  BY <1>1 DEF WidenedSize
<1>6. PICK h \in [Ptrs -> Memory], old \in Ptrs \cup {NULL}, new \in Ptrs, size \in Nat :
        h = heap /\ old = line_buf /\ new = q /\ size = WidenedSize(count)
  BY <1>1, <1>4, <1>5
<1>7. /\ krealloc(h, old, new, size) \in [Ptrs -> Memory] /\ Len(krealloc(h, old, new, size)[new]) = size
      /\ \A r \in Ptrs \ {new} : krealloc(h, old, new, size)[r] = IF r = old THEN <<>> ELSE h[r]
      /\ old # NULL => KeepsBytes(h[old], krealloc(h, old, new, size)[new])
  BY ONLY KreallocIs, h \in [Ptrs -> Memory], old \in Ptrs \cup {NULL}, new \in Ptrs, size \in Nat
<1>8. KeepsBytes(heap[line_buf], heap'[q]) /\ Len(heap'[q]) = WidenedSize(count)
  BY <1>3, <1>6, <1>7
<1>9. PICK len \in Nat, have \in Nat : len = line_len /\ have = Len(heap[line_buf]) /\ have >= len
  <2>1. PICK len \in Nat : len = line_len
    BY <1>1
  <2>2. heap[line_buf] \in Memory
    BY <1>1
  <2>3. PICK have \in Nat : have = Len(heap[line_buf])
    BY <2>2, LenProperties DEF Memory
  <2>4. Len(heap[line_buf]) >= line_len
    BY <1>0 DEF MemInv
  <2>5. have >= len
    BY <2>1, <2>3, <2>4
  <2> QED
    BY <2>1, <2>3, <2>5
<1>10. Len(heap'[q]) = len + count
  BY <1>8, <1>9 DEF WidenedSize
<1>11. ASSUME NEW i \in 1 .. len PROVE heap'[q][i] = heap[line_buf][i]
  <2>1. i \in 1 .. Len(heap'[q]) /\ i <= Len(heap[line_buf])
    BY <1>9, <1>10
  <2> QED
    BY <1>8, <2>1 DEF KeepsBytes
<1>12. len <= len + count
  OBVIOUS
<1> QED
  BY <1>1, <1>3, <1>4, <1>9, <1>10, <1>11, <1>12

LEMMA RoomKeepsBytes ==
  ASSUME NEW S, CharInv, BytesInv(S), NEW p \in Procs, aesd_write(p)
  PROVE  BytesInv(S)'
<1>0. /\ CallInv /\ BufInv /\ loaded /\ NULL \notin Ptrs
      /\ UNCHANGED <<loaded, buf, line_len>>
  BY CallType DEF CharInv, At, aesd_write, InHandler
<1>1. EntriesIn(buf', heap', S)
  BY <1>0, RoomSame, EntriesStay DEF BytesInv
<1>2. ASSUME line_len > 0
      PROVE  line_buf' # NULL /\ BytesIn(heap'[line_buf'], line_len, S)
  <2>1. line_buf # NULL /\ BytesIn(heap[line_buf], line_len, S)
    BY <1>0, <1>2 DEF BytesInv
  <2>2. line_buf' \in Ptrs /\ \A i \in 1 .. line_len : heap'[line_buf'][i] = heap[line_buf][i]
    BY <1>2, <2>1, RoomKeepsLine
  <2> QED
    BY <1>0, <2>1, <2>2 DEF BytesIn
<1> QED
  BY <1>0, <1>1, <1>2 DEF BytesInv

\* A byte of S is stored behind the line.
LEMMA FetchKeepsBytes ==
  ASSUME NEW S, CharInv, BytesInv(S), NEW p \in Procs, InLoop(p), NEW byte \in S, byte \in Bytes,
         heap' = Fetched(byte), line_len' = line_len + 1, UNCHANGED <<loaded, buf, line_buf>>
  PROVE  BytesInv(S)'
<1>0. CallInv /\ BufInv /\ MemInv /\ loaded /\ NULL \notin Ptrs
  BY LineOf, OneLoop DEF CharInv, InLoop, At, Holding
<1>1. EntriesIn(buf', heap', S)
  BY <1>0, FetchSame, EntriesStay DEF BytesInv
<1>2. line_buf \in Ptrs /\ line_len \in Nat
  BY <1>0 DEF MemInv
<1>3. PICK g : g = Fetched(byte)
  OBVIOUS
<1>4. /\ line_len + 1 \in 1 .. Len(heap[line_buf])
      /\ \A i \in 1 .. Len(heap[line_buf]) : g[line_buf][i] = IF i = line_len + 1 THEN byte ELSE heap[line_buf][i]
  BY <1>3, FetchedIs
<1>5. PICK len \in Nat, size \in Nat : len = line_len /\ size = Len(heap[line_buf]) /\ len + 1 <= size
  <2>1. heap[line_buf] \in Memory
    BY <1>0, <1>2 DEF MemInv, Stores
  <2>2. Len(heap[line_buf]) \in Nat
    BY <2>1, LenProperties DEF Memory
  <2> QED
    BY <1>2, <1>4, <2>2
<1>6. ASSUME NEW i \in 1 .. len + 1 PROVE g[line_buf][i] \in S
  <2>1. i \in 1 .. Len(heap[line_buf])
    BY <1>5
  <2>2. CASE i = len + 1
    BY <1>4, <1>5, <2>1, <2>2
  <2>3. CASE i # len + 1
    <3>1. i \in 1 .. len /\ len > 0
      BY <1>5, <2>3
    <3>2. heap[line_buf][i] \in S
      BY <1>0, <1>5, <3>1 DEF BytesInv, BytesIn
    <3> QED
      BY <1>4, <1>5, <2>1, <2>3, <3>2
  <2> QED
    BY <2>2, <2>3
<1>7. line_buf' # NULL /\ BytesIn(heap'[line_buf'], line_len', S)
  BY <1>0, <1>2, <1>3, <1>5, <1>6 DEF BytesIn
<1> QED
  BY <1>1, <1>7 DEF BytesInv

\* The objects of the entries after a line has been added.
LEMMA LineObjects ==
  ASSUME CharInv, NEW p \in Procs, InLoop(p),
         NEW h \in [Ptrs -> Memory], NEW q \in Ptrs, NEW line \in Memory, NEW e \in Entries,
         NEW h2 \in [Ptrs -> Memory], NEW left \in Nat,
         Completes(p, h, q, line, e, h2), GoesOn(p, left, h2),
         NEW b, b = AddEntry(buf, e), NEW i \in SizedSlots(b)
  PROVE  /\ b = buf'
         /\ i # buf.in_offs => i \in SizedSlots(buf)
         /\ heap'[b.entry[i].buffptr] = IF i = buf.in_offs THEN line ELSE heap[buf.entry[i].buffptr]
<1>0. /\ CallInv /\ BufInv /\ MemInv /\ loaded /\ LinePtrs = {line_buf}
  BY LineOf, OneLoop DEF CharInv, InLoop, At, Holding
<1>1. b = buf' /\ e.buffptr = q
  BY DEF Completes
<1>2. b.entry[i] = (IF i = buf.in_offs THEN e ELSE buf.entry[i])
      /\ (i # buf.in_offs => i \in SizedSlots(buf))
  BY <1>0, AddedSlots
<1>3. PICK s : s = b.entry[i].buffptr
  OBVIOUS
<1>4. Stores(b, h2, lost, {})
  BY <1>0, <1>1, LineKept
<1>5. h2[s] # <<>> /\ s \in Ptrs
  <2>1. Len(h2[s]) = b.entry[i].size /\ s \in Ptrs
    BY <1>3, <1>4 DEF Stores
  <2>2. b.entry[i].size > 0
    BY DEF SizedSlots
  <2> QED
    BY <2>1, <2>2
<1>6. heap'[s] = h2[s]
  <2>1. CASE heap' = h2
    BY <2>1
  <2>2. ASSUME NEW r \in FreePtrs(h2), heap' = kmalloc(h2, r, left) PROVE heap'[s] = h2[s]
    <3>1. r \in Ptrs /\ r # s
      BY <1>5 DEF FreePtrs
    <3> QED
      BY <1>5, <2>2, <3>1, KmallocIs
  <2> QED
    BY <2>1, <2>2 DEF GoesOn
<1>7. h2[s] = IF s = q THEN line ELSE h[s]
  BY <1>5 DEF Completes, Stored
<1>8. CASE i = buf.in_offs
  BY <1>1, <1>2, <1>3, <1>6, <1>7, <1>8
<1>9. CASE i # buf.in_offs
  <2>1. s = buf.entry[i].buffptr /\ s \in Ptrs \ {line_buf} /\ s \notin FreePtrs(heap)
    BY <1>0, <1>2, <1>3, <1>9, EntryObjects
  <2>2. s # q
    BY <2>1 DEF Completes
  <2>3. h[s] = heap[s]
    <3>1. NL \in Bytes
      BY ModelValuesAssumption
    <3>2. PICK g : g = Fetched(NL)
      OBVIOUS
    <3>3. g[s] = heap[s]
      BY <2>1, <3>1, <3>2, FetchedIs
    <3> QED
      BY <3>2, <3>3 DEF Completes
  <2> QED
    BY <1>1, <1>2, <1>3, <1>6, <1>7, <1>9, <2>1, <2>2, <2>3
<1> QED
  BY <1>1, <1>2, <1>8, <1>9

\* The new entry is the line, and ends with the newline just stored.
LEMMA CopyIsLine ==
  ASSUME NEW S, CharInv, BytesInv(S), NEW p \in Procs, InLoop(p), NEW h, h = Fetched(NL),
         NEW line, line = EntryCopy(h[line_buf], line_len + 1)
  PROVE  LineIn(line, S)
<1>0. MemInv /\ loaded /\ NL \in Bytes
  BY OneLoop, ModelValuesAssumption DEF CharInv
<1>1. h \in [Ptrs -> Memory] /\ line_buf \in Ptrs
  BY <1>0, FetchedIs DEF MemInv
<1>2. /\ line_len + 1 \in 1 .. Len(heap[line_buf]) /\ Len(h[line_buf]) = Len(heap[line_buf])
      /\ \A i \in 1 .. Len(heap[line_buf]) : h[line_buf][i] = IF i = line_len + 1 THEN NL ELSE heap[line_buf][i]
  BY <1>0, FetchedIs
<1>3. PICK s \in Memory : s = h[line_buf]
  BY <1>1
<1>4. PICK len \in Nat, size \in Nat : len = line_len /\ size = Len(s) /\ len + 1 <= size /\ size = Len(heap[line_buf])
  <2>1. PICK len \in Nat : len = line_len
    BY <1>0 DEF MemInv
  <2>2. PICK size \in Nat : size = Len(s)
    BY LenProperties DEF Memory
  <2>3. size = Len(heap[line_buf])
    BY <1>2, <1>3, <2>2
  <2>4. len + 1 <= size
    BY <1>2, <2>1, <2>3
  <2> QED
    BY <2>1, <2>2, <2>3, <2>4
<1>5. ASSUME NEW i \in 1 .. len + 1 PROVE s[i] = IF i = len + 1 THEN NL ELSE heap[line_buf][i]
  <2>1. i \in 1 .. Len(heap[line_buf])
    BY <1>4
  <2> QED
    BY <1>2, <1>3, <1>4, <2>1
<1>6. \A i \in 1 .. len + 1 : s[i] \in Bytes \cup {UNINIT}
  <2>1. ASSUME NEW i \in 1 .. len + 1 PROVE s[i] \in Bytes \cup {UNINIT}
    <3>1. i \in 1 .. Len(s)
      BY <1>4
    <3> QED
      BY <3>1, ElementOfSeq DEF Memory
  <2> QED
    BY <2>1
<1>7. PICK n \in Nat : n = len + 1
  BY <1>4
<1>8. /\ Len(SubSeq(s, 1, n)) = IF 1 <= n THEN n - 1 + 1 ELSE 0
      /\ \A i \in 1 .. n - 1 + 1 : SubSeq(s, 1, n)[i] = s[1 + i - 1]
  BY <1>6, <1>7, SubSeqProperties
<1>9. line = SubSeq(s, 1, n)
  BY <1>3, <1>4, <1>7 DEF EntryCopy
<1>10. Len(line) = len + 1 /\ \A i \in 1 .. len + 1 : line[i] = s[i]
  <2>1. n - 1 + 1 = n /\ 1 <= n /\ \A i \in 1 .. n : 1 + i - 1 = i
    BY <1>4, <1>7
  <2> QED
    BY <1>7, <1>8, <1>9, <2>1
<1>11. ASSUME NEW i \in 1 .. len PROVE line[i] \in S
  <2>1. i \in 1 .. len + 1 /\ i # len + 1 /\ len > 0
    BY <1>4
  <2>2. line[i] = heap[line_buf][i]
    BY <1>5, <1>10, <2>1
  <2> QED
    BY <1>0, <1>4, <2>1, <2>2 DEF BytesInv, BytesIn
<1>12. line[len + 1] = NL
  <2>1. len + 1 \in 1 .. len + 1
    BY <1>4
  <2> QED
    BY <1>5, <1>10, <2>1
<1> QED
  BY <1>10, <1>11, <1>12 DEF LineIn, BytesIn

LEMMA LineKeepsBytes ==
  ASSUME NEW S, CharInv, BytesInv(S), NEW p \in Procs, aesd_write_line(p)
  PROVE  BytesInv(S)'
<1>0. InLoop(p) /\ loaded /\ BufInv
  BY OneLoop DEF CharInv, aesd_write_line
<1>1. PICK h \in [Ptrs -> Memory], q \in Ptrs, line \in Memory, e \in Entries, h2 \in [Ptrs -> Memory],
           left \in Nat :
        Completes(p, h, q, line, e, h2) /\ GoesOn(p, left, h2)
  BY LineCompleted
<1>2. PICK b : b = AddEntry(buf, e)
  OBVIOUS
<1>3. LineIn(line, S)
  BY <1>0, <1>1, CopyIsLine DEF Completes
<1>4. ASSUME NEW i \in SizedSlots(b)
      PROVE  LineIn(heap'[b.entry[i].buffptr], S)
  <2>1. /\ i # buf.in_offs => i \in SizedSlots(buf)
        /\ heap'[b.entry[i].buffptr] = IF i = buf.in_offs THEN line ELSE heap[buf.entry[i].buffptr]
    BY <1>0, <1>1, <1>2, LineObjects
  <2>2. CASE i = buf.in_offs
    BY <1>3, <2>1, <2>2
  <2>3. CASE i # buf.in_offs
    BY <1>0, <2>1, <2>3 DEF BytesInv, EntriesIn
  <2> QED
    BY <2>2, <2>3
<1>5. buf' = b /\ line_len' = 0
  BY <1>1, <1>2 DEF Completes
<1> QED
  BY <1>4, <1>5 DEF BytesInv, EntriesIn

\* No step brings other bytes into a line or into an entry.
LEMMA BytesKept ==
  ASSUME NEW S, S \subseteq Bytes, Stays(S), CharInv, BytesInv(S), [Next]_vars
  PROVE  BytesInv(S)'
<1>0. CallInv /\ BufInv /\ {NL, ZERO} \subseteq Bytes
  BY ModelValuesAssumption DEF CharInv
<1>1. ASSUME UNCHANGED <<buf, line_buf, line_len, heap>>, loaded' => loaded PROVE BytesInv(S)'
  BY <1>1 DEF BytesInv, EntriesIn
<1>2. ASSUME NEW p \in Procs, aesd_write_no_room(p) PROVE BytesInv(S)'
  <2>1. line_len = 0 /\ line_len' = 0 /\ UNCHANGED <<loaded, buf, heap>>
    BY <1>2 DEF aesd_write_no_room, Stays
  <2> QED
    BY <2>1 DEF BytesInv, EntriesIn
<1>3. ASSUME NEW p \in Procs, aesd_write_fault(p) PROVE BytesInv(S)'
  <2>1. InLoop(p) /\ ZERO \in S /\ heap' = Fetched(ZERO) /\ line_len' = line_len + 1
    BY <1>3 DEF aesd_write_fault, Stays
  <2>2. UNCHANGED <<loaded, buf, line_buf>>
    BY <1>3 DEF aesd_write_fault
  <2> QED
    BY <1>0, <2>1, <2>2, FetchKeepsBytes
<1>4. ASSUME NEW p \in Procs, aesd_write_no_entry(p) PROVE BytesInv(S)'
  <2>1. InLoop(p) /\ NL \in S /\ heap' = Fetched(NL) /\ line_len' = line_len + 1
    BY <1>4 DEF aesd_write_no_entry, Stays
  <2>2. UNCHANGED <<loaded, buf, line_buf>>
    BY <1>4 DEF aesd_write_no_entry
  <2> QED
    BY <1>0, <2>1, <2>2, FetchKeepsBytes
<1>5. ASSUME NEW p \in Procs, aesd_write_byte(p) PROVE BytesInv(S)'
  <2>1. InLoop(p) /\ heap' = Fetched(NextByte(p)) /\ line_len' = line_len + 1
    BY <1>5 DEF aesd_write_byte
  <2>2. UNCHANGED <<loaded, buf, line_buf>>
    BY <1>5 DEF aesd_write_byte
  <2>3. NextByte(p) \in S /\ NextByte(p) \in Bytes
    <3>1. call[p].req \in Requests /\ call[p].req.op = "write" /\ call[p].req.data \in Seq(Bytes)
      <4>1. call[p].pc = "loop"
        BY <2>1 DEF InLoop, At
      <4> QED
        BY <1>0, <2>1, <4>1, CallType, OneLoop DEF Sound
    <3>2. PICK n \in Nat, done \in Nat : n = Len(call[p].req.data) /\ done = call[p].bytes_written /\ done < n
      BY <1>0, <2>1, OneLoop
    <3>3. done + 1 \in 1 .. n
      BY <3>2
    <3>4. call[p].req.data[done + 1] \in S \cup {NL}
      BY <3>1, <3>2, <3>3 DEF Stays
    <3> QED
      BY <1>5, <3>2, <3>4 DEF aesd_write_byte, NextByte
  <2> QED
    BY <2>1, <2>2, <2>3, FetchKeepsBytes
<1>6. CASE aesd_init_module
  BY <1>6, EmptySlots DEF aesd_init_module, BytesInv, EntriesIn
<1>7. CASE aesd_cleanup_module
  BY <1>7 DEF aesd_cleanup_module, BytesInv
<1>8. ASSUME NEW p \in Procs, Step(p) \/ Interrupted(p) PROVE BytesInv(S)'
  <2>1. CASE aesd_write(p)
    BY <2>1, RoomKeepsBytes
  <2>2. CASE aesd_write_line(p)
    BY <2>2, LineKeepsBytes
  <2>3. CASE \/ Lock(p) \/ Interrupted(p) \/ aesd_read(p) \/ aesd_llseek(p) \/ aesd_ioctl(p)
             \/ StoreSeek(p) \/ aesd_write_done(p) \/ Leave(p)
    BY <1>1, <2>3 DEF Lock, Interrupted, aesd_read, aesd_llseek, aesd_ioctl, StoreSeek, aesd_write_done,
                      Leave, dev
  <2> QED
    BY <1>2, <1>3, <1>4, <1>5, <1>8, <2>1, <2>2, <2>3 DEF Step
<1>9. ASSUME NEW f \in Files, aesd_open(f) \/ aesd_release(f) PROVE BytesInv(S)'
  BY <1>1, <1>9 DEF aesd_open, aesd_release, dev
<1>10. ASSUME NEW p \in Procs, NEW f \in Files, NEW req \in Requests, Enter(p, f, req) PROVE BytesInv(S)'
  BY <1>1, <1>10 DEF Enter, dev
<1>11. CASE UNCHANGED vars
  BY <1>1, <1>11 DEF vars, dev
<1> QED
  BY <1>6, <1>7, <1>8, <1>9, <1>10, <1>11 DEF Next

LEMMA BytesAlways ==
  ASSUME NEW S, S \subseteq Bytes, Stays(S)
  PROVE  Spec => [](CharInv /\ BytesInv(S))
<1>1. Init => BytesInv(S)
  BY DEF Init, BytesInv
<1>2. CharInv /\ BytesInv(S) /\ [Next]_vars => BytesInv(S)'
  BY BytesKept
<1> QED
  BY <1>1, <1>2, CharInvAlways, PTL DEF Spec

\* The lines readers find are those of the entries.
LEMMA LinesIn ==
  ASSUME NEW S, CharInv, BytesInv(S), loaded, NEW k \in 1 .. Held(buf)
  PROVE  LineIn(Lines[k], S)
<1>1. PICK i \in SizedSlots(buf) : Contents(buf)[k] = buf.entry[i]
  BY EntriesAre DEF CharInv
<1> QED
  BY <1>1 DEF BytesInv, EntriesIn, Lines

\* Only a krealloc that fails makes memory readable that nobody has written: then
\* no entry does, however the handlers interleave and whatever else fails.
THEOREM EntriesAreWritten ==
  ASSUME "krealloc" \notin FailSites, UNINIT \notin Bytes
  PROVE  Spec => []EntriesInitialised
<1>0. PICK S : S = Bytes
  OBVIOUS
<1>1. S \subseteq Bytes /\ Stays(S)
  <2>1. ASSUME NEW r \in Requests, r.op = "write", r.data \in Seq(Bytes), NEW i \in 1 .. Len(r.data)
        PROVE  r.data[i] \in Bytes
    BY <2>1, ElementOfSeq
  <2> QED
    BY <1>0, <2>1, ModelValuesAssumption DEF Stays
<1>2. ASSUME CharInv, BytesInv(S) PROVE EntriesInitialised
  <2>1. ASSUME loaded, NEW k \in 1 .. Held(buf), NEW i \in 1 .. Len(Lines[k]) PROVE Lines[k][i] # UNINIT
    <3>1. PICK n \in Nat : Len(Lines[k]) = n + 1 /\ BytesIn(Lines[k], n, S) /\ Lines[k][n + 1] = NL
      BY <1>2, <2>1, LinesIn DEF LineIn
    <3>2. Lines[k][i] \in Bytes
      <4>1. CASE i = n + 1
        BY <3>1, <4>1, ModelValuesAssumption
      <4>2. CASE i # n + 1
        <5>1. i \in 1 .. n
          BY <3>1, <4>2
        <5> QED
          BY <1>0, <3>1, <5>1 DEF BytesIn
      <4> QED
        BY <4>1, <4>2
    <3> QED
      BY <3>2
  <2> QED
    BY <2>1 DEF EntriesInitialised
<1>3. Spec => [](CharInv /\ BytesInv(S))
  BY <1>1, BytesAlways
<1> QED
  BY <1>2, <1>3, PTL

\* When no allocation for a line or an entry and no read of the user's buffer
\* fails, every entry is one line: it ends with its only newline, and its bytes
\* are bytes that processes wrote.
THEOREM EntriesAreWholeLines ==
  ASSUME NL # ZERO, {"krealloc", "get_user", "entry_kmalloc"} \cap FailSites = {},
         \A r \in Requests : r.op = "write" /\ r.data \in Seq(Bytes) => r.data \in Seq(Bytes \ {ZERO})
  PROVE  Spec => []EntriesAreLines
<1>1. PICK S : S = Bytes \ {ZERO, NL}
  OBVIOUS
<1>2. S \subseteq Bytes /\ Stays(S)
  <2>1. ASSUME NEW r \in Requests, r.op = "write", r.data \in Seq(Bytes), NEW i \in 1 .. Len(r.data)
        PROVE  r.data[i] \in S \cup {NL}
    <3>1. r.data \in Seq(Bytes \ {ZERO})
      BY <2>1
    <3>2. r.data[i] \in Bytes \ {ZERO}
      BY <3>1, <2>1, ElementOfSeq
    <3> QED
      BY <1>1, <3>2
  <2> QED
    BY <1>1, <2>1 DEF Stays
<1>3. ASSUME CharInv, BytesInv(S) PROVE EntriesAreLines
  <2>1. ASSUME loaded, NEW k \in 1 .. Held(buf), NEW i \in 1 .. Len(Lines[k])
        PROVE  (Lines[k][i] = NL <=> i = Len(Lines[k])) /\ Lines[k][i] \in Bytes \ {ZERO}
    <3>1. PICK n \in Nat : Len(Lines[k]) = n + 1 /\ BytesIn(Lines[k], n, S) /\ Lines[k][n + 1] = NL
      BY <1>3, <2>1, LinesIn DEF LineIn
    <3>2. CASE i = n + 1
      BY <3>1, <3>2, ModelValuesAssumption
    <3>3. CASE i # n + 1
      <4>1. i \in 1 .. n
        BY <3>1, <3>3
      <4>2. Lines[k][i] \in S
        BY <3>1, <4>1 DEF BytesIn
      <4> QED
        BY <1>1, <3>1, <3>3, <4>2
    <3> QED
      BY <3>2, <3>3
  <2> QED
    BY <2>1 DEF EntriesAreLines
<1>4. Spec => [](CharInv /\ BytesInv(S))
  BY <1>2, BytesAlways
<1> QED
  BY <1>3, <1>4, PTL

=============================================================================
