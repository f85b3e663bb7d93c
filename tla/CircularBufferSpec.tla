------------------------- MODULE CircularBufferSpec -------------------------
(***************************************************************************)
(* The circular buffer as a component of its own: a caller initialises it  *)
(* and adds entries.  Its contract is EntryLog; its two search functions   *)
(* are compared with the concatenation of the entries that their comments  *)
(* describe.                                                               *)
(***************************************************************************)
EXTENDS CircularBuffer, SequencesExt

CONSTANTS
  Ptrs,   \* addresses of the memory callers hand to the buffer
  Sizes   \* sizes of the entries they add

ASSUME PtrsAssumption == NULL \notin Ptrs
ASSUME SizesAssumption == Sizes \subseteq Nat \ {0}

VARIABLES
  buf,   \* the buffer
  ret    \* what the last call returned

vars == <<buf, ret>>

Entries == [buffptr : Ptrs, size : Sizes]

Init == buf = EmptyBuffer /\ ret = NULL

aesd_circular_buffer_init == buf' = EmptyBuffer /\ ret' = NULL

aesd_circular_buffer_add_entry(e) ==
  /\ buf' = AddEntry(buf, e)
  /\ ret' = OverwrittenPtr(buf)

Next ==
  \/ aesd_circular_buffer_init
  \/ \E e \in Entries : aesd_circular_buffer_add_entry(e)

Spec == Init /\ [][Next]_vars

(***************************************************************************)
(* Properties.                                                             *)
(***************************************************************************)

TypeOK ==
  /\ BufferType(buf, Entries)
  /\ ret \in Ptrs \cup {NULL}

\* The buffer implements its contract: after any sequence of calls it holds
\* exactly the MAX most recent entries in order, and add_entry returns the
\* memory of the entry it dropped, so a caller that frees the returned pointer
\* frees each entry once.
Log == INSTANCE EntryLog WITH log <- Contents(buf)
ImplementsLog == Log!Spec

\* char_size, which add_entry keeps up to date by adding and subtracting, is
\* the total number of bytes stored, whatever has been overwritten.
CharSizeIsTotal == TotalSize(Contents(buf), buf.char_size)

\* The ring keeps its shape: the entries lie in the slots from out_offs on, and
\* a slot holds an entry exactly when its size is not 0, which is how the
\* driver's cleanup recognises the memory it has to free.
RingShape ==
  /\ Ring(buf, Entries)
  /\ SizedSlots(buf) = HeldSlots(buf)

\* Every byte held, as <<number of its entry, place in the entry>>, in the
\* order of the concatenation of all entries.
ByteList(b) ==
  FlattenSeq([k \in 1 .. Held(b) |->
                [j \in 1 .. Contents(b)[k].size |-> <<k-1, j-1>>]])

\* aesd_circular_buffer_find_entry_offset_for_fpos finds, for every position,
\* the byte at that position of the concatenation of the entries, and NULL
\* exactly from the end on.
FindsPositions ==
  LET bytes == ByteList(buf)
  IN  \A pos \in 0 .. Len(bytes) + 1 :
        LET found == FindEntryOffsetForFpos(buf, pos)
        IN  IF pos < Len(bytes)
              THEN found = [entry  |-> Contents(buf)[bytes[pos+1][1] + 1],
                            offset |-> bytes[pos+1][2]]
              ELSE found = NULL

\* aesd_circular_buffer_find_fpos_for_entry_offset is the inverse: it maps the
\* bytes of the entries, and nothing else, to their positions.
FindsBytes ==
  LET bytes == ByteList(buf)
  IN  \A k \in 0 .. MAX, j \in 0 .. buf.char_size :
        LET fpos == FindFposForEntryOffset(buf, k, j)
        IN  IF <<k, j>> \in ToSet(bytes)
              THEN fpos \in 0 .. Len(bytes) - 1 /\ bytes[fpos+1] = <<k, j>>
              ELSE fpos = -1
=============================================================================
