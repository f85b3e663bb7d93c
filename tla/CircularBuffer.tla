--------------------------- MODULE CircularBuffer ---------------------------
(***************************************************************************)
(* The circular buffer of aesd-char-driver/aesd-circular-buffer.{h,c}: a   *)
(* ring of the MAX most recent lines.  A buffer is a record with the       *)
(* fields of struct aesd_circular_buffer, an entry a record with those of  *)
(* struct aesd_buffer_entry, and every function of the C file is an        *)
(* operator on such records.  The state machines that own a buffer are     *)
(* CircularBufferSpec (the buffer alone) and AesdChar (the driver).        *)
(***************************************************************************)
EXTENDS Integers, Sequences, FiniteSetsExt

CONSTANTS
  MAX,   \* AESDCHAR_MAX_WRITE_OPERATIONS_SUPPORTED, 10 in the build
  NULL   \* the null pointer

\* in_offs and out_offs are uint8_t, and so is the index with which
\* AESD_CIRCULAR_BUFFER_FOREACH counts up to MAX.
ASSUME MaxAssumption == MAX \in 1..255

Slots == 0 .. MAX - 1

\* What the memset of a buffer leaves in a slot.
ZeroEntry == [buffptr |-> NULL, size |-> 0]

\* aesd_circular_buffer_init
EmptyBuffer ==
  [entry     |-> [i \in Slots |-> ZeroEntry],
   in_offs   |-> 0,
   out_offs  |-> 0,
   full      |-> FALSE,
   char_size |-> 0]

\* Mutation: the offset does not wrap.
AdvanceNoWrap(offs) == offs + 1

Advance(offs) == (offs + 1) % MAX

\* Mutations: equal offsets are taken for a full buffer; the oldest entry is
\* never dropped.
OverwritesOnEqual(b) == b.in_offs = b.out_offs
OverwritesNever(b) == FALSE

\* The branch of aesd_circular_buffer_add_entry that drops the oldest entry.
Overwrites(b) == b.in_offs = b.out_offs /\ b.full

\* Mutation: the pointer is read after out_offs has advanced.
OverwrittenPtrLate(b) ==
  IF Overwrites(b) THEN b.entry[Advance(b.out_offs)].buffptr ELSE NULL

(***************************************************************************)
(* aesd_circular_buffer_add_entry returns the buffptr of the entry it      *)
(* overwrites, which its caller has to free, and otherwise NULL.           *)
(***************************************************************************)
OverwrittenPtr(b) ==
  IF Overwrites(b) THEN b.entry[b.out_offs].buffptr ELSE NULL

\* Mutation: the size of the overwritten entry is not subtracted.
AddEntryKeepsSize(b, e) ==
  LET in  == Advance(b.in_offs)
      out == IF Overwrites(b) THEN in ELSE b.out_offs
  IN  [entry     |-> [b.entry EXCEPT ![b.in_offs] = e],
       in_offs   |-> in,
       out_offs  |-> out,
       full      |-> in = out,
       char_size |-> b.char_size + e.size]

AddEntry(b, e) ==
  LET dropped == IF Overwrites(b) THEN b.entry[b.out_offs].size ELSE 0
      out     == IF Overwrites(b) THEN Advance(b.out_offs) ELSE b.out_offs
      in      == Advance(b.in_offs)
  IN  [entry     |-> [b.entry EXCEPT ![b.in_offs] = e],
       in_offs   |-> in,
       out_offs  |-> out,
       full      |-> in = out,
       char_size |-> b.char_size - dropped + e.size]

(***************************************************************************)
(* The two search functions walk the entries from the oldest on with the   *)
(* same loop.  Slot(b, i) is the slot its iteration i looks at, Continues  *)
(* its loop condition, Iterations the number of times it can run, and      *)
(* CountBefore(b)[i] the value of count when iteration i begins.           *)
(***************************************************************************)
Slot(b, i) == (b.out_offs + i) % MAX

\* Mutation: the walk stops at the input offset even when the buffer is full.
ContinuesUntilIn(b, i) == Slot(b, i) # b.in_offs

Continues(b, i) ==
  \/ b.full /\ i < MAX
  \/ ~b.full /\ Slot(b, i) # b.in_offs

Iterations(b) ==
  CHOOSE n \in 0..MAX : ~Continues(b, n) /\ \A i \in 0 .. n-1 : Continues(b, i)

CountBefore(b) ==
  LET count[i \in 0 .. Iterations(b)] ==
        IF i = 0 THEN 0 ELSE count[i-1] + b.entry[Slot(b, i-1)].size
  IN  count

(***************************************************************************)
(* aesd_circular_buffer_find_entry_offset_for_fpos: the entry that holds   *)
(* byte char_offset of the concatenation of all entries, with the byte's   *)
(* place in that entry, or NULL.                                           *)
(***************************************************************************)
FindEntryOffsetForFpos(b, char_offset) ==
  LET hits == {i \in 0 .. Iterations(b) - 1 : CountBefore(b)[i+1] > char_offset}
  IN  IF hits = {}
        THEN NULL
        ELSE [entry  |-> b.entry[Slot(b, Min(hits))],
              offset |-> char_offset - CountBefore(b)[Min(hits)]]

(***************************************************************************)
(* aesd_circular_buffer_find_fpos_for_entry_offset: the position of byte   *)
(* char_offset of entry number entry_offset, or -1.                        *)
(***************************************************************************)
\* Mutation: the offset one past the end of the entry is accepted.
FindFposPastEnd(b, entry_offset, char_offset) ==
  IF /\ entry_offset < Iterations(b)
     /\ char_offset <= b.entry[Slot(b, entry_offset)].size
    THEN CountBefore(b)[entry_offset] + char_offset
    ELSE -1

FindFposForEntryOffset(b, entry_offset, char_offset) ==
  IF /\ entry_offset < Iterations(b)
     /\ char_offset < b.entry[Slot(b, entry_offset)].size
    THEN CountBefore(b)[entry_offset] + char_offset
    ELSE -1

(***************************************************************************)
(* What a buffer means, for the properties of the modules that own one; E  *)
(* is the set of entries their callers add.                                *)
(***************************************************************************)
BufferType(b, E) ==
  b \in [entry     : [Slots -> E \cup {ZeroEntry}],
         in_offs   : Slots,
         out_offs  : Slots,
         full      : BOOLEAN,
         char_size : Nat]

\* A buffer that has never filled starts at slot 0 and ends at in_offs; one
\* that has filled stays full, with in_offs and out_offs together.  The slots
\* that hold an entry are then the ones memset did not leave zero.
Ring(b, E) ==
  IF b.full
    THEN /\ b.in_offs = b.out_offs
         /\ \A i \in Slots : b.entry[i] \in E
    ELSE /\ b.out_offs = 0
         /\ \A i \in Slots : IF i < b.in_offs THEN b.entry[i] \in E
                                             ELSE b.entry[i] = ZeroEntry

\* The number of entries held, from the offsets and the full flag.
Held(b) ==
  IF b.full THEN MAX
  ELSE IF b.in_offs >= b.out_offs
    THEN b.in_offs - b.out_offs
    ELSE b.in_offs - b.out_offs + MAX

\* The slots the held entries are in, and the slots with a size.
HeldSlots(b) == {Slot(b, k) : k \in 0 .. Held(b) - 1}
SizedSlots(b) == {i \in Slots : b.entry[i].size > 0}

\* The entries held, oldest first.
Contents(b) == [k \in 1 .. Held(b) |-> b.entry[Slot(b, k-1)]]

(***************************************************************************)
(* n is the total size of the entries of log: some running total, which    *)
(* never falls, leads from 0 to n.                                         *)
(***************************************************************************)
TotalSize(log, n) ==
  \E total \in [0 .. Len(log) -> 0 .. n] :
    /\ total[0] = 0
    /\ total[Len(log)] = n
    /\ \A k \in 1 .. Len(log) : total[k] = total[k-1] + log[k].size
    /\ \A j, k \in 0 .. Len(log) : j <= k => total[j] <= total[k]
=============================================================================
