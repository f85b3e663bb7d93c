------------------------ MODULE CircularBufferProofs ------------------------
(***************************************************************************)
(* The theorems about the circular buffer, for every capacity and every    *)
(* set of entries: it keeps its shape, char_size is the number of bytes    *)
(* held, it implements EntryLog, and its searches find what they should.   *)
(***************************************************************************)
EXTENDS CircularBufferSpec, RingProofs

(***************************************************************************)
(* The inductive invariant.  char_size needs the ring: only the ring makes *)
(* the entry whose size add_entry subtracts the oldest of the contents.    *)
(***************************************************************************)
IInv == TypeOK /\ RingShape /\ CharSizeIsTotal

\* The entries have a size, and it is not 0.
LEMMA EntriesSized ==
  Sized(Entries) /\ \A e \in Entries : e.size \in Nat \ {0}
BY SizesAssumption DEF Entries, Sized

\* The memset buffer satisfies the invariant.
LEMMA InitOK == Init => IInv
<1> SUFFICES ASSUME Init PROVE IInv
  OBVIOUS
<1>1. buf = EmptyBuffer /\ ret = NULL
  BY DEF Init
<1>2. BufferType(buf, Entries) /\ Ring(buf, Entries) /\ CharSizeIsTotal
  BY <1>1, EmptyRing DEF CharSizeIsTotal
<1>3. RingShape
  BY <1>2, EntriesSized, RingSlots DEF RingShape
<1> QED
  BY <1>1, <1>2, <1>3 DEF IInv, TypeOK

\* Every call keeps the invariant.
LEMMA NextOK == IInv /\ [Next]_vars => IInv'
<1> SUFFICES ASSUME IInv, [Next]_vars PROVE IInv'
  OBVIOUS
<1> USE DEF IInv
<1>1. BufferType(buf, Entries) /\ Ring(buf, Entries) /\ TotalSize(Contents(buf), buf.char_size)
  BY DEF TypeOK, RingShape, CharSizeIsTotal
<1>2. CASE aesd_circular_buffer_init
  <2>1. buf' = EmptyBuffer /\ ret' = NULL
    BY <1>2 DEF aesd_circular_buffer_init
  <2>2. BufferType(buf', Entries) /\ Ring(buf', Entries) /\ CharSizeIsTotal'
    BY <2>1, EmptyRing DEF CharSizeIsTotal
  <2>3. RingShape'
    BY <2>2, EntriesSized, RingSlots DEF RingShape
  <2> QED
    BY <2>1, <2>2, <2>3 DEF TypeOK
<1>3. ASSUME NEW e \in Entries, aesd_circular_buffer_add_entry(e)
      PROVE  IInv'
  <2>1. buf' = AddEntry(buf, e) /\ ret' = OverwrittenPtr(buf)
    BY <1>3 DEF aesd_circular_buffer_add_entry
  <2>2. BufferType(buf', Entries) /\ Ring(buf', Entries) /\ CharSizeIsTotal'
    BY <1>1, <2>1, EntriesSized, AddKeepsRing DEF CharSizeIsTotal
  <2>3. RingShape'
    BY <2>2, EntriesSized, RingSlots DEF RingShape
  <2>4. ret' \in Ptrs \cup {NULL}
    <3>1. CASE Overwrites(buf)
      <4>1. buf.out_offs \in Slots /\ buf.entry[buf.out_offs] \in Entries \cup {ZeroEntry}
        BY <1>1, FieldTypes
      <4>2. ret' = buf.entry[buf.out_offs].buffptr
        BY <2>1, <3>1 DEF OverwrittenPtr
      <4> QED
        BY <4>1, <4>2 DEF Entries, ZeroEntry
    <3>2. CASE ~Overwrites(buf)
      BY <2>1, <3>2 DEF OverwrittenPtr
    <3> QED
      BY <3>1, <3>2
  <2> QED
    BY <2>2, <2>3, <2>4 DEF TypeOK
<1>4. CASE UNCHANGED vars
  BY <1>4 DEF vars, TypeOK, RingShape, CharSizeIsTotal
<1> QED
  BY <1>2, <1>3, <1>4 DEF Next

\* The invariant holds in every reachable state.
LEMMA Invariant == Spec => []IInv
BY InitOK, NextOK, PTL DEF Spec

\* The offsets stay below MAX, char_size never goes negative, and add_entry
\* only ever returns memory that was added.
THEOREM TypeCorrect == Spec => []TypeOK
<1>1. IInv => TypeOK
  BY DEF IInv
<1> QED
  BY <1>1, Invariant, PTL

\* After any calls, the entries lie in the slots from out_offs on, and a slot
\* holds an entry exactly when its size is not 0.
THEOREM RingShapeCorrect == Spec => []RingShape
<1>1. IInv => RingShape
  BY DEF IInv
<1> QED
  BY <1>1, Invariant, PTL

\* char_size, which add_entry keeps by adding and subtracting, is always the
\* total number of bytes stored.
THEOREM CharSizeCorrect == Spec => []CharSizeIsTotal
<1>1. IInv => CharSizeIsTotal
  BY DEF IInv
<1> QED
  BY <1>1, Invariant, PTL

(***************************************************************************)
(* Refinement: with the contents of the ring as the log, init is Clear and *)
(* add_entry is Add.                                                       *)
(***************************************************************************)
LEMMA InitImplements == Init => Log!Init
<1> SUFFICES ASSUME Init PROVE Log!Init
  OBVIOUS
<1>1. buf = EmptyBuffer /\ ret = NULL
  BY DEF Init
<1>2. Contents(buf) = <<>>
  BY <1>1, EmptyRing
<1> QED
  BY <1>1, <1>2 DEF Log!Init

\* Every step of the ring is a step of the log or leaves it alone.
LEMMA NextImplements == IInv /\ [Next]_vars => [Log!Next]_(Log!vars)
<1> SUFFICES ASSUME IInv, [Next]_vars PROVE [Log!Next]_(Log!vars)
  OBVIOUS
<1>1. BufferType(buf, Entries) /\ Ring(buf, Entries) /\ TotalSize(Contents(buf), buf.char_size)
  BY DEF IInv, TypeOK, RingShape, CharSizeIsTotal
<1>2. CASE aesd_circular_buffer_init
  <2>1. Contents(buf') = <<>> /\ ret' = NULL
    BY <1>2, EmptyRing DEF aesd_circular_buffer_init
  <2>2. Log!Clear
    BY <2>1 DEF Log!Clear
  <2> QED
    BY <2>2 DEF Log!Next
<1>3. ASSUME NEW e \in Entries, aesd_circular_buffer_add_entry(e)
      PROVE  Log!Next
  <2>1. buf' = AddEntry(buf, e) /\ ret' = OverwrittenPtr(buf)
    BY <1>3 DEF aesd_circular_buffer_add_entry
  <2>2. IF Len(Contents(buf)) = MAX
          THEN /\ Contents(buf') = Append(Tail(Contents(buf)), e)
               /\ ret' = Head(Contents(buf)).buffptr
          ELSE /\ Contents(buf') = Append(Contents(buf), e)
               /\ ret' = NULL
    BY <1>1, <2>1, EntriesSized, AddKeepsRing
  <2>3. Log!Add(e)
    BY <2>2, Zenon DEF Log!Add
  <2> QED
    BY <2>3 DEF Log!Next
<1>4. CASE UNCHANGED vars
  BY <1>4 DEF vars, Log!vars
<1> QED
  BY <1>2, <1>3, <1>4 DEF Next

\* The ring implements its contract: it holds exactly the MAX most recent
\* entries in order, and add_entry returns the memory of the one it dropped.
THEOREM ImplementsLogCorrect == Spec => ImplementsLog
<1>1. Spec => Log!Init /\ [][Log!Next]_(Log!vars)
  BY Invariant, InitImplements, NextImplements, PTL DEF Spec
<1> QED
  BY <1>1 DEF ImplementsLog, Log!Spec

(***************************************************************************)
(* The searches.  ByteList puts the entries' bytes together with a         *)
(* recursive function; this is the sequence it computes, position by       *)
(* position.                                                               *)
(***************************************************************************)
Places == Nat \X Nat

\* The entry a byte is in.
Place(off) == CHOOSE k \in 1 .. Held(buf) : InEntry(buf, k, off)

\* The byte at each position, as the number of its entry and its place in it.
ByteAt(off) == <<Place(off) - 1, off - CountBefore(buf)[Place(off) - 1]>>

\* The bytes of the first entries.
Prefix(n) == [p \in 1 .. n |-> ByteAt(p - 1)]

\* The bytes of one entry.
EntryBytes(k) == [j \in 1 .. Contents(buf)[k].size |-> <<k-1, j-1>>]

\* Every position is in an entry.
LEMMA PlaceIs ==
  ASSUME IInv, NEW off \in 0 .. buf.char_size - 1
  PROVE  Place(off) \in 1 .. Held(buf) /\ InEntry(buf, Place(off), off)
<1>1. /\ Sized(Entries) /\ BufferType(buf, Entries) /\ Ring(buf, Entries)
      /\ TotalSize(Contents(buf), buf.char_size) /\ buf.char_size \in Nat
  BY EntriesSized, FieldTypes DEF IInv, TypeOK, RingShape, CharSizeIsTotal
<1>2. off \in Nat /\ off < buf.char_size
  BY <1>1
<1>3. \E k \in 1 .. Held(buf) : InEntry(buf, k, off)
  BY <1>1, <1>2, FindsEntry
<1> QED
  BY <1>3 DEF Place

\* Inside entry k the bytes are numbered from the entries before it on.
LEMMA ByteAtIs ==
  ASSUME IInv, NEW off \in 0 .. buf.char_size - 1, NEW k, InEntry(buf, k, off)
  PROVE  ByteAt(off) = <<k - 1, off - CountBefore(buf)[k - 1]>> /\ ByteAt(off) \in Places
<1>1. /\ Sized(Entries) /\ BufferType(buf, Entries) /\ Ring(buf, Entries)
      /\ TotalSize(Contents(buf), buf.char_size) /\ buf.char_size \in Nat
  BY EntriesSized, FieldTypes DEF IInv, TypeOK, RingShape, CharSizeIsTotal
<1>2. off \in Nat
  BY <1>1
<1>3. Place(off) = k
  BY <1>1, <1>2, PlaceIs, InOneEntry
<1>4. k \in 1 .. Held(buf) /\ CountBefore(buf)[k - 1] <= off /\ Held(buf) \in Nat
  BY <1>1, TotalsType DEF InEntry
<1>5. k - 1 \in 0 .. Held(buf) /\ k - 1 \in Nat
  BY <1>4
<1>6. CountBefore(buf)[k - 1] \in Nat
  BY <1>1, <1>5, TotalsType
<1>7. off - CountBefore(buf)[k - 1] \in Nat
  BY <1>2, <1>4, <1>6
<1> QED
  BY <1>3, <1>5, <1>7 DEF ByteAt, Places

\* The bytes of the entries up to k are those up to k - 1 and then those of k.
LEMMA PrefixGrows ==
  ASSUME IInv, NEW k \in 1 .. Held(buf)
  PROVE  LET t == CountBefore(buf)
         IN  /\ Prefix(t[k]) \in Seq(Places) /\ Len(Prefix(t[k])) = t[k]
             /\ Prefix(t[k-1]) \in Seq(Places) /\ EntryBytes(k) \in Seq(Places)
             /\ Prefix(t[k]) = Prefix(t[k-1]) \o EntryBytes(k)
<1>1. /\ Sized(Entries) /\ BufferType(buf, Entries) /\ Ring(buf, Entries)
      /\ TotalSize(Contents(buf), buf.char_size) /\ buf.char_size \in Nat
  BY EntriesSized, FieldTypes DEF IInv, TypeOK, RingShape, CharSizeIsTotal
<1>2. PICK total, a, c, len, max :
        /\ total = CountBefore(buf) /\ a = total[k-1] /\ c = total[k] /\ len = Contents(buf)[k].size
        /\ max = buf.char_size
  OBVIOUS
<1>3. k - 1 \in 0 .. Held(buf) /\ k \in 0 .. Held(buf) /\ k \in Nat /\ k - 1 \in Nat
  BY <1>1, TotalsType
<1>4. a \in 0 .. max /\ c \in 0 .. max /\ max \in Nat /\ len \in Nat /\ c = a + len
  BY <1>1, <1>2, <1>3, TotalsType
<1>5. ASSUME NEW off \in 0 .. max - 1
      PROVE  ByteAt(off) \in Places
  BY <1>2, <1>5, PlaceIs, ByteAtIs
<1>6. ASSUME NEW n \in 0 .. max
      PROVE  /\ Prefix(n) \in Seq(Places) /\ Len(Prefix(n)) = n
             /\ \A p \in 1 .. n : Prefix(n)[p] = ByteAt(p - 1)
  <2>1. \A p \in 1 .. n : p - 1 \in 0 .. max - 1
    BY <1>4
  <2>2. \A p \in 1 .. n : ByteAt(p - 1) \in Places
    BY <1>5, <2>1
  <2>3. Prefix(n) \in [1 .. n -> Places] /\ n \in Nat
    BY <1>4, <2>2 DEF Prefix
  <2> QED
    BY <2>3 DEF Prefix
<1>7. EntryBytes(k) \in Seq(Places) /\ Len(EntryBytes(k)) = len /\ \A j \in 1 .. len : EntryBytes(k)[j] = <<k-1, j-1>>
  <2>1. \A j \in 1 .. len : <<k-1, j-1>> \in Places
    BY <1>3, <1>4 DEF Places
  <2>2. EntryBytes(k) \in [1 .. len -> Places]
    BY <1>2, <2>1 DEF EntryBytes
  <2>3. \A j \in 1 .. len : EntryBytes(k)[j] = <<k-1, j-1>>
    BY <1>2 DEF EntryBytes
  <2> QED
    BY <1>4, <2>2, <2>3
<1>8. ASSUME NEW p \in 1 .. c, ~(p <= a)
      PROVE  ByteAt(p - 1) = <<k - 1, (p - a) - 1>> /\ p - a \in 1 .. len
  <2>1. p - 1 \in 0 .. max - 1 /\ a <= p - 1 /\ p - 1 < c /\ (p - 1) - a = (p - a) - 1 /\ p - a \in 1 .. len
    BY <1>4, <1>8
  <2>2. InEntry(buf, k, p - 1)
    BY <1>2, <2>1 DEF InEntry
  <2> QED
    BY <1>2, <2>1, <2>2, ByteAtIs
<1>9. Prefix(c) = Prefix(a) \o EntryBytes(k)
  <2>1. PICK s1 \in Seq(Places), s2 \in Seq(Places), s3 \in Seq(Places) :
          s1 = Prefix(a) /\ s2 = EntryBytes(k) /\ s3 = Prefix(c)
    BY <1>4, <1>6, <1>7
  <2>2. Len(s1) = a /\ Len(s2) = len /\ Len(s3) = c
    BY <1>4, <1>6, <1>7, <2>1
  <2>3. /\ s1 \o s2 \in Seq(Places) /\ Len(s1 \o s2) = c
        /\ \A p \in 1 .. c : (s1 \o s2)[p] = IF p <= a THEN s1[p] ELSE s2[p - a]
    BY <1>4, <2>2, ConcatProperties
  <2>4. ASSUME NEW p \in 1 .. c
        PROVE  s3[p] = (s1 \o s2)[p]
    <3>1. CASE p <= a
      <4>1. p \in 1 .. a
        BY <1>4, <3>1
      <4> QED
        BY <1>4, <1>6, <2>1, <2>3, <3>1, <4>1
    <3>2. CASE ~(p <= a)
      BY <1>4, <1>6, <1>7, <1>8, <2>1, <2>3, <3>2
    <3> QED
      BY <3>1, <3>2
  <2>5. PICK s4 \in Seq(Places) : s4 = s1 \o s2
    BY <2>3
  <2>6. s3 = s4
    BY <2>2, <2>3, <2>4, <2>5, SeqEqual
  <2> QED
    BY <2>1, <2>5, <2>6
<1> QED
  BY <1>2, <1>4, <1>6, <1>7, <1>9

\* ByteList is the bytes of all entries.
LEMMA ByteListIs ==
  ASSUME IInv
  PROVE  ByteList(buf) = Prefix(buf.char_size)
<1>1. /\ Sized(Entries) /\ BufferType(buf, Entries) /\ Ring(buf, Entries)
      /\ TotalSize(Contents(buf), buf.char_size) /\ buf.char_size \in Nat
  BY EntriesSized, FieldTypes DEF IInv, TypeOK, RingShape, CharSizeIsTotal
<1>2. PICK n, t : n = Held(buf) /\ t = CountBefore(buf)
  OBVIOUS
<1>3. n \in Nat /\ t[0] = 0 /\ t[n] = buf.char_size
  BY <1>1, <1>2, TotalsType
<1>4. PICK seqs : seqs = [k \in 1 .. n |-> EntryBytes(k)]
  OBVIOUS
<1>5. ByteList(buf) = FlattenSeq(seqs)
  BY <1>2, <1>4 DEF ByteList, EntryBytes
<1>6. Len(seqs) = n /\ \A k \in 1 .. n : seqs[k] = EntryBytes(k)
  BY <1>3, <1>4
<1>7. CASE n = 0
  <2>1. ByteList(buf) = seqs
    BY <1>5, <1>6, <1>7 DEF FlattenSeq
  <2>2. seqs = <<>> /\ buf.char_size = 0
    BY <1>3, <1>4, <1>7
  <2> QED
    BY <2>1, <2>2 DEF Prefix
<1>8. CASE n # 0
  <2> DEFINE Solves(f) == f = [i \in 1 .. n |-> IF i = 1 THEN seqs[i] ELSE f[i-1] \o seqs[i]]
             G == [i \in 1 .. n |-> Prefix(t[i])]
  <2>1. FlattenSeq(seqs) = (CHOOSE f : Solves(f))[n]
    BY <1>6, <1>8 DEF FlattenSeq
  <2>2. ASSUME NEW i \in 1 .. n
        PROVE  Prefix(t[i]) = IF i = 1 THEN seqs[i] ELSE G[i-1] \o seqs[i]
    <3>1. /\ Prefix(t[i]) = Prefix(t[i-1]) \o EntryBytes(i) /\ EntryBytes(i) \in Seq(Places)
      BY <1>2, PrefixGrows
    <3>2. CASE i = 1
      <4>1. t[i-1] = 0
        BY <1>3, <3>2
      <4>2. Prefix(0) = <<>>
        BY DEF Prefix
      <4>3. <<>> \o EntryBytes(i) = EntryBytes(i)
        BY <3>1, ConcatEmptySeq
      <4> QED
        BY <1>6, <3>1, <3>2, <4>1, <4>2, <4>3
    <3>3. CASE i # 1
      <4>1. i - 1 \in 1 .. n
        BY <1>3, <3>3
      <4> QED
        BY <1>6, <3>1, <3>3, <4>1
    <3> QED
      BY <3>2, <3>3
  <2>3. Solves(G)
    BY <2>2
  <2>4. PICK g : Solves(g) /\ FlattenSeq(seqs) = g[n]
    <3> HIDE DEF Solves
    <3> QED
      BY <2>1, <2>3
  <2>5. \A i \in 1 .. n : g[i] = G[i]
    <3> DEFINE S == {i \in 1 .. n : g[i] # G[i]}
    <3>1. SUFFICES ASSUME S # {} PROVE FALSE
      OBVIOUS
    <3>2. S \in SUBSET Nat
      BY <1>3
    <3>3. PICK m \in S : \A i \in S : m <= i
      BY <3>1, <3>2, LeastExists
    <3>4. m \in 1 .. n
      BY <3>3
    <3>5. g[m] = IF m = 1 THEN seqs[m] ELSE g[m-1] \o seqs[m]
      BY <2>4, <3>4
    <3>6. G[m] = IF m = 1 THEN seqs[m] ELSE G[m-1] \o seqs[m]
      BY <2>2, <3>4
    <3>7. m # 1 => g[m-1] = G[m-1]
      <4>1. SUFFICES ASSUME m # 1 PROVE g[m-1] = G[m-1]
        OBVIOUS
      <4>2. m - 1 \in 1 .. n /\ ~(m <= m - 1)
        BY <1>3, <3>4, <4>1
      <4>3. m - 1 \notin S
        BY <3>3, <4>2
      <4> QED
        BY <4>2, <4>3
    <3>8. g[m] # G[m]
      BY <3>3
    <3> HIDE DEF S, G
    <3> QED
      BY <3>5, <3>6, <3>7, <3>8
  <2>6. n \in 1 .. n
    BY <1>3, <1>8
  <2>7. g[n] = Prefix(t[n])
    BY <2>5, <2>6
  <2> QED
    BY <1>3, <1>5, <2>4, <2>7
<1> QED
  BY <1>7, <1>8

\* The sequence of all bytes, in arithmetic.
LEMMA BytesKnown ==
  ASSUME IInv
  PROVE  /\ Len(ByteList(buf)) = buf.char_size /\ buf.char_size \in Nat
         /\ DOMAIN ByteList(buf) = 1 .. buf.char_size
         /\ \A off \in 0 .. buf.char_size - 1 : ByteList(buf)[off + 1] = ByteAt(off)
<1>1. buf.char_size \in Nat
  BY FieldTypes DEF IInv, TypeOK
<1>2. PICK n \in Nat : n = buf.char_size
  BY <1>1
<1>3. ByteList(buf) = [p \in 1 .. n |-> ByteAt(p - 1)]
  BY <1>2, ByteListIs DEF Prefix
<1>4. ASSUME NEW off \in 0 .. n - 1
      PROVE  ByteList(buf)[off + 1] = ByteAt(off)
  <2>1. off + 1 \in 1 .. n /\ (off + 1) - 1 = off
    BY <1>2
  <2> QED
    BY <1>3, <2>1
<1> QED
  BY <1>2, <1>3, <1>4

\* The search for a position finds, in every buffer the calls can build, the
\* byte at that position of the concatenation of the entries, whichever slot the
\* oldest entry is in, and NULL from the end on.
THEOREM FindsPositionsCorrect == Spec => []FindsPositions
<1>1. IInv => FindsPositions
  <2> SUFFICES ASSUME IInv, NEW pos \in 0 .. Len(ByteList(buf)) + 1
               PROVE  LET found == FindEntryOffsetForFpos(buf, pos)
                          bytes == ByteList(buf)
                      IN  IF pos < Len(bytes)
                            THEN found = [entry  |-> Contents(buf)[bytes[pos+1][1] + 1],
                                          offset |-> bytes[pos+1][2]]
                            ELSE found = NULL
    BY DEF FindsPositions
  <2>1. /\ Sized(Entries) /\ BufferType(buf, Entries) /\ Ring(buf, Entries)
        /\ TotalSize(Contents(buf), buf.char_size)
    BY EntriesSized DEF IInv, TypeOK, RingShape, CharSizeIsTotal
  <2>2. Len(ByteList(buf)) = buf.char_size /\ buf.char_size \in Nat /\ pos \in Nat
    BY BytesKnown
  <2>3. CASE pos < buf.char_size
    <3>1. PICK k \in 1 .. Held(buf) :
            /\ InEntry(buf, k, pos)
            /\ FindEntryOffsetForFpos(buf, pos) =
                 [entry |-> Contents(buf)[k], offset |-> pos - CountBefore(buf)[k-1]]
      BY <2>1, <2>2, <2>3, FindsEntry
    <3>2. pos \in 0 .. buf.char_size - 1
      BY <2>2, <2>3
    <3>3. ByteList(buf)[pos + 1] = <<k - 1, pos - CountBefore(buf)[k-1]>>
      BY <3>1, <3>2, BytesKnown, ByteAtIs
    <3>4. (k - 1) + 1 = k
      OBVIOUS
    <3> QED
      BY <2>2, <2>3, <3>1, <3>3, <3>4
  <2>4. CASE ~(pos < buf.char_size)
    BY <2>1, <2>2, <2>4, FindsEntry
  <2> QED
    BY <2>3, <2>4
<1> QED
  BY <1>1, Invariant, PTL

\* The search for a byte of an entry is its inverse: it gives the bytes of the
\* entries their positions, and -1 to whatever is no byte of an entry.
THEOREM FindsBytesCorrect == Spec => []FindsBytes
<1>1. IInv => FindsBytes
  <2> SUFFICES ASSUME IInv, NEW k \in 0 .. MAX, NEW j \in 0 .. buf.char_size
               PROVE  LET fpos == FindFposForEntryOffset(buf, k, j)
                          bytes == ByteList(buf)
                      IN  IF <<k, j>> \in ToSet(bytes)
                            THEN fpos \in 0 .. Len(bytes) - 1 /\ bytes[fpos+1] = <<k, j>>
                            ELSE fpos = -1
    BY DEF FindsBytes
  <2>1. /\ Sized(Entries) /\ BufferType(buf, Entries) /\ Ring(buf, Entries)
        /\ TotalSize(Contents(buf), buf.char_size)
    BY EntriesSized DEF IInv, TypeOK, RingShape, CharSizeIsTotal
  <2>2. PICK n \in Nat : /\ n = buf.char_size /\ Len(ByteList(buf)) = n /\ DOMAIN ByteList(buf) = 1 .. n
                         /\ \A off \in 0 .. n - 1 : ByteList(buf)[off + 1] = ByteAt(off)
    BY BytesKnown
  <2>3. k \in Nat /\ j \in Nat
    BY <2>2, MaxAssumption
  <2>4. CASE k < Held(buf) /\ j < Contents(buf)[k+1].size
    <3>1. PICK f : f = FindFposForEntryOffset(buf, k, j)
      OBVIOUS
    <3>2. f = CountBefore(buf)[k] + j /\ f \in 0 .. n - 1 /\ InEntry(buf, k + 1, f)
      BY <2>1, <2>2, <2>3, <2>4, <3>1, FindsFpos
    <3>3. ByteAt(f) = <<(k + 1) - 1, f - CountBefore(buf)[(k + 1) - 1]>>
      BY <2>2, <3>2, ByteAtIs
    <3>4. (k + 1) - 1 = k /\ CountBefore(buf)[k] \in Nat
      <4>1. k \in 0 .. Held(buf)
        BY <2>1, <2>3, <2>4, TotalsType
      <4> QED
        BY <2>1, <2>3, <4>1, TotalsType
    <3>5. f - CountBefore(buf)[k] = j
      BY <2>3, <3>2, <3>4
    <3>6. ByteList(buf)[f + 1] = <<k, j>> /\ f + 1 \in 1 .. n
      <4>1. ByteAt(f) = <<k, j>>
        BY <3>3, <3>4, <3>5
      <4>2. f + 1 \in 1 .. n
        BY <2>2, <3>2
      <4> QED
        BY <2>2, <3>2, <4>1, <4>2
    <3>7. <<k, j>> \in ToSet(ByteList(buf))
      BY <2>2, <3>6 DEF ToSet
    <3> QED
      BY <2>2, <3>1, <3>2, <3>6, <3>7
  <2>5. CASE ~(k < Held(buf) /\ j < Contents(buf)[k+1].size)
    <3>1. FindFposForEntryOffset(buf, k, j) = -1
      BY <2>1, <2>3, <2>5, FindsFpos
    <3>2. ASSUME NEW i \in 1 .. n, ByteList(buf)[i] = <<k, j>>
          PROVE  FALSE
      <4>1. PICK off \in 0 .. n - 1 : off + 1 = i
        <5>1. i - 1 \in 0 .. n - 1 /\ (i - 1) + 1 = i
          OBVIOUS
        <5> QED
          BY <5>1
      <4>2. PICK e \in 1 .. Held(buf) : InEntry(buf, e, off)
        BY <2>2, PlaceIs
      <4>3. PICK t : t = CountBefore(buf)
        OBVIOUS
      <4>4. <<k, j>> = <<e - 1, off - t[e - 1]>>
        BY <2>2, <3>2, <4>1, <4>2, <4>3, ByteAtIs
      <4>5. k = e - 1 /\ j = off - t[e - 1] /\ off < t[e]
        BY <4>2, <4>3, <4>4 DEF InEntry
      <4>6. /\ e - 1 \in 0 .. Held(buf) /\ e \in 0 .. Held(buf) /\ Held(buf) \in Nat
            /\ e - 1 < Held(buf) /\ (e - 1) + 1 = e
        BY <2>1, TotalsType
      <4>7. PICK len \in Nat : len = Contents(buf)[e].size /\ t[e] = t[e-1] + len
        BY <2>1, <4>3, TotalsType
      <4>8. t[e] \in Nat /\ t[e - 1] \in Nat
        BY <2>1, <4>3, <4>6, TotalsType
      <4>9. j < len
        BY <4>5, <4>7, <4>8
      <4> QED
        BY <2>5, <4>5, <4>6, <4>7, <4>9
    <3>3. <<k, j>> \notin ToSet(ByteList(buf))
      BY <2>2, <3>2 DEF ToSet
    <3> QED
      BY <3>1, <3>3
  <2> QED
    BY <2>4, <2>5
<1> QED
  BY <1>1, Invariant, PTL
=============================================================================
