----------------------------- MODULE RingProofs -----------------------------
(***************************************************************************)
(* Facts about the circular buffer for every capacity MAX and every set E  *)
(* of entries: what add_entry does to the ring, to its contents and to     *)
(* char_size, and what the two search functions find in it.                *)
(***************************************************************************)
EXTENDS CircularBuffer, LeastNumber, SequenceTheorems, TLAPS

(***************************************************************************)
(* Arithmetic of the offsets.                                              *)
(***************************************************************************)

\* A number below MAX is its own remainder.
LEMMA ModSmall ==
  ASSUME NEW x \in Nat, x < MAX
  PROVE  x % MAX = x
BY MaxAssumption

\* A number in the second turn loses one MAX.
LEMMA ModWrap ==
  ASSUME NEW x \in Nat, MAX <= x, x < MAX + MAX
  PROVE  x % MAX = x - MAX
BY MaxAssumption

\* A remainder is a slot.
LEMMA ModRange ==
  ASSUME NEW x \in Nat
  PROVE  x % MAX \in Slots
BY MaxAssumption DEF Slots

\* A slot number is below MAX, and so its own remainder.
LEMMA SlotSmall ==
  ASSUME NEW i \in Slots
  PROVE  i \in Nat /\ i < MAX /\ MAX \in Nat \ {0} /\ i % MAX = i
<1>1. i \in Nat /\ i < MAX /\ MAX \in Nat \ {0}
  BY MaxAssumption DEF Slots
<1> QED
  BY <1>1, ModSmall

\* Advancing an offset keeps it an offset.
LEMMA AdvanceType ==
  ASSUME NEW offs \in Slots
  PROVE  Advance(offs) \in Slots
BY MaxAssumption, ModRange DEF Slots, Advance

\* Counting from the next offset on is counting from this one with one more.
LEMMA SlotShift ==
  ASSUME NEW offs \in Slots, NEW k \in Slots
  PROVE  (Advance(offs) + k) % MAX = (offs + k + 1) % MAX
<1>1. offs \in Nat /\ k \in Nat /\ offs < MAX /\ k < MAX /\ MAX \in Nat
  BY MaxAssumption DEF Slots
<1>2. CASE offs + 1 < MAX
  BY <1>1, <1>2, ModSmall DEF Advance
<1>3. CASE offs + 1 = MAX
  <2>1. Advance(offs) = 0
    BY <1>1, <1>3, ModWrap DEF Advance
  <2>2. (offs + k + 1) % MAX = k
    BY <1>1, <1>3, ModWrap
  <2>3. (0 + k) % MAX = k
    BY <1>1, ModSmall
  <2> QED
    BY <2>1, <2>2, <2>3
<1> QED
  BY <1>1, <1>2, <1>3

\* MAX slots further on is the same slot.
LEMMA SlotCycle ==
  ASSUME NEW offs \in Slots
  PROVE  (offs + MAX) % MAX = offs
BY MaxAssumption, ModWrap DEF Slots

\* Within one turn, two numbers of steps lead to different slots.
LEMMA SlotDistinct ==
  ASSUME NEW offs \in Slots, NEW k \in Slots, k # 0
  PROVE  (offs + k) % MAX # offs
<1>1. offs \in Nat /\ k \in Nat /\ offs < MAX /\ k < MAX /\ MAX \in Nat
  BY MaxAssumption DEF Slots
<1>2. CASE offs + k < MAX
  BY <1>1, <1>2, ModSmall
<1>3. CASE offs + k >= MAX
  BY <1>1, <1>3, ModWrap
<1> QED
  BY <1>1, <1>2, <1>3

(***************************************************************************)
(* Sequences.                                                              *)
(***************************************************************************)

\* Append, as a function.
LEMMA AppendFun ==
  ASSUME NEW S, NEW s \in Seq(S), NEW e \in S, NEW m \in Nat, m = Len(s) + 1
  PROVE  Append(s, e) = [k \in 1 .. m |-> IF k = m THEN e ELSE s[k]]
<1> DEFINE f == [k \in 1 .. m |-> IF k = m THEN e ELSE s[k]]
<1>1. f \in [1 .. m -> S]
  BY ElementOfSeq
<1>2. f \in Seq(S) /\ Len(f) = m
  <2> HIDE DEF f
  <2> QED
    BY <1>1
<1>3. Append(s, e) \in Seq(S) /\ Len(Append(s, e)) = m
  BY AppendProperties
<1>4. ASSUME NEW k \in 1 .. m
      PROVE  Append(s, e)[k] = f[k]
  <2>1. CASE k = m
    BY <2>1, AppendProperties
  <2>2. CASE k \in 1 .. Len(s)
    BY <2>2, AppendProperties
  <2> QED
    BY <2>1, <2>2
<1> HIDE DEF f
<1>5. Append(s, e) = f
  BY <1>2, <1>3, <1>4, SeqEqual
<1> QED
  BY <1>5 DEF f

(***************************************************************************)
(* Totals.                                                                 *)
(***************************************************************************)

\* Entries have sizes.
Sized(E) == \A e \in E : e.size \in Nat

\* Nothing has the total 0.
LEMMA TotalEmpty ==
  ASSUME NEW log, Len(log) = 0
  PROVE  TotalSize(log, 0)
<1> DEFINE total == [k \in 0..0 |-> 0]
<1>1. /\ total \in [0 .. 0 -> 0..0]
      /\ total[0] = 0
      /\ \A k \in 1 .. 0 : total[k] = total[k-1] + log[k].size
      /\ \A j, k \in 0 .. 0 : j <= k => total[j] <= total[k]
  OBVIOUS
<1> HIDE DEF total
<1> QED
  BY <1>1 DEF TotalSize

\* An entry more adds its size to the total.
LEMMA TotalAppend ==
  ASSUME NEW E, Sized(E), NEW log \in Seq(E), NEW n \in Nat, NEW e \in E,
         TotalSize(log, n)
  PROVE  TotalSize(Append(log, e), n + e.size)
<1> DEFINE len == Len(log)
<1>1. e.size \in Nat /\ len \in Nat /\ Append(log, e) \in Seq(E)
  BY DEF Sized
<1>2. PICK total \in [0 .. len -> 0 .. n] :
         /\ total[0] = 0
         /\ total[len] = n
         /\ \A k \in 1 .. len : total[k] = total[k-1] + log[k].size
         /\ \A j, k \in 0 .. len : j <= k => total[j] <= total[k]
  BY DEF TotalSize
<1> DEFINE more == [k \in 0 .. len + 1 |-> IF k = len + 1 THEN n + e.size ELSE total[k]]
<1>3. Len(Append(log, e)) = len + 1
  OBVIOUS
<1>4. more \in [0 .. len + 1 -> 0 .. n + e.size]
  BY <1>1, <1>2
<1>5. more[0] = 0 /\ more[len + 1] = n + e.size
  BY <1>1, <1>2
<1>6. ASSUME NEW k \in 1 .. len + 1
      PROVE  more[k] = more[k-1] + Append(log, e)[k].size
  <2>1. CASE k = len + 1
    BY <1>1, <1>2, <2>1
  <2>2. CASE k \in 1 .. len
    BY <1>1, <1>2, <2>2
  <2> QED
    BY <1>1, <2>1, <2>2
<1>7. \A j, k \in 0 .. len + 1 : j <= k => more[j] <= more[k]
  BY <1>1, <1>2
<1> HIDE DEF more
<1> QED
  BY <1>3, <1>4, <1>5, <1>6, <1>7 DEF TotalSize

\* Without the oldest entry the total is less by its size.
LEMMA TotalTail ==
  ASSUME NEW E, Sized(E), NEW log \in Seq(E), NEW n \in Nat, Len(log) > 0, TotalSize(log, n)
  PROVE  /\ n - Head(log).size \in Nat
         /\ TotalSize(Tail(log), n - Head(log).size)
<1> DEFINE len == Len(log)
           h   == Head(log).size
<1>1. h \in Nat /\ len \in Nat \ {0} /\ Tail(log) \in Seq(E) /\ log[1].size = h
  <2>1. Head(log) = log[1] /\ log[1] \in E /\ len \in Nat \ {0}
    OBVIOUS
  <2> QED
    BY <2>1 DEF Sized
<1>2. PICK total \in [0 .. len -> 0 .. n] :
         /\ total[0] = 0
         /\ total[len] = n
         /\ \A k \in 1 .. len : total[k] = total[k-1] + log[k].size
         /\ \A j, k \in 0 .. len : j <= k => total[j] <= total[k]
  BY DEF TotalSize
<1>3. total[1] = h
  BY <1>1, <1>2
<1>4. \A k \in 1 .. len : total[k] \in h .. n
  BY <1>1, <1>2, <1>3
<1>5. n - h \in Nat
  BY <1>1, <1>2, <1>4
<1> DEFINE less == [k \in 0 .. len - 1 |-> total[k+1] - h]
<1>6. Len(Tail(log)) = len - 1
  BY <1>1
<1>7. less \in [0 .. len - 1 -> 0 .. n - h]
  BY <1>1, <1>4
<1>8. less[0] = 0 /\ less[len - 1] = n - h
  BY <1>1, <1>2, <1>3
<1>9. ASSUME NEW k \in 1 .. len - 1
      PROVE  less[k] = less[k-1] + Tail(log)[k].size
  <2>1. Tail(log)[k] = log[k+1] /\ log[k+1] \in E
    BY <1>1
  <2>2. total[k+1] = total[k] + log[k+1].size
    BY <1>1, <1>2
  <2>3. less[k] = total[k+1] - h /\ less[k-1] = total[k] - h
    BY <1>1
  <2>4. log[k+1].size \in Nat
    BY <2>1 DEF Sized
  <2>5. total[k+1] \in Nat /\ total[k] \in Nat
    BY <1>1, <1>4
  <2> QED
    BY <1>1, <2>1, <2>2, <2>3, <2>4, <2>5
<1>10. \A j, k \in 0 .. len - 1 : j <= k => less[j] <= less[k]
  BY <1>1, <1>2, <1>4
<1> HIDE DEF less
<1> QED
  BY <1>5, <1>6, <1>7, <1>8, <1>9, <1>10 DEF TotalSize

(***************************************************************************)
(* The contents before and after add_entry.                                *)
(***************************************************************************)

\* What the type invariant says of the fields.
LEMMA FieldTypes ==
  ASSUME NEW E, NEW b, BufferType(b, E)
  PROVE  /\ b.in_offs \in Slots /\ b.out_offs \in Slots
         /\ b.full \in BOOLEAN /\ b.char_size \in Nat
         /\ b.entry \in [Slots -> E \cup {ZeroEntry}]
BY DEF BufferType

\* How many entries there are, and where they lie, in the two shapes.
LEMMA FullContents ==
  ASSUME NEW E, NEW b, BufferType(b, E), Ring(b, E), b.full
  PROVE  /\ Overwrites(b)
         /\ Held(b) = MAX
         /\ Contents(b) \in Seq(E)
         /\ Len(Contents(b)) = MAX
         /\ \A k \in 1 .. MAX : Contents(b)[k] = b.entry[(b.out_offs + k - 1) % MAX]
<1>1. Held(b) = MAX /\ MAX \in Nat \ {0}
  BY MaxAssumption DEF Held
<1>2. ASSUME NEW k \in 1 .. MAX
      PROVE  Contents(b)[k] = b.entry[(b.out_offs + k - 1) % MAX]
  <2>1. b.out_offs + (k - 1) = b.out_offs + k - 1
    BY <1>1, FieldTypes DEF Slots
  <2> QED
    BY <1>1, <2>1 DEF Contents, Slot
<1>3. ASSUME NEW k \in 1 .. MAX
      PROVE  Contents(b)[k] \in E
  <2>1. b.out_offs + k - 1 \in Nat
    BY <1>1, FieldTypes DEF Slots
  <2>2. (b.out_offs + k - 1) % MAX \in Slots
    BY <2>1, ModRange
  <2> QED
    BY <1>2, <2>2 DEF Ring
<1>4. Contents(b) = [k \in 1 .. MAX |-> Contents(b)[k]]
  BY <1>1 DEF Contents
<1>5. Contents(b) \in [1 .. MAX -> E]
  BY <1>3, <1>4
<1>6. Overwrites(b)
  BY DEF Ring, Overwrites
<1> QED
  BY <1>1, <1>2, <1>5, <1>6

\* The same before the buffer has been full once.
LEMMA PartContents ==
  ASSUME NEW E, NEW b, BufferType(b, E), Ring(b, E), ~b.full
  PROVE  /\ ~Overwrites(b)
         /\ Held(b) = b.in_offs
         /\ Contents(b) \in Seq(E)
         /\ Len(Contents(b)) = b.in_offs
         /\ \A k \in 1 .. b.in_offs : Contents(b)[k] = b.entry[k - 1]
<1>1. /\ b.out_offs = 0 /\ b.in_offs \in Nat /\ b.in_offs < MAX
      /\ MAX \in Nat \ {0} /\ Held(b) = b.in_offs
  BY MaxAssumption, FieldTypes DEF Ring, Slots, Held
<1>2. ASSUME NEW k \in 1 .. b.in_offs
      PROVE  Contents(b)[k] = b.entry[k - 1]
  <2>1. (0 + (k - 1)) % MAX = k - 1
    BY <1>1, ModSmall
  <2> QED
    BY <1>1, <2>1 DEF Contents, Slot
<1>3. ASSUME NEW k \in 1 .. b.in_offs
      PROVE  Contents(b)[k] \in E
  <2>1. k - 1 \in Slots /\ k - 1 < b.in_offs
    BY <1>1 DEF Slots
  <2> QED
    BY <1>2, <2>1 DEF Ring
<1>4. Contents(b) = [k \in 1 .. b.in_offs |-> Contents(b)[k]]
  BY <1>1 DEF Contents
<1>5. Contents(b) \in [1 .. b.in_offs -> E]
  BY <1>3, <1>4
<1>6. ~Overwrites(b)
  BY DEF Overwrites
<1> QED
  BY <1>1, <1>2, <1>5, <1>6

\* The fields after add_entry.
LEMMA AddFields ==
  ASSUME NEW b, NEW e
  PROVE  LET b2 == AddEntry(b, e)
         IN  /\ b2.entry = [b.entry EXCEPT ![b.in_offs] = e]
             /\ b2.in_offs = Advance(b.in_offs)
             /\ b2.out_offs = IF Overwrites(b) THEN Advance(b.out_offs) ELSE b.out_offs
             /\ b2.full \in BOOLEAN
             /\ b2.full <=> b2.in_offs = b2.out_offs
BY DEF AddEntry

\* What add_entry makes of char_size.
LEMMA AddSize ==
  ASSUME NEW b, NEW e
  PROVE  /\ Overwrites(b) =>
              AddEntry(b, e).char_size = b.char_size - b.entry[b.out_offs].size + e.size
         /\ ~Overwrites(b) => AddEntry(b, e).char_size = b.char_size - 0 + e.size
<1>1. CASE Overwrites(b)
  BY <1>1 DEF AddEntry
<1>2. CASE ~Overwrites(b)
  BY <1>2 DEF AddEntry
<1> QED
  BY <1>1, <1>2

\* Adding to a full buffer drops the oldest entry and appends the new one.
LEMMA AddToFull ==
  ASSUME NEW E, NEW b, BufferType(b, E), Ring(b, E), b.full, NEW e \in E
  PROVE  /\ AddEntry(b, e).full
         /\ AddEntry(b, e).in_offs = AddEntry(b, e).out_offs
         /\ Contents(AddEntry(b, e)) = Append(Tail(Contents(b)), e)
<1> DEFINE b2 == AddEntry(b, e)
           c  == Contents(b)
           o  == b.out_offs
<1>1. /\ o \in Slots /\ b.in_offs = o /\ MAX \in Nat \ {0} /\ Overwrites(b)
      /\ b.entry \in [Slots -> E \cup {ZeroEntry}]
  BY FieldTypes, FullContents, MaxAssumption DEF Ring
<1>2. /\ b2.entry = [b.entry EXCEPT ![o] = e]
      /\ b2.in_offs = Advance(o) /\ b2.out_offs = Advance(o) /\ b2.full
  <2> HIDE DEF b2, o
  <2> QED
    BY <1>1, AddFields DEF b2, o
<1>3. Contents(b2) = [k \in 1 .. MAX |-> b2.entry[(Advance(o) + (k - 1)) % MAX]]
  BY <1>2 DEF Contents, Held, Slot
<1>4. c \in Seq(E) /\ Len(c) = MAX
  BY <1>1, FullContents
<1> HIDE DEF c
<1>a. /\ Tail(c) \in Seq(E) /\ Len(Tail(c)) = MAX - 1
       /\ \A k \in 1 .. MAX - 1 : Tail(c)[k] = c[k + 1]
  <2>1. c # <<>>
    BY <1>1, <1>4
  <2> QED
    BY <1>4, <2>1, HeadTailProperties
<1>b. Append(Tail(c), e) = [k \in 1 .. MAX |-> IF k = MAX THEN e ELSE Tail(c)[k]]
  <2> DEFINE t == Tail(c)
  <2>1. t \in Seq(E) /\ MAX \in Nat /\ MAX = Len(t) + 1
    BY <1>1, <1>a
  <2> HIDE DEF t
  <2>2. Append(t, e) = [k \in 1 .. MAX |-> IF k = MAX THEN e ELSE t[k]]
    BY <2>1, AppendFun
  <2> QED
    BY <2>2 DEF t
<1>5. ASSUME NEW k \in 1 .. MAX
      PROVE  b2.entry[(Advance(o) + (k - 1)) % MAX] = Append(Tail(c), e)[k]
  <2>1. (Advance(o) + (k - 1)) % MAX = (o + k) % MAX
    <3>1. k - 1 \in Slots /\ o + (k - 1) + 1 = o + k
      BY <1>1 DEF Slots
    <3> QED
      BY <1>1, <3>1, SlotShift
  <2>2. CASE k = MAX
    <3>1. (o + k) % MAX = o
      BY <1>1, <2>2, SlotCycle
    <3>2. Append(Tail(c), e)[k] = e
      BY <1>1, <1>b, <2>2
    <3>3. b2.entry[o] = e
      <4> HIDE DEF b2, o
      <4> QED
        BY <1>1, <1>2
    <3> HIDE DEF b2, o, c
    <3> QED
      BY <2>1, <3>1, <3>2, <3>3
  <2>3. CASE k < MAX
    <3>1. k \in Slots /\ k # 0 /\ o + k \in Nat /\ k + 1 \in 1 .. MAX /\ o + (k + 1) - 1 = o + k
      BY <1>1, <2>3 DEF Slots
    <3>2. (o + k) % MAX \in Slots /\ (o + k) % MAX # o
      BY <1>1, <3>1, SlotDistinct, ModRange
    <3>3. c[k+1] = b.entry[(o + k) % MAX]
      BY <3>1, FullContents DEF c
    <3>4. Append(Tail(c), e)[k] = c[k+1]
      BY <1>1, <1>a, <1>b, <2>3
    <3> QED
      BY <1>1, <1>2, <2>1, <3>2, <3>3, <3>4
  <2>4. k = MAX \/ k < MAX
    BY <1>1
  <2> QED
    BY <2>2, <2>3, <2>4
<1>6. Append(Tail(c), e) = [k \in 1 .. MAX |-> Append(Tail(c), e)[k]]
  BY <1>b
<1> HIDE DEF b2, c, o
<1>7. Contents(b2) = Append(Tail(c), e)
  BY <1>3, <1>5, <1>6
<1> QED
  BY <1>2, <1>7 DEF b2, c

\* Adding to a buffer that is not full appends the new entry.
LEMMA AddToPart ==
  ASSUME NEW E, NEW b, BufferType(b, E), Ring(b, E), ~b.full, NEW e \in E
  PROVE  /\ AddEntry(b, e).out_offs = 0
         /\ AddEntry(b, e).full <=> b.in_offs + 1 = MAX
         /\ AddEntry(b, e).in_offs = IF b.in_offs + 1 = MAX THEN 0 ELSE b.in_offs + 1
         /\ Contents(AddEntry(b, e)) = Append(Contents(b), e)
<1> DEFINE b2 == AddEntry(b, e)
           c  == Contents(b)
           n  == b.in_offs
<1>1. /\ n \in Slots /\ n \in Nat /\ n < MAX /\ MAX \in Nat \ {0}
      /\ b.out_offs = 0 /\ ~Overwrites(b)
      /\ b.entry \in [Slots -> E \cup {ZeroEntry}]
  BY FieldTypes, PartContents, MaxAssumption DEF Ring, Slots
<1>2. Advance(n) = IF n + 1 = MAX THEN 0 ELSE n + 1
  <2>1. CASE n + 1 = MAX
    BY <1>1, <2>1, ModWrap DEF Advance
  <2>2. CASE n + 1 < MAX
    BY <1>1, <2>2, ModSmall DEF Advance
  <2> QED
    BY <1>1, <2>1, <2>2
<1>3. /\ b2.entry = [b.entry EXCEPT ![n] = e]
      /\ b2.in_offs = (IF n + 1 = MAX THEN 0 ELSE n + 1)
      /\ b2.out_offs = 0
      /\ b2.full <=> b2.in_offs = 0
  BY <1>1, <1>2, AddFields
<1>4. (b2.full <=> n + 1 = MAX) /\ Held(b2) = n + 1
  <2> HIDE DEF b2, n
  <2>1. CASE n + 1 = MAX
    BY <1>1, <1>3, <2>1 DEF Held
  <2>2. CASE n + 1 < MAX
    <3>1. b2.in_offs = n + 1 /\ b2.out_offs = 0 /\ ~b2.full
      BY <1>1, <1>3, <2>2
    <3>2. Held(b2) = n + 1
      BY <1>1, <3>1 DEF Held
    <3> QED
      BY <1>1, <2>2, <3>1, <3>2
  <2> QED
    BY <1>1, <2>1, <2>2
<1>5. Contents(b2) = [k \in 1 .. n + 1 |-> b2.entry[(0 + (k - 1)) % MAX]]
  BY <1>3, <1>4 DEF Contents, Slot
<1>6. c \in Seq(E) /\ Len(c) = n /\ \A k \in 1 .. n : c[k] = b.entry[k - 1]
  BY PartContents
<1> HIDE DEF b2, c, n
<1>7. Append(c, e) = [k \in 1 .. n + 1 |-> IF k = n + 1 THEN e ELSE c[k]]
  BY <1>1, <1>6, AppendFun
<1>8. ASSUME NEW k \in 1 .. n + 1
      PROVE  b2.entry[(0 + (k - 1)) % MAX] = IF k = n + 1 THEN e ELSE c[k]
  <2>1. k - 1 \in Slots /\ (0 + (k - 1)) % MAX = k - 1
    BY <1>1, ModSmall DEF Slots
  <2>2. CASE k = n + 1
    <3>1. k - 1 = n
      BY <1>1, <2>2
    <3> QED
      BY <1>1, <1>3, <2>1, <2>2, <3>1
  <2>3. CASE k \in 1 .. n
    BY <1>1, <1>3, <1>6, <2>1, <2>3
  <2> QED
    BY <1>1, <2>2, <2>3
<1>9. Contents(b2) = Append(c, e)
  BY <1>5, <1>7, <1>8
<1> QED
  BY <1>3, <1>4, <1>9 DEF b2, c, n

(***************************************************************************)
(* The ring is initialised and kept by add_entry.                          *)
(***************************************************************************)

\* The memset buffer is an empty ring.
LEMMA EmptyRing ==
  ASSUME NEW E
  PROVE  /\ BufferType(EmptyBuffer, E)
         /\ Ring(EmptyBuffer, E)
         /\ Contents(EmptyBuffer) = <<>>
         /\ TotalSize(Contents(EmptyBuffer), EmptyBuffer.char_size)
<1> DEFINE b == EmptyBuffer
<1>1. /\ b.entry = [i \in Slots |-> ZeroEntry] /\ b.in_offs = 0 /\ b.out_offs = 0
      /\ ~b.full /\ b.char_size = 0
  BY DEF EmptyBuffer
<1>2. BufferType(b, E)
  BY MaxAssumption DEF BufferType, EmptyBuffer, Slots
<1>3. Ring(b, E)
  BY <1>1, MaxAssumption DEF Ring, Slots
<1>4. Contents(b) \in Seq(E) /\ Len(Contents(b)) = 0
  BY <1>1, <1>2, <1>3, PartContents
<1>5. Contents(b) = <<>>
  BY <1>4
<1>6. TotalSize(Contents(b), b.char_size)
  BY <1>1, <1>4, TotalEmpty
<1> QED
  BY <1>2, <1>3, <1>5, <1>6

\* A buffer that holds MAX entries is full, and one that holds fewer is not.
LEMMA FullIffMax ==
  ASSUME NEW E, NEW b, BufferType(b, E), Ring(b, E)
  PROVE  /\ Contents(b) \in Seq(E)
         /\ b.full <=> Len(Contents(b)) = MAX
<1>1. CASE b.full
  BY <1>1, FullContents
<1>2. CASE ~b.full
  <2>1. b.in_offs \in Slots
    BY FieldTypes
  <2>2. b.in_offs < MAX /\ b.in_offs \in Nat /\ MAX \in Nat
    BY <2>1, SlotSmall
  <2> QED
    BY <1>2, <2>2, PartContents
<1> QED
  BY <1>1, <1>2

\* add_entry gives a record of the right type.
LEMMA AddType ==
  ASSUME NEW E, Sized(E), NEW b, BufferType(b, E), NEW e \in E,
         AddEntry(b, e).char_size \in Nat
  PROVE  BufferType(AddEntry(b, e), E)
<1>1. Advance(b.in_offs) \in Slots /\ Advance(b.out_offs) \in Slots /\ b.out_offs \in Slots
  BY FieldTypes, AdvanceType
<1>2. [b.entry EXCEPT ![b.in_offs] = e] \in [Slots -> E \cup {ZeroEntry}]
  BY FieldTypes
<1> QED
  BY <1>1, <1>2 DEF AddEntry, BufferType

\* add_entry keeps the ring and implements EntryLog's Add.
LEMMA AddKeepsRing ==
  ASSUME NEW E, Sized(E), NEW b, BufferType(b, E), Ring(b, E),
         TotalSize(Contents(b), b.char_size), NEW e \in E
  PROVE  /\ BufferType(AddEntry(b, e), E)
         /\ Ring(AddEntry(b, e), E)
         /\ TotalSize(Contents(AddEntry(b, e)), AddEntry(b, e).char_size)
         /\ IF Len(Contents(b)) = MAX
              THEN /\ Contents(AddEntry(b, e)) = Append(Tail(Contents(b)), e)
                   /\ OverwrittenPtr(b) = Head(Contents(b)).buffptr
              ELSE /\ Contents(AddEntry(b, e)) = Append(Contents(b), e)
                   /\ OverwrittenPtr(b) = NULL
<1> DEFINE b2 == AddEntry(b, e)
           c  == Contents(b)
<1>1. /\ b.in_offs \in Slots /\ b.out_offs \in Slots /\ b.char_size \in Nat
      /\ b.entry \in [Slots -> E \cup {ZeroEntry}]
      /\ c \in Seq(E) /\ e.size \in Nat
      /\ MAX \in Nat \ {0}
  BY FieldTypes, FullIffMax, MaxAssumption DEF Sized
<1>2. b2.entry = [b.entry EXCEPT ![b.in_offs] = e]
  BY AddFields
<1>3. CASE b.full
  <2>1. /\ b2.full /\ b2.in_offs = b2.out_offs /\ Contents(b2) = Append(Tail(c), e)
        /\ Overwrites(b) /\ Len(c) = MAX
    BY <1>3, AddToFull, FullContents
  <2>2. Head(c) = b.entry[b.out_offs]
    <3>1. c[1] = b.entry[(b.out_offs + 1 - 1) % MAX]
      BY <1>1, <1>3, FullContents
    <3>2. (b.out_offs + 1 - 1) % MAX = b.out_offs
      <4>1. b.out_offs \in Nat /\ b.out_offs % MAX = b.out_offs
        BY <1>1, SlotSmall
      <4>2. b.out_offs + 1 - 1 = b.out_offs
        BY <4>1
      <4> QED
        BY <4>1, <4>2
    <3>3. c # <<>> /\ Head(c) = c[1]
      BY <1>1, <2>1
    <3> QED
      BY <3>1, <3>2, <3>3
  <2>3. b2.char_size = b.char_size - Head(c).size + e.size
    BY <2>1, <2>2, AddSize
  <2>4. /\ b.char_size - Head(c).size \in Nat
        /\ TotalSize(Tail(c), b.char_size - Head(c).size)
    BY <1>1, <2>1, TotalTail
  <2>5. Tail(c) \in Seq(E)
    BY <1>1, <2>1
  <2>6. TotalSize(Contents(b2), b2.char_size) /\ b2.char_size \in Nat
    <3> DEFINE t == Tail(c)
               m == b.char_size - Head(c).size
    <3>1. t \in Seq(E) /\ m \in Nat /\ TotalSize(t, m) /\ b2.char_size = m + e.size
          /\ Contents(b2) = Append(t, e)
      BY <2>1, <2>3, <2>4, <2>5
    <3> HIDE DEF t, m, b2
    <3>2. TotalSize(Append(t, e), m + e.size)
      BY <3>1, TotalAppend
    <3> QED
      BY <1>1, <3>1, <3>2
  <2>7. Ring(b2, E)
    BY <1>1, <1>2, <1>3, <2>1 DEF Ring
  <2>8. BufferType(b2, E)
    BY <2>6, AddType
  <2> QED
    BY <1>3, <2>1, <2>2, <2>6, <2>7, <2>8 DEF OverwrittenPtr
<1>4. CASE ~b.full
  <2>1. /\ b2.out_offs = 0
        /\ b2.full <=> b.in_offs + 1 = MAX
        /\ b2.in_offs = IF b.in_offs + 1 = MAX THEN 0 ELSE b.in_offs + 1
        /\ Contents(b2) = Append(c, e)
        /\ ~Overwrites(b) /\ Len(c) # MAX
    BY <1>4, AddToPart, PartContents, FullIffMax
  <2>2. b2.char_size = b.char_size + e.size
    <3>1. b2.char_size = b.char_size - 0 + e.size
      BY <2>1, AddSize
    <3> QED
      BY <1>1, <3>1
  <2>3. TotalSize(Contents(b2), b2.char_size) /\ b2.char_size \in Nat
    BY <1>1, <2>1, <2>2, TotalAppend
  <2>4. BufferType(b2, E)
    BY <2>3, AddType
  <2>5. \A i \in Slots : IF i < b.in_offs THEN b.entry[i] \in E ELSE b.entry[i] = ZeroEntry
    BY <1>4 DEF Ring
  <2>6. Ring(b2, E)
    <3> HIDE DEF b2
    <3>1. CASE b.in_offs + 1 = MAX
      BY <1>1, <1>2, <2>1, <2>5, <3>1 DEF Ring, Slots
    <3>2. CASE b.in_offs + 1 # MAX
      BY <1>1, <1>2, <2>1, <2>5, <3>2 DEF Ring, Slots
    <3> QED
      BY <3>1, <3>2
  <2> QED
    BY <2>1, <2>3, <2>4, <2>6 DEF OverwrittenPtr
<1> QED
  BY <1>3, <1>4

\* The slots from out_offs on that hold entries are the ones memset or add_entry
\* left with a size, when no entry is empty.
LEMMA RingSlots ==
  ASSUME NEW E, \A e \in E : e.size \in Nat \ {0}, NEW b, BufferType(b, E), Ring(b, E)
  PROVE  SizedSlots(b) = HeldSlots(b)
<1> USE DEF SizedSlots, HeldSlots
<1>1. /\ b.in_offs \in Slots /\ b.out_offs \in Slots /\ MAX \in Nat \ {0}
  BY FieldTypes, MaxAssumption
<1>2. CASE b.full
  <2>1. {i \in Slots : b.entry[i].size > 0} = Slots
    BY <1>2 DEF Ring
  <2>2. Held(b) = MAX
    BY <1>2, FullContents
  <2>3. ASSUME NEW k \in 0 .. MAX - 1
        PROVE  Slot(b, k) \in Slots
    BY <1>1, ModRange DEF Slot, Slots
  <2>4. ASSUME NEW i \in Slots
        PROVE  \E k \in 0 .. MAX - 1 : i = Slot(b, k)
    <3>1. CASE i >= b.out_offs
      <4>1. i - b.out_offs \in 0 .. MAX - 1 /\ b.out_offs + (i - b.out_offs) = i
        BY <1>1, <3>1 DEF Slots
      <4>2. i % MAX = i
        BY SlotSmall
      <4> QED
        BY <4>1, <4>2 DEF Slot
    <3>2. CASE i < b.out_offs
      <4>1. /\ i - b.out_offs + MAX \in 0 .. MAX - 1
            /\ b.out_offs + (i - b.out_offs + MAX) = i + MAX
        BY <1>1, <3>2 DEF Slots
      <4>2. (i + MAX) % MAX = i
        BY SlotCycle
      <4> QED
        BY <4>1, <4>2 DEF Slot
    <3> QED
      BY <1>1, <3>1, <3>2 DEF Slots
  <2> QED
    BY <2>1, <2>2, <2>3, <2>4
<1>3. CASE ~b.full
  <2>1. b.out_offs = 0 /\ Held(b) = b.in_offs
    BY <1>3, PartContents DEF Ring
  <2>2. ASSUME NEW k \in 0 .. b.in_offs - 1
        PROVE  Slot(b, k) = k
    BY <1>1, <2>1, ModSmall DEF Slot, Slots
  <2>3. ASSUME NEW i \in Slots
        PROVE  b.entry[i].size > 0 <=> i < b.in_offs
    BY <1>3 DEF Ring, ZeroEntry
  <2>4. {i \in Slots : b.entry[i].size > 0} = 0 .. b.in_offs - 1
    BY <1>1, <2>3 DEF Slots
  <2> QED
    BY <2>1, <2>2, <2>4
<1> QED
  BY <1>2, <1>3

(***************************************************************************)
(* The searches.                                                           *)
(***************************************************************************)

\* Where the entry of each iteration lies.
LEMMA ContentsSlot ==
  ASSUME NEW E, NEW b, BufferType(b, E), Ring(b, E)
  PROVE  /\ Held(b) \in Nat /\ Held(b) <= MAX
         /\ Contents(b) \in Seq(E) /\ Len(Contents(b)) = Held(b)
         /\ \A i \in 0 .. Held(b) - 1 : b.entry[Slot(b, i)] = Contents(b)[i + 1]
<1>1. /\ Contents(b) \in Seq(E) /\ Len(Contents(b)) = Held(b)
      /\ Held(b) \in Nat /\ Held(b) <= MAX
  BY FullContents, PartContents, FieldTypes, MaxAssumption DEF Slots
<1>2. ASSUME NEW i \in 0 .. Held(b) - 1
      PROVE  b.entry[Slot(b, i)] = Contents(b)[i + 1]
  <2>1. i + 1 \in 1 .. Held(b) /\ (i + 1) - 1 = i
    BY <1>1
  <2> QED
    BY <2>1 DEF Contents
<1> QED
  BY <1>1, <1>2

\* The loop of the searches runs once for each entry held.
LEMMA IterationsAreHeld ==
  ASSUME NEW E, NEW b, BufferType(b, E), Ring(b, E)
  PROVE  Iterations(b) = Held(b)
<1> DEFINE Ends(n) == ~Continues(b, n) /\ \A i \in 0 .. n-1 : Continues(b, i)
<1>0. Held(b) \in 0 .. MAX /\ MAX \in Nat \ {0}
  BY ContentsSlot, MaxAssumption
<1>1. Ends(Held(b)) /\ \A n \in 0 .. MAX : Ends(n) => n = Held(b)
  <2>1. CASE b.full
    <3>1. Held(b) = MAX /\ \A i \in 0 .. MAX : Continues(b, i) <=> i < MAX
      BY <2>1, FullContents DEF Continues
    <3> QED
      BY <1>0, <3>1
  <2>2. CASE ~b.full
    <3>1. b.out_offs = 0 /\ b.in_offs \in Nat /\ b.in_offs < MAX /\ Held(b) = b.in_offs
      BY <2>2, PartContents, FieldTypes, MaxAssumption DEF Ring, Slots
    <3>2. \A i \in 0 .. MAX - 1 : Continues(b, i) <=> i # b.in_offs
      <4>1. ASSUME NEW i \in 0 .. MAX - 1
            PROVE  Slot(b, i) = i
        <5>1. i \in Nat /\ i < MAX
          BY <1>0
        <5> QED
          BY <3>1, <5>1, ModSmall DEF Slot
      <4> QED
        BY <2>2, <4>1 DEF Continues
    <3>3. Continues(b, MAX) <=> b.in_offs # 0
      <4>1. Slot(b, MAX) = 0
        BY <1>0, <3>1, ModWrap DEF Slot
      <4> QED
        BY <2>2, <4>1 DEF Continues
    <3>4. Ends(b.in_offs)
      BY <1>0, <3>1, <3>2
    <3>5. ASSUME NEW n \in 0 .. MAX, Ends(n)
          PROVE  n = b.in_offs
      <4>1. CASE n < MAX
        BY <1>0, <3>2, <3>5, <4>1
      <4>2. CASE n = MAX
        <5>1. b.in_offs = 0 /\ 0 \in 0 .. n - 1 /\ 0 \in 0 .. MAX - 1
          BY <1>0, <3>1, <3>3, <3>5, <4>2
        <5> QED
          BY <3>2, <3>5, <5>1
      <4> QED
        BY <1>0, <4>1, <4>2
    <3> QED
      BY <3>1, <3>4, <3>5
  <2> QED
    BY <2>1, <2>2
<1>2. Iterations(b) = CHOOSE n \in 0 .. MAX : Ends(n)
  BY DEF Iterations
<1> HIDE DEF Ends
<1> QED
  BY <1>0, <1>1, <1>2

\* total counts the bytes of the entries before each.
Totals(b, total) ==
  /\ total \in [0 .. Held(b) -> 0 .. b.char_size]
  /\ total[0] = 0 /\ total[Held(b)] = b.char_size
  /\ \A k \in 1 .. Held(b) : total[k] = total[k-1] + Contents(b)[k].size
  /\ \A j, k \in 0 .. Held(b) : j <= k => total[j] <= total[k]

\* The running total of char_size solves the equation of the searches' count, and
\* no other function does.
LEMMA CountsAreTotals ==
  ASSUME NEW E, NEW b, BufferType(b, E), Ring(b, E), TotalSize(Contents(b), b.char_size)
  PROVE  Totals(b, CountBefore(b))
<1> DEFINE n == Held(b)
           Solves(f) == f = [i \in 0 .. n |-> IF i = 0 THEN 0 ELSE f[i-1] + b.entry[Slot(b, i-1)].size]
<1>1. /\ n \in Nat /\ Len(Contents(b)) = n
      /\ \A i \in 0 .. n - 1 : b.entry[Slot(b, i)] = Contents(b)[i + 1]
  BY ContentsSlot
<1>2. PICK total : Totals(b, total)
  BY <1>1 DEF TotalSize, Totals
<1>3. \A k \in 1 .. n : total[k] = total[k-1] + b.entry[Slot(b, k-1)].size
  <2>1. ASSUME NEW k \in 1 .. n
        PROVE  b.entry[Slot(b, k-1)] = Contents(b)[k]
    <3>1. k - 1 \in 0 .. n - 1 /\ (k - 1) + 1 = k
      BY <1>1
    <3> QED
      BY <1>1, <3>1
  <2> QED
    BY <1>2, <2>1 DEF Totals
<1>4. Solves(total)
  <2>1. total = [i \in 0 .. n |-> total[i]] /\ total[0] = 0
    BY <1>2 DEF Totals
  <2>2. \A i \in 0 .. n : i = 0 \/ i \in 1 .. n
    BY <1>1
  <2> HIDE DEF n
  <2> QED
    BY <1>3, <2>1, <2>2
<1>5. CountBefore(b) = CHOOSE f : Solves(f)
  BY IterationsAreHeld DEF CountBefore
<1>6. Solves(CountBefore(b))
  <2> HIDE DEF Solves
  <2> QED
    BY <1>4, <1>5
<1>7. PICK g : g = CountBefore(b) /\ Solves(g)
  BY <1>6
<1>8. \A i \in 0 .. n : g[i] = total[i]
  <2> DEFINE S == {i \in 0 .. n : g[i] # total[i]}
  <2>1. SUFFICES ASSUME S # {} PROVE FALSE
    OBVIOUS
  <2>2. S \in SUBSET Nat
    BY <1>1
  <2>3. PICK m \in S : \A i \in S : m <= i
    BY <2>1, <2>2, LeastExists
  <2>4. m \in 0 .. n /\ m # 0
    BY <1>1, <1>2, <1>7, <2>3 DEF Totals
  <2>5. m - 1 \in 0 .. n /\ m - 1 \notin S /\ m \in 1 .. n
    BY <1>1, <2>3, <2>4
  <2>6. g[m] = g[m-1] + b.entry[Slot(b, m-1)].size
    BY <1>7, <2>4
  <2> QED
    BY <1>3, <2>3, <2>5, <2>6
<1>9. g = total
  <2>1. g = [i \in 0 .. n |-> g[i]] /\ total = [i \in 0 .. n |-> total[i]]
    BY <1>2, <1>7 DEF Totals
  <2> HIDE DEF n, Solves
  <2> QED
    BY <1>8, <2>1
<1> QED
  BY <1>2, <1>7, <1>9

\* Byte number off of all is in entry number k, counted from 1.
InEntry(b, k, off) == k \in 1 .. Held(b) /\ CountBefore(b)[k-1] <= off /\ off < CountBefore(b)[k]

\* What the totals are, in arithmetic.
LEMMA TotalsType ==
  ASSUME NEW E, Sized(E), NEW b, BufferType(b, E), Ring(b, E), TotalSize(Contents(b), b.char_size)
  PROVE  /\ Held(b) \in Nat /\ b.char_size \in Nat
         /\ \A k \in 0 .. Held(b) : CountBefore(b)[k] \in 0 .. b.char_size
         /\ CountBefore(b)[0] = 0 /\ CountBefore(b)[Held(b)] = b.char_size
         /\ \A k \in 1 .. Held(b) : /\ CountBefore(b)[k] = CountBefore(b)[k-1] + Contents(b)[k].size
                                    /\ Contents(b)[k].size \in Nat
         /\ \A j, k \in 0 .. Held(b) : j <= k => CountBefore(b)[j] <= CountBefore(b)[k]
<1>1. Totals(b, CountBefore(b)) /\ Held(b) \in Nat /\ b.char_size \in Nat
      /\ Contents(b) \in Seq(E) /\ Len(Contents(b)) = Held(b)
  BY CountsAreTotals, ContentsSlot, FieldTypes
<1>2. \A k \in 1 .. Held(b) : Contents(b)[k].size \in Nat
  BY <1>1 DEF Sized
<1> QED
  BY <1>1, <1>2 DEF Totals

\* A byte is in one entry only.
LEMMA InOneEntry ==
  ASSUME NEW E, Sized(E), NEW b, BufferType(b, E), Ring(b, E), TotalSize(Contents(b), b.char_size),
         NEW off \in Nat, NEW j, NEW k, InEntry(b, j, off), InEntry(b, k, off)
  PROVE  j = k
<1>1. PICK n, t : n \in Nat /\ n = Held(b) /\ t = CountBefore(b)
  BY TotalsType
<1> n \in Nat
  BY <1>1
<1>2. /\ \A i \in 0 .. n : t[i] \in Nat
      /\ \A i1, i2 \in 0 .. n : i1 <= i2 => t[i1] <= t[i2]
      /\ j \in 1 .. n /\ k \in 1 .. n
      /\ t[j-1] <= off /\ off < t[j] /\ t[k-1] <= off /\ off < t[k]
  BY <1>1, TotalsType DEF InEntry
<1>3. ~(j < k)
  <2>1. SUFFICES ASSUME j < k PROVE FALSE
    OBVIOUS
  <2>2. j \in 0 .. n /\ k - 1 \in 0 .. n /\ j <= k - 1
    BY <1>2, <2>1
  <2> QED
    BY <1>2, <2>2
<1>4. ~(k < j)
  <2>1. SUFFICES ASSUME k < j PROVE FALSE
    OBVIOUS
  <2>2. k \in 0 .. n /\ j - 1 \in 0 .. n /\ k <= j - 1
    BY <1>2, <2>1
  <2> QED
    BY <1>2, <2>2
<1> QED
  BY <1>2, <1>3, <1>4

\* aesd_circular_buffer_find_entry_offset_for_fpos: the entry that contains the
\* byte, and NULL behind the last.
LEMMA FindsEntry ==
  ASSUME NEW E, Sized(E), NEW b, BufferType(b, E), Ring(b, E), TotalSize(Contents(b), b.char_size),
         NEW off \in Nat
  PROVE  /\ off >= b.char_size => FindEntryOffsetForFpos(b, off) = NULL
         /\ off < b.char_size =>
              \E k \in 1 .. Held(b) :
                /\ InEntry(b, k, off)
                /\ FindEntryOffsetForFpos(b, off) =
                     [entry |-> Contents(b)[k], offset |-> off - CountBefore(b)[k-1]]
<1> DEFINE Hits == {i \in 0 .. Held(b) - 1 : CountBefore(b)[i+1] > off}
<1>1. FindEntryOffsetForFpos(b, off) =
        IF Hits = {} THEN NULL
          ELSE [entry |-> b.entry[Slot(b, Min(Hits))], offset |-> off - CountBefore(b)[Min(Hits)]]
  BY IterationsAreHeld DEF FindEntryOffsetForFpos
<1>2. PICK n, t, size : n \in Nat /\ size \in Nat /\ n = Held(b) /\ t = CountBefore(b) /\ size = b.char_size
  BY TotalsType
<1> n \in Nat /\ size \in Nat
  BY <1>2
<1>3. /\ \A i \in 0 .. n : t[i] \in 0 .. size
      /\ t[0] = 0 /\ t[n] = size
      /\ Hits = {i \in 0 .. n - 1 : t[i+1] > off}
  BY <1>2, TotalsType
<1>4. CASE off >= size
  <2>1. ASSUME NEW i \in 0 .. n - 1 PROVE ~(t[i+1] > off)
    <3>1. i + 1 \in 0 .. n
      OBVIOUS
    <3> QED
      BY <1>3, <1>4, <3>1
  <2>2. Hits = {}
    BY <1>3, <2>1
  <2> QED
    BY <1>1, <1>2, <1>4, <2>2
<1>5. CASE off < size
  <2>1. n - 1 \in Hits
    <3>1. n # 0
      BY <1>3, <1>5
    <3>2. n - 1 \in 0 .. n - 1 /\ (n - 1) + 1 = n
      BY <3>1
    <3> QED
      BY <1>3, <1>5, <3>2
  <2>2. Hits \in SUBSET Nat
    BY <1>3
  <2>3. PICK m \in Hits : m = Min(Hits) /\ \A i \in Hits : m <= i
    <3> HIDE DEF Hits
    <3> QED
      BY <2>1, <2>2, MinOfSet
  <2>4. m \in 0 .. n - 1 /\ t[m + 1] > off
    BY <1>3, <2>3
  <2>5. t[m] <= off
    <3>1. CASE m = 0
      BY <1>3, <3>1
    <3>2. CASE m # 0
      <4>1. m - 1 \in 0 .. n - 1 /\ (m - 1) + 1 = m /\ ~(m <= m - 1) /\ m \in 0 .. n
        BY <2>4, <3>2
      <4>2. m - 1 \notin Hits
        BY <2>3, <4>1
      <4>3. ~(t[m] > off)
        BY <1>3, <4>1, <4>2
      <4> QED
        BY <1>3, <4>1, <4>3
    <3> QED
      BY <3>1, <3>2
  <2>6. m + 1 \in 1 .. n /\ (m + 1) - 1 = m /\ m + 1 \in 0 .. n
    BY <2>4
  <2>7. InEntry(b, m + 1, off)
    BY <1>2, <1>3, <2>4, <2>5, <2>6 DEF InEntry
  <2>8. b.entry[Slot(b, m)] = Contents(b)[m + 1]
    BY <1>2, <2>4, ContentsSlot
  <2>9. FindEntryOffsetForFpos(b, off) =
          [entry |-> Contents(b)[m + 1], offset |-> off - CountBefore(b)[(m + 1) - 1]]
    <3>1. Hits # {}
      BY <2>1
    <3> HIDE DEF Hits
    <3>2. FindEntryOffsetForFpos(b, off) =
            [entry |-> b.entry[Slot(b, Min(Hits))], offset |-> off - CountBefore(b)[Min(Hits)]]
      BY <1>1, <3>1
    <3>3. FindEntryOffsetForFpos(b, off) =
            [entry |-> b.entry[Slot(b, m)], offset |-> off - CountBefore(b)[m]]
      BY <2>3, <3>2
    <3> QED
      BY <2>6, <2>8, <3>3
  <2> QED
    BY <1>2, <1>5, <2>6, <2>7, <2>9
<1> HIDE DEF Hits
<1> QED
  BY <1>2, <1>4, <1>5

\* aesd_circular_buffer_find_fpos_for_entry_offset: the place of the byte among
\* all, and -1 when there is no such byte.
LEMMA FindsFpos ==
  ASSUME NEW E, Sized(E), NEW b, BufferType(b, E), Ring(b, E), TotalSize(Contents(b), b.char_size),
         NEW k \in Nat, NEW off \in Nat
  PROVE  IF k < Held(b) /\ off < Contents(b)[k+1].size
           THEN /\ FindFposForEntryOffset(b, k, off) = CountBefore(b)[k] + off
                /\ FindFposForEntryOffset(b, k, off) \in 0 .. b.char_size - 1
                /\ InEntry(b, k + 1, FindFposForEntryOffset(b, k, off))
           ELSE FindFposForEntryOffset(b, k, off) = -1
<1>1. PICK n, t, size : n \in Nat /\ size \in Nat /\ n = Held(b) /\ t = CountBefore(b) /\ size = b.char_size
  BY TotalsType
<1> n \in Nat /\ size \in Nat
  BY <1>1
<1>2. CASE k < n
  <2>1. k \in 0 .. n - 1 /\ k + 1 \in 1 .. n /\ k + 1 \in 0 .. n /\ k \in 0 .. n /\ (k + 1) - 1 = k
    BY <1>2
  <2>2. b.entry[Slot(b, k)] = Contents(b)[k + 1]
    BY <1>1, <2>1, ContentsSlot
  <2>3. PICK len \in Nat : len = Contents(b)[k + 1].size /\ t[k + 1] = t[k] + len
    <3>1. t[k + 1] = t[(k + 1) - 1] + Contents(b)[k + 1].size /\ Contents(b)[k + 1].size \in Nat
      BY <1>1, <2>1, TotalsType
    <3> QED
      BY <2>1, <3>1
  <2>4. t[k] \in Nat /\ t[k + 1] <= size /\ t[k + 1] \in Nat
    BY <1>1, <2>1, TotalsType
  <2>5. FindFposForEntryOffset(b, k, off) = IF off < len THEN t[k] + off ELSE -1
    BY <1>1, <1>2, <2>2, <2>3, IterationsAreHeld DEF FindFposForEntryOffset
  <2>6. off < len => t[k] + off \in 0 .. size - 1 /\ t[k] <= t[k] + off /\ t[k] + off < t[k + 1]
    BY <2>3, <2>4
  <2> QED
    BY <1>1, <1>2, <2>1, <2>3, <2>5, <2>6 DEF InEntry
<1>3. CASE ~(k < n)
  BY <1>1, <1>3, IterationsAreHeld DEF FindFposForEntryOffset
<1> QED
  BY <1>2, <1>3

\* The searches are inverse to each other.
LEMMA SearchesInverse ==
  ASSUME NEW E, Sized(E), NEW b, BufferType(b, E), Ring(b, E), TotalSize(Contents(b), b.char_size),
         NEW k \in Nat, NEW off \in Nat, FindFposForEntryOffset(b, k, off) # -1
  PROVE  /\ k < Held(b)
         /\ FindEntryOffsetForFpos(b, FindFposForEntryOffset(b, k, off)) =
              [entry |-> Contents(b)[k+1], offset |-> off]
<1>1. /\ k < Held(b)
      /\ FindFposForEntryOffset(b, k, off) = CountBefore(b)[k] + off
      /\ FindFposForEntryOffset(b, k, off) \in 0 .. b.char_size - 1
      /\ InEntry(b, k + 1, FindFposForEntryOffset(b, k, off))
  BY FindsFpos
<1>2. PICK pos : pos = FindFposForEntryOffset(b, k, off)
  OBVIOUS
<1>3. pos \in Nat /\ pos < b.char_size /\ InEntry(b, k + 1, pos)
  <2>1. b.char_size \in Nat /\ pos \in 0 .. b.char_size - 1
    BY <1>1, <1>2, FieldTypes
  <2>2. pos \in Nat /\ pos < b.char_size
    BY <2>1
  <2> QED
    BY <1>1, <1>2, <2>2
<1>4. PICK j \in 1 .. Held(b) :
        /\ InEntry(b, j, pos)
        /\ FindEntryOffsetForFpos(b, pos) = [entry |-> Contents(b)[j], offset |-> pos - CountBefore(b)[j-1]]
  BY <1>3, FindsEntry
<1>5. j = k + 1
  BY <1>3, <1>4, InOneEntry
<1>6. pos - CountBefore(b)[j-1] = off
  <2>1. k \in 0 .. Held(b) /\ j - 1 = k
    BY <1>1, <1>5, TotalsType
  <2>2. CountBefore(b)[k] \in Nat
    BY <2>1, TotalsType
  <2> QED
    BY <1>1, <1>2, <2>1, <2>2
<1> QED
  BY <1>1, <1>2, <1>4, <1>5, <1>6
=============================================================================
