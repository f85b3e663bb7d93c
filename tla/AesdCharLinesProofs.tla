------------------------ MODULE AesdCharLinesProofs ------------------------
(***************************************************************************)
(* The driver implements LineDevice: for any number of processes, files,   *)
(* addresses and requests its reads and writes are linearizable.           *)
(***************************************************************************)
EXTENDS AesdCharLines, AesdCharProofs

Byte    == Bytes \cup {UNINIT}
Devices == Seq(Memory) \X Memory

-----------------------------------------------------------------------------
(* Recursive functions.  The library cannot show that their equations have   *)
(* solutions; a least counterexample does.                                   *)

\* f follows the functions step[1], ..., step[n] from x.
Follows(f, x, step, n, X) ==
  /\ f \in [0 .. n -> X] /\ f[0] = x
  /\ \A i \in 1 .. n : f[i] = step[i][f[i-1]]

LEMMA FollowerExists ==
  ASSUME NEW X, NEW x \in X, NEW n \in Nat, NEW step \in [1 .. n -> [X -> X]]
  PROVE  \E f : Follows(f, x, step, n, X)
<1> DEFINE S == {m \in 0 .. n : ~ \E f : Follows(f, x, step, m, X)}
<1>1. SUFFICES ASSUME S # {} PROVE FALSE
  OBVIOUS
<1>2. PICK m \in S : \A i \in S : m <= i
  <2>1. S \in SUBSET Nat
    OBVIOUS
  <2> HIDE DEF S
  <2> QED
    BY <1>1, <2>1, LeastExists
<1>3. m \in 0 .. n /\ ~ \E f : Follows(f, x, step, m, X)
  OBVIOUS
<1>4. m # 0
  <2>1. Follows([i \in 0 .. 0 |-> x], x, step, 0, X)
    BY DEF Follows
  <2> QED
    BY <1>3, <2>1
<1>5. m - 1 \in 0 .. n /\ m - 1 \notin S
  <2> HIDE DEF S
  <2> QED
    BY <1>2, <1>3, <1>4
<1>6. PICK f : Follows(f, x, step, m - 1, X)
  BY <1>5
<1>7. PICK y \in X : y = step[m][f[m-1]]
  <2>1. f[m-1] \in X /\ m \in 1 .. n
    BY <1>3, <1>4, <1>6 DEF Follows
  <2> QED
    BY <2>1
<1>8. PICK g : g = [i \in 0 .. m |-> IF i = m THEN y ELSE f[i]]
  OBVIOUS
<1>9. g \in [0 .. m -> X] /\ g[0] = x /\ g[m] = y /\ \A i \in 0 .. m - 1 : g[i] = f[i]
  <2>1. \A i \in 0 .. m : i = m \/ i \in 0 .. m - 1
    BY <1>3
  <2>2. \A i \in 0 .. m - 1 : i \in 0 .. m /\ i # m /\ f[i] \in X
    BY <1>3, <1>6 DEF Follows
  <2>3. m \in 0 .. m /\ 0 \in 0 .. m /\ 0 \in 0 .. m - 1 /\ 0 # m
    BY <1>3, <1>4
  <2> QED
    BY <1>6, <1>8, <2>1, <2>2, <2>3 DEF Follows
<1>10. ASSUME NEW i \in 1 .. m PROVE g[i] = step[i][g[i-1]]
  <2>1. i - 1 \in 0 .. m - 1
    BY <1>3
  <2>2. CASE i = m
    BY <1>7, <1>9, <2>1, <2>2
  <2>3. CASE i # m
    <3>1. i \in 1 .. m - 1 /\ i \in 0 .. m - 1
      BY <1>3, <2>3
    <3> QED
      BY <1>6, <1>9, <2>1, <3>1 DEF Follows
  <2> QED
    BY <2>2, <2>3
<1>11. Follows(g, x, step, m, X)
  BY <1>9, <1>10 DEF Follows
<1> QED
  BY <1>3, <1>11

-----------------------------------------------------------------------------
(* What a device takes.                                                      *)

\* t are the devices while d takes the first n bytes of s.
Takes(t, d, s, n) ==
  /\ t \in [0 .. n -> Devices] /\ t[0] = d
  /\ \A i \in 1 .. n : t[i] = LD!TakeByte(t[i-1], s[i])

LEMMA TakeByteType ==
  ASSUME NEW d \in Devices, NEW b \in Byte
  PROVE  LD!TakeByte(d, b) \in Devices
<1>1. PICK l \in Seq(Memory), q \in Memory : l = d[1] /\ q = d[2]
  BY DEF Devices
<1>2. Append(q, b) \in Memory /\ <<>> \in Memory
  BY AppendProperties DEF Memory, Byte
<1>3. PICK kept \in Seq(Memory) : kept = IF Len(l) = MAX THEN Tail(l) ELSE l
  <2>1. CASE Len(l) = MAX
    <3>1. l # <<>>
      BY <2>1, MaxAssumption
    <3> QED
      BY <2>1, <3>1, HeadTailProperties
  <2> QED
    BY <2>1
<1>4. Append(kept, Append(q, b)) \in Seq(Memory)
  BY <1>2, <1>3, AppendProperties
<1>5. LD!TakeByte(d, b) = IF b = NL THEN <<Append(kept, Append(q, b)), <<>>>> ELSE <<l, Append(q, b)>>
  BY <1>1, <1>3 DEF LD!TakeByte
<1>6. CASE b = NL
  <2>1. PICK e \in Seq(Memory), r \in Memory : e = Append(kept, Append(q, b)) /\ r = <<>>
    BY <1>2, <1>4
  <2>2. LD!TakeByte(d, b) = <<e, r>>
    BY <1>5, <1>6, <2>1
  <2> QED
    BY <2>2 DEF Devices
<1>7. CASE b # NL
  <2>1. PICK r \in Memory : r = Append(q, b)
    BY <1>2
  <2>2. LD!TakeByte(d, b) = <<l, r>>
    BY <1>5, <1>7, <2>1
  <2> QED
    BY <2>2 DEF Devices
<1> QED
  BY <1>6, <1>7

LEMMA TakeIs ==
  ASSUME NEW d \in Devices, NEW s \in Memory, NEW n \in Nat, n = Len(s)
  PROVE  \E t : Takes(t, d, s, n) /\ LD!Take(d, s) = t[n]
<1> DEFINE Solves(f) == f = [i \in 0 .. n |-> IF i = 0 THEN d ELSE LD!TakeByte(f[i-1], s[i])]
<1>1. \A i \in 1 .. n : s[i] \in Byte
  BY ElementOfSeq DEF Memory, Byte
<1>2. PICK step \in [1 .. n -> [Devices -> Devices]] :
        \A i \in 1 .. n : \A x \in Devices : step[i][x] = LD!TakeByte(x, s[i])
  <2>1. \A i \in 1 .. n : \A x \in Devices : LD!TakeByte(x, s[i]) \in Devices
    BY <1>1, TakeByteType
  <2>2. PICK step : step = [i \in 1 .. n |-> [x \in Devices |-> LD!TakeByte(x, s[i])]]
    OBVIOUS
  <2> QED
    BY <2>1, <2>2
<1>3. PICK f : Follows(f, d, step, n, Devices)
  BY FollowerExists
<1>4. ASSUME NEW i \in 1 .. n PROVE f[i] = LD!TakeByte(f[i-1], s[i])
  <2>1. f[i-1] \in Devices
    BY <1>3 DEF Follows
  <2> QED
    BY <1>2, <1>3, <2>1 DEF Follows
<1>5. Solves(f)
  <2>1. f = [i \in 0 .. n |-> f[i]] /\ f[0] = d
    BY <1>3 DEF Follows
  <2>2. \A i \in 0 .. n : i = 0 \/ i \in 1 .. n
    OBVIOUS
  <2> QED
    BY <1>4, <2>1, <2>2
<1>6. PICK g : g = CHOOSE h : Solves(h)
  OBVIOUS
<1>7. Solves(g)
  <2> HIDE DEF Solves
  <2> QED
    BY <1>5, <1>6
<1>8. LD!Take(d, s) = g[n]
  BY <1>6 DEF LD!Take
<1>9. \A i \in 0 .. n : g[i] = f[i]
  <2> DEFINE S == {i \in 0 .. n : g[i] # f[i]}
  <2>1. SUFFICES ASSUME S # {} PROVE FALSE
    OBVIOUS
  <2>2. S \in SUBSET Nat
    OBVIOUS
  <2>3. PICK m \in S : \A i \in S : m <= i
    BY <2>1, <2>2, LeastExists
  <2>4. m \in 0 .. n /\ m # 0
    BY <1>3, <1>7, <2>3 DEF Follows
  <2>5. m - 1 \in 0 .. n /\ m - 1 \notin S /\ m \in 1 .. n
    BY <2>3, <2>4
  <2>6. g[m] = LD!TakeByte(g[m-1], s[m])
    BY <1>7, <2>4
  <2> QED
    BY <1>4, <2>3, <2>5, <2>6
<1>10. Takes(f, d, s, n)
  BY <1>3, <1>4 DEF Takes, Follows
<1> QED
  BY <1>8, <1>9, <1>10

LEMMA PrefixIs ==
  ASSUME NEW s \in Memory, NEW n \in Nat, n <= Len(s)
  PROVE  \E r \in Memory : r = SubSeq(s, 1, n) /\ Len(r) = n /\ \A i \in 1 .. n : r[i] = s[i]
<1>1. Len(s) \in Nat /\ \A i \in 1 .. n : i \in 1 .. Len(s)
  BY LenProperties DEF Memory
<1>2. \A i \in 1 .. n : s[i] \in Byte
  BY <1>1, ElementOfSeq DEF Memory, Byte
<1>3. /\ SubSeq(s, 1, n) \in Seq(Byte)
      /\ Len(SubSeq(s, 1, n)) = IF 1 <= n THEN n - 1 + 1 ELSE 0
      /\ \A i \in 1 .. n - 1 + 1 : SubSeq(s, 1, n)[i] = s[1 + i - 1]
  BY <1>2, SubSeqProperties
<1>4. n - 1 + 1 = n /\ (n = 0 \/ 1 <= n) /\ \A i \in 1 .. n : 1 + i - 1 = i
  OBVIOUS
<1> QED
  BY <1>3, <1>4 DEF Memory, Byte

\* What a device has taken depends on the bytes only.
Agree(s, r, n) == \A i \in 1 .. n : s[i] = r[i]

LEMMA TakesSame ==
  ASSUME NEW d \in Devices, NEW s, NEW r, NEW n \in Nat, NEW m \in Nat, n <= m,
         NEW t, NEW u, Takes(t, d, s, n), Takes(u, d, r, m), Agree(s, r, n)
  PROVE  t[n] = u[n]
<1> DEFINE S == {i \in 0 .. n : t[i] # u[i]}
<1>1. SUFFICES ASSUME S # {} PROVE FALSE
  OBVIOUS
<1>2. S \in SUBSET Nat
  OBVIOUS
<1>3. PICK k \in S : \A i \in S : k <= i
  BY <1>1, <1>2, LeastExists
<1>4. k \in 0 .. n /\ k # 0
  BY <1>3 DEF Takes
<1>5. k - 1 \in 0 .. n /\ k - 1 \notin S /\ k \in 1 .. n /\ k \in 1 .. m
  BY <1>3, <1>4
<1>6. t[k] = LD!TakeByte(t[k-1], s[k]) /\ u[k] = LD!TakeByte(u[k-1], r[k])
  BY <1>5 DEF Takes
<1>7. s[k] = r[k] /\ t[k-1] = u[k-1]
  BY <1>5 DEF Agree
<1> QED
  BY <1>3, <1>6, <1>7

LEMMA TakeNone ==
  ASSUME NEW d \in Devices, NEW data \in Memory
  PROVE  LD!Take(d, SubSeq(data, 1, 0)) = d
<1>1. 0 <= Len(data) /\ 0 \in Nat
  BY LenProperties DEF Memory
<1>2. PICK s \in Memory : s = SubSeq(data, 1, 0) /\ Len(s) = 0
  BY <1>1, PrefixIs
<1>3. PICK t : Takes(t, d, s, 0) /\ LD!Take(d, s) = t[0]
  BY <1>2, TakeIs
<1> QED
  BY <1>2, <1>3 DEF Takes

LEMMA TakeMore ==
  ASSUME NEW d \in Devices, NEW data \in Memory, NEW n \in Nat, n + 1 <= Len(data)
  PROVE  /\ LD!Take(d, SubSeq(data, 1, n)) \in Devices
         /\ LD!Take(d, SubSeq(data, 1, n + 1)) = LD!TakeByte(LD!Take(d, SubSeq(data, 1, n)), data[n + 1])
<1>0. PICK len \in Nat : len = Len(data)
  BY LenProperties DEF Memory
<1>1. PICK m \in Nat : m = n + 1 /\ n <= len /\ m <= len /\ n <= m /\ m \in 1 .. m /\ n \in 0 .. n
                      /\ m - 1 = n /\ \A i \in 1 .. n : i \in 1 .. m
  <2>1. n + 1 \in Nat /\ n + 1 <= len
    BY <1>0
  <2> QED
    BY <2>1
<1>2. n <= Len(data) /\ m <= Len(data)
  BY <1>0, <1>1
<1>3. PICK s \in Memory : s = SubSeq(data, 1, n) /\ Len(s) = n /\ \A i \in 1 .. n : s[i] = data[i]
  BY <1>2, PrefixIs
<1>4. PICK r \in Memory : r = SubSeq(data, 1, m) /\ Len(r) = m /\ \A i \in 1 .. m : r[i] = data[i]
  BY <1>2, PrefixIs
<1>5. PICK t : Takes(t, d, s, n) /\ LD!Take(d, s) = t[n]
  BY <1>3, TakeIs
<1>6. PICK u : Takes(u, d, r, m) /\ LD!Take(d, r) = u[m]
  BY <1>4, TakeIs
<1>7. Agree(s, r, n)
  BY <1>1, <1>3, <1>4 DEF Agree
<1>8. t[n] = u[n]
  <2>1. n <= m /\ Takes(t, d, s, n) /\ Takes(u, d, r, m)
    BY <1>1, <1>5, <1>6
  <2> QED
    BY <1>7, <2>1, TakesSame
<1>9. u[m] = LD!TakeByte(u[n], r[m])
  BY <1>1, <1>6 DEF Takes
<1>10. r[m] = data[m] /\ t[n] \in Devices
  BY <1>1, <1>4, <1>5 DEF Takes
<1> QED
  BY <1>1, <1>3, <1>4, <1>5, <1>6, <1>8, <1>9, <1>10

-----------------------------------------------------------------------------
(* The lines one behind the other.                                           *)

\* t are the first lines of seqs, one behind the other.
Flattens(t, seqs, n) ==
  /\ t \in [0 .. n -> Memory] /\ t[0] = <<>>
  /\ \A i \in 1 .. n : t[i] = t[i-1] \o seqs[i]

LEMMA FlattenIs ==
  ASSUME NEW seqs \in Seq(Memory), NEW n \in Nat, n = Len(seqs)
  PROVE  \E t : Flattens(t, seqs, n) /\ LD!FlattenSeq(seqs) = t[n]
<1> DEFINE Solves(f) == f = [i \in 1 .. n |-> IF i = 1 THEN seqs[i] ELSE f[i-1] \o seqs[i]]
<1>1. \A i \in 1 .. n : seqs[i] \in Memory
  BY ElementOfSeq
<1>2. PICK step \in [1 .. n -> [Memory -> Memory]] :
        \A i \in 1 .. n : \A x \in Memory : step[i][x] = x \o seqs[i]
  <2>1. ASSUME NEW i \in 1 .. n, NEW x \in Memory PROVE x \o seqs[i] \in Memory
    <3>1. PICK y \in Seq(Byte), z \in Seq(Byte) : x = y /\ seqs[i] = z
      BY <1>1 DEF Memory, Byte
    <3>2. y \o z \in Seq(Byte)
      BY ConcatProperties
    <3> QED
      BY <3>1, <3>2 DEF Memory, Byte
  <2>2. PICK step : step = [i \in 1 .. n |-> [x \in Memory |-> x \o seqs[i]]]
    OBVIOUS
  <2>3. \A i \in 1 .. n : [x \in Memory |-> x \o seqs[i]] \in [Memory -> Memory]
    BY <2>1
  <2>4. step \in [1 .. n -> [Memory -> Memory]]
    BY <2>2, <2>3
  <2>5. ASSUME NEW i \in 1 .. n, NEW x \in Memory PROVE step[i][x] = x \o seqs[i]
    BY <2>2
  <2> QED
    BY <2>4, <2>5
<1>z. <<>> \in Memory
  BY DEF Memory
<1>3. PICK f : Follows(f, <<>>, step, n, Memory)
  BY <1>z, FollowerExists
<1>4. ASSUME NEW i \in 1 .. n PROVE f[i] = f[i-1] \o seqs[i]
  <2>1. f[i-1] \in Memory
    BY <1>3 DEF Follows
  <2> QED
    BY <1>2, <1>3, <2>1 DEF Follows
<1>5. Flattens(f, seqs, n)
  BY <1>3, <1>4 DEF Flattens, Follows
<1>6. CASE n = 0
  <2>0. Len(seqs) = 0
    BY <1>6
  <2>1. seqs = <<>>
    BY <2>0, EmptySeq
  <2>2. LD!FlattenSeq(seqs) = seqs
    BY <2>0, Zenon DEF LD!FlattenSeq
  <2> QED
    BY <1>5, <1>6, <2>1, <2>2 DEF Flattens
<1>7. CASE n # 0
  <2>1. PICK g : g = [i \in 1 .. n |-> f[i]]
    OBVIOUS
  <2>2. Solves(g)
    <3>1. ASSUME NEW i \in 1 .. n, i # 1 PROVE f[i] = g[i-1] \o seqs[i]
      <4>1. i - 1 \in 1 .. n
        BY <3>1
      <4> QED
        BY <1>4, <2>1, <4>1
    <3>2. f[1] = seqs[1]
      <4>1. 1 \in 1 .. n /\ 1 - 1 = 0
        BY <1>7
      <4>2. f[1] = <<>> \o seqs[1]
        BY <1>3, <1>4, <4>1 DEF Follows
      <4> QED
        <5>1. PICK y \in Seq(Byte) : seqs[1] = y
          BY <1>1, <4>1 DEF Memory, Byte
        <5>2. <<>> \o y = y
          BY ConcatEmptySeq
        <5> QED
          BY <4>2, <5>1, <5>2
    <3> QED
      BY <2>1, <3>1, <3>2
  <2>3. PICK h : h = CHOOSE k : Solves(k)
    OBVIOUS
  <2>4. Solves(h)
    <3> HIDE DEF Solves
    <3> QED
      BY <2>2, <2>3
  <2>5. LD!FlattenSeq(seqs) = h[n]
    BY <1>7, <2>3 DEF LD!FlattenSeq
  <2>6. \A i \in 1 .. n : h[i] = g[i]
    <3> DEFINE S == {i \in 1 .. n : h[i] # g[i]}
    <3>1. SUFFICES ASSUME S # {} PROVE FALSE
      OBVIOUS
    <3>2. S \in SUBSET Nat
      OBVIOUS
    <3>3. PICK m \in S : \A i \in S : m <= i
      BY <3>1, <3>2, LeastExists
    <3>4. m \in 1 .. n /\ m # 1
      BY <2>2, <2>4, <3>3
    <3>5. m - 1 \in 1 .. n /\ m - 1 \notin S
      BY <3>3, <3>4
    <3>6. h[m] = h[m-1] \o seqs[m] /\ g[m] = g[m-1] \o seqs[m]
      BY <2>2, <2>4, <3>4
    <3> QED
      BY <3>3, <3>5, <3>6
  <2>7. n \in 1 .. n
    BY <1>7
  <2>8. g[n] = f[n]
    BY <2>1, <2>7
  <2> QED
    BY <1>5, <2>5, <2>6, <2>7, <2>8
<1> QED
  BY <1>6, <1>7

\* line stands in all behind the first off bytes.
Inside(all, off, line) ==
  /\ off + Len(line) <= Len(all)
  /\ \A j \in 1 .. Len(line) : all[off + j] = line[j]

LEMMA ConcatInside ==
  ASSUME NEW a \in Memory, NEW b \in Memory
  PROVE  /\ a \o b \in Memory /\ Len(a \o b) = Len(a) + Len(b)
         /\ Inside(a \o b, Len(a), b)
         /\ \A off \in Nat, line \in Memory : Inside(a, off, line) => Inside(a \o b, off, line)
<1>1. PICK m \in Nat, n \in Nat : m = Len(a) /\ n = Len(b)
  BY LenProperties DEF Memory
<1>2. PICK x \in Seq(Byte), y \in Seq(Byte) : x = a /\ y = b
  BY DEF Memory, Byte
<1>3. PICK c \in Seq(Byte) : /\ c = a \o b /\ Len(c) = m + n
                             /\ \A i \in 1 .. m + n : c[i] = IF i <= m THEN a[i] ELSE b[i - m]
  <2>1. /\ x \o y \in Seq(Byte) /\ Len(x \o y) = Len(x) + Len(y)
        /\ \A i \in 1 .. Len(x) + Len(y) : (x \o y)[i] = IF i <= Len(x) THEN x[i] ELSE y[i - Len(x)]
    BY ConcatProperties
  <2> QED
    BY <1>1, <1>2, <2>1
<1>4. ASSUME NEW j \in 1 .. n PROVE c[m + j] = b[j]
  <2>1. m + j \in 1 .. m + n /\ ~(m + j <= m) /\ (m + j) - m = j
    OBVIOUS
  <2> QED
    BY <1>3, <2>1
<1>5. ASSUME NEW off \in Nat, NEW line \in Memory, Inside(a, off, line) PROVE Inside(c, off, line)
  <2>1. PICK l \in Nat : l = Len(line)
    BY LenProperties DEF Memory
  <2>2. off + l <= m /\ \A j \in 1 .. l : a[off + j] = line[j]
    BY <1>1, <1>5, <2>1 DEF Inside
  <2>3. off + l <= m + n
    BY <2>2
  <2>4. ASSUME NEW j \in 1 .. l PROVE c[off + j] = line[j]
    <3>1. off + j \in 1 .. m + n /\ off + j <= m
      BY <2>2
    <3> QED
      BY <1>3, <2>2, <3>1
  <2> QED
    BY <1>3, <2>1, <2>3, <2>4 DEF Inside
<1>6. Inside(c, m, b)
  BY <1>1, <1>3, <1>4 DEF Inside
<1>7. c \in Memory
  BY DEF Memory, Byte
<1> QED
  BY <1>1, <1>3, <1>5, <1>6, <1>7

\* total are the lengths of the first lines of seqs together.
Positions(total, seqs, n) ==
  /\ total \in [0 .. n -> Nat] /\ total[0] = 0
  /\ \A k \in 1 .. n : total[k] = total[k-1] + Len(seqs[k])

LEMMA FlattenBytes ==
  ASSUME NEW seqs \in Seq(Memory), NEW n \in Nat, n = Len(seqs), NEW total, Positions(total, seqs, n)
  PROVE  \E all \in Memory : /\ all = LD!FlattenSeq(seqs) /\ Len(all) = total[n]
                             /\ \A k \in 1 .. n : Inside(all, total[k-1], seqs[k])
<1>1. PICK t : Flattens(t, seqs, n) /\ LD!FlattenSeq(seqs) = t[n]
  BY FlattenIs
<1>2. \A i \in 1 .. n : seqs[i] \in Memory
  BY ElementOfSeq
<1>3. \A i \in 0 .. n : t[i] \in Memory /\ total[i] \in Nat
  BY <1>1 DEF Flattens, Positions
<1>4. \A i \in 0 .. n : Len(t[i]) = total[i]
  <2> DEFINE S == {i \in 0 .. n : Len(t[i]) # total[i]}
  <2>1. SUFFICES ASSUME S # {} PROVE FALSE
    OBVIOUS
  <2>2. S \in SUBSET Nat
    OBVIOUS
  <2>3. PICK m \in S : \A i \in S : m <= i
    BY <2>1, <2>2, LeastExists
  <2>4. m \in 0 .. n /\ m # 0
    <3>1. Len(t[0]) = total[0]
      BY <1>1 DEF Flattens, Positions
    <3> QED
      BY <2>3, <3>1
  <2>5. m - 1 \in 0 .. n /\ m - 1 \notin S /\ m \in 1 .. n
    BY <2>3, <2>4
  <2>6. PICK a \in Memory, b \in Memory : a = t[m-1] /\ b = seqs[m] /\ t[m] = a \o b
    BY <1>1, <1>2, <1>3, <2>5 DEF Flattens
  <2>7. Len(t[m]) = Len(a) + Len(b)
    BY <2>6, ConcatInside
  <2>8. total[m] = total[m-1] + Len(b)
    BY <2>5, <2>6 DEF Positions
  <2>9. Len(a) = total[m-1]
    BY <2>5, <2>6
  <2> QED
    BY <2>3, <2>7, <2>8, <2>9
<1>5. ASSUME NEW k \in 1 .. n PROVE Inside(t[n], total[k-1], seqs[k])
  <2>1. PICK off \in Nat, line \in Memory : off = total[k-1] /\ line = seqs[k] /\ off = Len(t[k-1])
    <3>1. k - 1 \in 0 .. n
      OBVIOUS
    <3> QED
      BY <1>2, <1>3, <1>4, <3>1
  <2> DEFINE S == {i \in k .. n : ~Inside(t[i], off, line)}
  <2>2. S = {}
    <3>1. SUFFICES ASSUME S # {} PROVE FALSE
      OBVIOUS
    <3>2. S \in SUBSET Nat
      OBVIOUS
    <3>3. PICK m \in S : \A i \in S : m <= i
      BY <3>1, <3>2, LeastExists
    <3>4. m \in 1 .. n /\ m - 1 \in 0 .. n /\ m \in k .. n
      OBVIOUS
    <3>5. PICK a \in Memory, b \in Memory : a = t[m-1] /\ b = seqs[m] /\ t[m] = a \o b
      BY <1>1, <1>2, <1>3, <3>4 DEF Flattens
    <3>6. CASE m = k
      <4>1. b = line /\ off = Len(a)
        BY <2>1, <3>5, <3>6
      <4>2. Inside(a \o b, Len(a), b)
        BY ConcatInside
      <4> QED
        BY <3>3, <3>5, <4>1, <4>2
    <3>7. CASE m # k
      <4>1. m - 1 \in k .. n /\ m - 1 \notin S
        BY <3>3, <3>4, <3>7
      <4>2. Inside(a, off, line)
        BY <3>5, <4>1
      <4>3. Inside(a \o b, off, line)
        BY <4>2, ConcatInside
      <4> QED
        BY <3>3, <3>5, <4>3
    <3> QED
      BY <3>6, <3>7
  <2>3. n \in k .. n
    OBVIOUS
  <2> QED
    BY <2>1, <2>2, <2>3
<1>6. n \in 0 .. n
  OBVIOUS
<1> QED
  BY <1>1, <1>3, <1>4, <1>5, <1>6

\* The c bytes behind the first o.
Part(bytes, o, c) == SubSeq(bytes, o + 1, o + c)

\* What is copied out of a line is a part of all lines.
LEMMA CopyInside ==
  ASSUME NEW all \in Memory, NEW off \in Nat, NEW line \in Memory, Inside(all, off, line),
         NEW o \in Nat, NEW c \in Nat, o + c <= Len(line)
  PROVE  Part(line, o, c) = Part(all, off + o, c)
<1>1. PICK l \in Nat, size \in Nat : l = Len(line) /\ size = Len(all)
  BY LenProperties DEF Memory
<1>2. o + c <= l /\ off + l <= size
  BY <1>1 DEF Inside
<1>3. \A i \in o + 1 .. o + c : line[i] \in Byte
  <2>1. \A i \in o + 1 .. o + c : i \in 1 .. Len(line)
    BY <1>1, <1>2
  <2> QED
    BY <2>1, ElementOfSeq DEF Memory, Byte
<1>4. \A i \in (off + o) + 1 .. (off + o) + c : all[i] \in Byte
  <2>1. \A i \in (off + o) + 1 .. (off + o) + c : i \in 1 .. Len(all)
    BY <1>1, <1>2
  <2> QED
    BY <2>1, ElementOfSeq DEF Memory, Byte
<1>5. PICK m \in Int, n \in Int, m2 \in Int, n2 \in Int :
        /\ m = o + 1 /\ n = o + c /\ m2 = (off + o) + 1 /\ n2 = (off + o) + c
        /\ n - m + 1 = c /\ n2 - m2 + 1 = c
        /\ (m <= n <=> c > 0) /\ (m2 <= n2 <=> c > 0)
        /\ \A i \in 1 .. c : m2 + i - 1 = off + (m + i - 1) /\ m + i - 1 \in 1 .. l
  BY <1>2
<1>6. PICK s \in Seq(Byte) : s = SubSeq(line, m, n) /\ Len(s) = c /\ \A i \in 1 .. c : s[i] = line[m + i - 1]
  <2>1. /\ SubSeq(line, m, n) \in Seq(Byte)
        /\ Len(SubSeq(line, m, n)) = IF m <= n THEN n - m + 1 ELSE 0
        /\ \A i \in 1 .. n - m + 1 : SubSeq(line, m, n)[i] = line[m + i - 1]
    BY <1>3, <1>5, SubSeqProperties
  <2>2. PICK t \in Seq(Byte) : t = SubSeq(line, m, n)
    BY <2>1
  <2>3. Len(t) = IF m <= n THEN n - m + 1 ELSE 0
    BY <2>1, <2>2
  <2>4. Len(t) = c
    <3>1. CASE c > 0
      BY <1>5, <2>3, <3>1
    <3>2. CASE c = 0
      BY <1>5, <2>3, <3>2
    <3> QED
      BY <3>1, <3>2
  <2>5. \A i \in 1 .. c : t[i] = line[m + i - 1]
    BY <1>5, <2>1, <2>2
  <2> QED
    BY <2>2, <2>4, <2>5
<1>7. PICK r \in Seq(Byte) : r = SubSeq(all, m2, n2) /\ Len(r) = c /\ \A i \in 1 .. c : r[i] = all[m2 + i - 1]
  <2>1. /\ SubSeq(all, m2, n2) \in Seq(Byte)
        /\ Len(SubSeq(all, m2, n2)) = IF m2 <= n2 THEN n2 - m2 + 1 ELSE 0
        /\ \A i \in 1 .. n2 - m2 + 1 : SubSeq(all, m2, n2)[i] = all[m2 + i - 1]
    BY <1>4, <1>5, SubSeqProperties
  <2>2. PICK t \in Seq(Byte) : t = SubSeq(all, m2, n2)
    BY <2>1
  <2>3. Len(t) = IF m2 <= n2 THEN n2 - m2 + 1 ELSE 0
    BY <2>1, <2>2
  <2>4. Len(t) = c
    <3>1. CASE c > 0
      BY <1>5, <2>3, <3>1
    <3>2. CASE c = 0
      BY <1>5, <2>3, <3>2
    <3> QED
      BY <3>1, <3>2
  <2>5. \A i \in 1 .. c : t[i] = all[m2 + i - 1]
    BY <1>5, <2>1, <2>2
  <2> QED
    BY <2>2, <2>4, <2>5
<1>8. ASSUME NEW i \in 1 .. c PROVE s[i] = r[i]
  <2>1. PICK j \in 1 .. l : j = m + i - 1 /\ m2 + i - 1 = off + j
    BY <1>5
  <2>2. all[off + j] = line[j]
    BY <1>1, <2>1 DEF Inside
  <2> QED
    BY <1>6, <1>7, <2>1, <2>2
<1>9. s = r
  BY <1>6, <1>7, <1>8, SeqEqual
<1> QED
  BY <1>5, <1>6, <1>7, <1>9 DEF Part

-----------------------------------------------------------------------------
(* The lines and the unfinished line, as a step of the driver changes them.  *)

Partial == IF line_len > 0 THEN SubSeq(heap[line_buf], 1, line_len) ELSE <<>>

\* In the invariant an unfinished line has its bytes.
LineInv == CharInv /\ BytesInv(Bytes)

LEMMA LineHas ==
  ASSUME LineInv, loaded
  PROVE  /\ line_len \in Nat /\ heap \in [Ptrs -> Memory]
         /\ line_len > 0 => line_buf \in Ptrs /\ heap[line_buf] \in Memory /\ line_len <= Len(heap[line_buf])
<1>1. MemInv
  BY DEF LineInv, CharInv
<1>2. line_len \in Nat /\ heap \in [Ptrs -> Memory]
  BY <1>1 DEF MemInv, Stores
<1>3. ASSUME line_len > 0 PROVE line_buf \in Ptrs /\ line_len <= Len(heap[line_buf])
  <2>1. line_buf # NULL /\ line_buf \in Ptrs
    BY <1>1, <1>3 DEF LineInv, BytesInv, MemInv
  <2>2. Len(heap[line_buf]) >= line_len
    BY <1>1, <1>3, <2>1 DEF MemInv
  <2>3. heap[line_buf] \in Memory
    BY <1>2, <2>1
  <2>4. PICK len \in Nat, n \in Nat : len = line_len /\ n = Len(heap[line_buf])
    BY <1>2, <2>3, LenProperties DEF Memory
  <2>5. len <= n
    BY <2>2, <2>4
  <2> QED
    BY <2>1, <2>4, <2>5
<1> QED
  BY <1>2, <1>3

LEMMA LinesType ==
  ASSUME NEW b, BufferType(b, Entries), Ring(b, Entries), NEW h \in [Ptrs -> Memory],
         NEW l, l = [k \in 1 .. Held(b) |-> h[Contents(b)[k].buffptr]]
  PROVE  l \in Seq(Memory) /\ Len(l) = Held(b) /\ Held(b) \in Nat
<1>1. PICK n \in Nat, c \in Seq(Entries) : n = Held(b) /\ c = Contents(b) /\ Len(c) = n
  BY ContentsSlot
<1>2. ASSUME NEW k \in 1 .. n PROVE h[c[k].buffptr] \in Memory
  <2>1. c[k] \in Entries
    BY <1>1, ElementOfSeq
  <2>2. c[k].buffptr \in Ptrs
    BY <2>1 DEF Entries
  <2> QED
    BY <2>2
<1>3. l = [k \in 1 .. n |-> h[c[k].buffptr]]
  BY <1>1
<1>4. l \in Seq(Memory) /\ Len(l) = n
  <2>1. l \in [1 .. n -> Memory]
    BY <1>2, <1>3
  <2>2. PICK X : X = Memory
    OBVIOUS
  <2>3. \A f \in [1 .. n -> X] : f \in Seq(X) /\ Len(f) = n
    OBVIOUS
  <2> QED
    BY <2>1, <2>2, <2>3
<1> QED
  BY <1>1, <1>4

LEMMA DeviceType ==
  ASSUME LineInv
  PROVE  /\ Device \in Devices
         /\ loaded => Device = <<Lines, Partial>> /\ Partial \in Memory
         /\ ~loaded => Device = <<<<>>, <<>>>>
<1>0. <<>> \in Memory /\ <<>> \in Seq(Memory) /\ loaded \in BOOLEAN
  BY DEF Memory, LineInv, CharInv, CallInv
<1>1. CASE ~loaded
  BY <1>0, <1>1 DEF Device, Devices
<1>2. CASE loaded
  <2>1. /\ line_len \in Nat /\ heap \in [Ptrs -> Memory]
        /\ line_len > 0 => line_buf \in Ptrs /\ heap[line_buf] \in Memory /\ line_len <= Len(heap[line_buf])
    BY <1>2, LineHas
  <2>2. Partial \in Memory
    <3>1. CASE line_len > 0
      <4>1. PICK s \in Memory, n \in Nat : s = heap[line_buf] /\ n = line_len /\ n <= Len(s)
        BY <2>1, <3>1
      <4>2. PICK r \in Memory : r = SubSeq(s, 1, n)
        BY <4>1, PrefixIs
      <4> QED
        BY <3>1, <4>1, <4>2 DEF Partial
    <3>2. CASE ~(line_len > 0)
      BY <1>0, <3>2 DEF Partial
    <3> QED
      BY <3>1, <3>2
  <2>3. Lines \in Seq(Memory)
    BY <2>1, LinesType DEF LineInv, CharInv, BufInv, Lines
  <2>4. Device = <<Lines, Partial>>
    BY <1>2 DEF Device, Partial
  <2> QED
    BY <1>2, <2>2, <2>3, <2>4 DEF Devices
<1> QED
  BY <1>1, <1>2

\* Steps that leave the device's memory alone.
LEMMA DeviceSame ==
  ASSUME UNCHANGED <<loaded, dev, heap>>
  PROVE  Device' = Device
BY DEF Device, dev, Lines

\* Making room for a line leaves the device as it is.
LEMMA RoomKeepsDevice ==
  ASSUME LineInv, NEW p \in Procs, aesd_write(p)
  PROVE  Device' = Device
<1>0. CharInv /\ CallInv /\ BufInv /\ loaded /\ UNCHANGED <<loaded, buf, line_len>>
  BY CallType DEF LineInv, CharInv, At, aesd_write, InHandler
<1>1. Lines' = Lines
  BY <1>0, RoomSame, LinesSame
<1>2. ASSUME line_len > 0
      PROVE  SubSeq(heap'[line_buf'], 1, line_len) = SubSeq(heap[line_buf], 1, line_len)
  <2>1. line_buf # NULL
    BY <1>0, <1>2 DEF LineInv, BytesInv
  <2>2. /\ line_buf \in Ptrs /\ line_buf' \in Ptrs
        /\ line_len <= Len(heap[line_buf]) /\ line_len <= Len(heap'[line_buf'])
        /\ \A i \in 1 .. line_len : heap'[line_buf'][i] = heap[line_buf][i]
    BY <1>0, <1>2, <2>1, RoomKeepsLine
  <2>3. heap \in [Ptrs -> Memory] /\ heap' \in [Ptrs -> Memory] /\ line_len \in Nat
    <3>1. CharInv' /\ MemInv
      BY <1>0, WriteStarts DEF CharInv
    <3>2. MemInv'
      BY <3>1 DEF CharInv
    <3> QED
      BY <1>0, <3>1, <3>2 DEF MemInv, Stores
  <2>4. PICK s \in Memory, r \in Memory, n \in Nat :
          /\ s = heap[line_buf] /\ r = heap'[line_buf'] /\ n = line_len
          /\ n <= Len(s) /\ n <= Len(r) /\ \A i \in 1 .. n : r[i] = s[i]
    BY <2>2, <2>3
  <2>5. PICK s1 \in Memory : s1 = SubSeq(s, 1, n) /\ Len(s1) = n /\ \A i \in 1 .. n : s1[i] = s[i]
    BY <2>4, PrefixIs
  <2>6. PICK r1 \in Memory : r1 = SubSeq(r, 1, n) /\ Len(r1) = n /\ \A i \in 1 .. n : r1[i] = r[i]
    BY <2>4, PrefixIs
  <2>7. s1 = r1
    BY <2>4, <2>5, <2>6, SeqEqual DEF Memory
  <2> QED
    BY <2>4, <2>5, <2>6, <2>7
<1> QED
  BY <1>0, <1>1, <1>2 DEF Device

\* The line with a byte stored behind it.
LEMMA FetchedLine ==
  ASSUME LineInv, NEW p \in Procs, InLoop(p), NEW byte \in Bytes, NEW line, line = Fetched(byte)[line_buf]
  PROVE  SubSeq(line, 1, line_len + 1) = Append(Partial, byte)
<1>0. CharInv /\ CallInv /\ loaded /\ MemInv
  BY OneLoop DEF LineInv, CharInv
<1>1. line_buf \in Ptrs /\ heap \in [Ptrs -> Memory] /\ line_len \in Nat /\ heap[line_buf] \in Memory
  BY <1>0 DEF MemInv, Stores
<1>2. /\ Fetched(byte) \in [Ptrs -> Memory]
      /\ line_len + 1 \in 1 .. Len(heap[line_buf])
      /\ Len(line) = Len(heap[line_buf])
      /\ \A i \in 1 .. Len(heap[line_buf]) : line[i] = IF i = line_len + 1 THEN byte ELSE heap[line_buf][i]
  BY <1>0, FetchedIs
<1>3. PICK s \in Memory, r \in Memory, n \in Nat, size \in Nat :
        s = heap[line_buf] /\ r = line /\ n = line_len /\ size = Len(s) /\ size = Len(r)
  <2>1. PICK s \in Memory, r \in Memory : s = heap[line_buf] /\ r = line
    BY <1>1, <1>2
  <2>2. PICK size \in Nat : size = Len(s)
    BY LenProperties DEF Memory
  <2> QED
    BY <1>1, <1>2, <2>1, <2>2
<1>4. /\ n + 1 \in Nat /\ n + 1 <= size /\ n <= size
      /\ \A i \in 1 .. size : r[i] = IF i = n + 1 THEN byte ELSE s[i]
  <2>1. n + 1 \in 1 .. size
    BY <1>2, <1>3
  <2>2. n + 1 \in Nat /\ n + 1 <= size /\ n <= size
    BY <2>1
  <2> QED
    BY <1>2, <1>3, <2>2
<1>5. PICK q \in Memory : q = Partial /\ Len(q) = n /\ \A i \in 1 .. n : q[i] = s[i]
  <2>1. PICK q \in Memory : q = SubSeq(s, 1, n) /\ Len(q) = n /\ \A i \in 1 .. n : q[i] = s[i]
    BY <1>3, <1>4, PrefixIs
  <2>2. CASE n > 0
    BY <1>3, <2>1, <2>2 DEF Partial
  <2>3. CASE n = 0
    <3>1. <<>> \in Memory /\ Len(<<>>) = 0
      BY DEF Memory
    <3> QED
      BY <1>3, <2>3, <3>1 DEF Partial
  <2> QED
    BY <2>2, <2>3
<1>6. PICK m \in Nat : m = n + 1 /\ m <= Len(r)
  BY <1>3, <1>4
<1>7. PICK t \in Memory : t = SubSeq(r, 1, m) /\ Len(t) = m /\ \A i \in 1 .. m : t[i] = r[i]
  BY <1>6, PrefixIs
<1>8. PICK u \in Memory : /\ u = Append(q, byte) /\ Len(u) = n + 1
                          /\ (\A i \in 1 .. n : u[i] = q[i]) /\ u[n + 1] = byte
  <2>1. PICK x \in Seq(Byte), b \in Byte : x = q /\ b = byte
    BY DEF Memory, Byte
  <2>2. /\ Append(x, b) \in Seq(Byte) /\ Len(Append(x, b)) = Len(x) + 1
        /\ \A i \in 1 .. Len(x) : Append(x, b)[i] = x[i]
        /\ Append(x, b)[Len(x) + 1] = b
    BY AppendProperties
  <2> QED
    BY <1>5, <2>1, <2>2 DEF Memory, Byte
<1>9. ASSUME NEW i \in 1 .. m PROVE t[i] = u[i]
  <2>1. i \in 1 .. size
    BY <1>4, <1>6
  <2>2. CASE i = n + 1
    BY <1>4, <1>7, <1>8, <2>1, <2>2
  <2>3. CASE i # n + 1
    <3>1. i \in 1 .. n
      BY <1>6, <2>3
    <3> QED
      BY <1>4, <1>5, <1>7, <1>8, <2>1, <2>3, <3>1
  <2> QED
    BY <2>2, <2>3
<1>10. t = u
  BY <1>6, <1>7, <1>8, <1>9, SeqEqual DEF Memory
<1> QED
  BY <1>3, <1>5, <1>6, <1>7, <1>8, <1>10

\* The device takes a byte inside a line.
LEMMA ByteTakenByDevice ==
  ASSUME LineInv, NEW p \in Procs, aesd_write_byte(p)
  PROVE  Device' = LD!TakeByte(Device, NextByte(p)) /\ InLoop(p)
<1>0. CharInv /\ CallInv /\ BufInv /\ loaded /\ InLoop(p) /\ NextByte(p) \in Bytes
  BY OneLoop, NextByteType DEF LineInv, CharInv, aesd_write_byte
<1>1. PICK byte \in Bytes : byte = NextByte(p) /\ byte # NL
  BY <1>0 DEF aesd_write_byte
<1>2. heap' = Fetched(byte) /\ line_len' = line_len + 1 /\ UNCHANGED <<loaded, buf, line_buf>>
  BY <1>1 DEF aesd_write_byte
<1>3. Lines' = Lines
  BY <1>0, <1>2, FetchSame, LinesSame
<1>4. line_len' > 0
  <2>1. line_len \in Nat
    BY <1>0 DEF CharInv, MemInv
  <2> QED
    BY <1>2, <2>1
<1>5. PICK line : line = Fetched(byte)[line_buf]
  OBVIOUS
<1>6. SubSeq(line, 1, line_len + 1) = Append(Partial, byte)
  BY <1>0, <1>5, FetchedLine
<1>7. Device' = <<Lines, Append(Partial, byte)>>
  BY <1>0, <1>2, <1>3, <1>4, <1>5, <1>6 DEF Device
<1>8. Device = <<Lines, Partial>>
  BY <1>0, DeviceType
<1> QED
  BY <1>0, <1>1, <1>7, <1>8 DEF LD!TakeByte

\* The lines after the end of a line: the new one is the last of them.
LEMMA LastLine ==
  ASSUME LineInv, NEW p \in Procs, aesd_write_line(p)
  PROVE  Lines'[Held(buf')] = Append(Partial, NL) /\ Held(buf') # 0
<1>0. CharInv /\ CallInv /\ BufInv /\ loaded /\ InLoop(p) /\ NL \in Bytes
  BY OneLoop, ModelValuesAssumption DEF LineInv, CharInv, aesd_write_line
<1>1. PICK h \in [Ptrs -> Memory], q \in Ptrs, line \in Memory, e \in Entries, h2 \in [Ptrs -> Memory],
           left \in Nat :
        Completes(p, h, q, line, e, h2) /\ GoesOn(p, left, h2)
  BY <1>0, LineCompleted
<1>2. PICK b : b = AddEntry(buf, e) /\ b = buf'
  BY <1>1 DEF Completes
<1>3. PICK i \in SizedSlots(b) : i = buf.in_offs /\ b.entry[i] = e
  <2>1. buf.in_offs \in SizedSlots(b)
    BY <1>0, <1>2, AddedSlots
  <2> QED
    BY <1>0, <1>2, <2>1, AddedSlots
<1>4. heap'[e.buffptr] = line
  <2>0. CharInv /\ InLoop(p) /\ b = AddEntry(buf, e) /\ Completes(p, h, q, line, e, h2) /\ GoesOn(p, left, h2)
    BY <1>0, <1>1, <1>2
  <2>1. /\ b = buf'
        /\ i # buf.in_offs => i \in SizedSlots(buf)
        /\ heap'[b.entry[i].buffptr] = IF i = buf.in_offs THEN line ELSE heap[buf.entry[i].buffptr]
    BY <2>0, LineObjects
  <2> QED
    BY <1>3, <2>1
<1>5. PICK n : n = Held(buf)
  OBVIOUS
<1>6. Contents(b)[Held(b)] = e /\ Held(b) \in Nat /\ Held(b) # 0
  <2>1. n \in Nat /\ Contents(b)[Held(b)] = e /\ MovedUp(buf, n, b)
    BY <1>0, <1>2, <1>5, AddedContents
  <2>2. Held(b) = IF n = MAX THEN MAX ELSE n + 1
    BY <2>1 DEF MovedUp
  <2> QED
    BY <2>1, <2>2, MaxAssumption
<1>7. Lines' = [k \in 1 .. Held(b) |-> heap'[Contents(b)[k].buffptr]]
  BY <1>2 DEF Lines
<1>8. Lines'[Held(b)] = line
  <2>1. PICK k \in Nat : k = Held(b) /\ k \in 1 .. k
    BY <1>6
  <2> QED
    BY <1>4, <1>6, <1>7, <2>1
<1>9. line = Append(Partial, NL)
  <2>1. PICK l : l = Fetched(NL)[line_buf]
    OBVIOUS
  <2>2. SubSeq(l, 1, line_len + 1) = Append(Partial, NL)
    BY <1>0, <2>1, FetchedLine
  <2> QED
    BY <1>1, <2>1, <2>2 DEF Completes, EntryCopy
<1> QED
  BY <1>2, <1>6, <1>8, <1>9

\* The device takes the end of a line.
LEMMA LineTakenByDevice ==
  ASSUME LineInv, CharInv', NEW p \in Procs, aesd_write_line(p)
  PROVE  Device' = LD!TakeByte(Device, NL) /\ InLoop(p) /\ NextByte(p) = NL
<1>0. CharInv /\ BufInv /\ BufInv' /\ loaded /\ loaded' /\ InLoop(p) /\ NextByte(p) = NL /\ line_len' = 0
  <2>1. InLoop(p) /\ NextByte(p) = NL /\ line_len' = 0 /\ loaded' = loaded
    BY DEF aesd_write_line
  <2>2. loaded
    BY <2>1, OneLoop DEF LineInv, CharInv
  <2> QED
    BY <2>1, <2>2 DEF LineInv, CharInv
<1>1. heap \in [Ptrs -> Memory] /\ heap' \in [Ptrs -> Memory]
  BY <1>0 DEF CharInv, MemInv, Stores
<1>2. PICK l \in Seq(Memory), n \in Nat : l = Lines /\ n = Held(buf) /\ Len(l) = n
  <2>1. PICK b, h, l : b = buf /\ h = heap /\ l = [k \in 1 .. Held(b) |-> h[Contents(b)[k].buffptr]]
    OBVIOUS
  <2>2. BufferType(b, Entries) /\ Ring(b, Entries) /\ h \in [Ptrs -> Memory]
    BY <1>0, <1>1, <2>1 DEF BufInv
  <2>3. l \in Seq(Memory) /\ Len(l) = Held(b) /\ Held(b) \in Nat
    BY <2>1, <2>2, LinesType
  <2> QED
    BY <2>1, <2>3 DEF Lines
<1>3. PICK m \in Seq(Memory), k \in Nat : m = Lines' /\ k = Held(buf') /\ Len(m) = k
  <2>1. PICK b, h, s : b = buf' /\ h = heap' /\ s = [k \in 1 .. Held(b) |-> h[Contents(b)[k].buffptr]]
    OBVIOUS
  <2>2. BufferType(b, Entries) /\ Ring(b, Entries) /\ h \in [Ptrs -> Memory]
    BY <1>0, <1>1, <2>1 DEF BufInv
  <2>3. s \in Seq(Memory) /\ Len(s) = Held(b) /\ Held(b) \in Nat
    BY <2>1, <2>2, LinesType
  <2> QED
    BY <2>1, <2>3 DEF Lines
<1>4. PICK line \in Memory : line = Append(Partial, NL)
  <2>1. Partial \in Memory /\ NL \in Byte
    BY <1>0, DeviceType, ModelValuesAssumption DEF Byte
  <2> QED
    BY <2>1, AppendProperties DEF Memory, Byte
<1>5. m[k] = line /\ k # 0
  BY <1>3, <1>4, LastLine
<1>6. k = Min({n + 1, MAX}) /\ \A i \in 1 .. k - 1 : m[i] = l[i + n + 1 - k]
  BY <1>0, <1>2, <1>3, LineAppended DEF OneLineMore
<1>7. n <= MAX /\ MAX \in Nat \ {0} /\ k = IF n = MAX THEN MAX ELSE n + 1
  <2>1. n <= MAX /\ MAX \in Nat \ {0}
    BY <1>0, <1>2, EntriesAre, MaxAssumption
  <2>2. PICK S : S = {n + 1, MAX}
    OBVIOUS
  <2>3. S \in SUBSET Nat /\ S # {}
    <3>1. n + 1 \in Nat
      OBVIOUS
    <3> QED
      BY <2>1, <2>2, <3>1
  <2>4. Min(S) \in S /\ \A x \in S : Min(S) <= x
    BY <2>3, MinOfSet
  <2> QED
    BY <1>6, <2>1, <2>2, <2>4
<1>8. PICK kept \in Seq(Memory) : kept = IF Len(l) = MAX THEN Tail(l) ELSE l
  <2>1. CASE n = MAX
    <3>1. l # <<>>
      BY <1>2, <1>7, <2>1
    <3> QED
      BY <1>2, <2>1, <3>1, HeadTailProperties
  <2>2. CASE n # MAX
    BY <1>2, <2>2
  <2> QED
    BY <2>1, <2>2
<1>9. Len(kept) = k - 1 /\ \A i \in 1 .. k - 1 : kept[i] = l[i + n + 1 - k]
  <2>1. CASE n = MAX
    <3>1. l # <<>>
      BY <1>2, <1>7, <2>1
    <3>2. Tail(l) \in Seq(Memory) /\ Len(Tail(l)) = n - 1 /\ \A i \in 1 .. n - 1 : Tail(l)[i] = l[i + 1]
      BY <1>2, <3>1, HeadTailProperties
    <3>3. k = n /\ \A i \in 1 .. n - 1 : i + n + 1 - n = i + 1
      BY <1>7, <2>1
    <3> QED
      BY <1>2, <1>8, <2>1, <3>2, <3>3
  <2>2. CASE n # MAX
    <3>1. k = n + 1 /\ k - 1 = n /\ \A i \in 1 .. n : i + n + 1 - k = i
      BY <1>7, <2>2
    <3> QED
      BY <1>2, <1>8, <2>2, <3>1
  <2> QED
    BY <2>1, <2>2
<1>10. PICK r \in Seq(Memory) : /\ r = Append(kept, line) /\ Len(r) = (k - 1) + 1
                                /\ (\A i \in 1 .. k - 1 : r[i] = kept[i]) /\ r[(k - 1) + 1] = line
  <2>1. /\ Append(kept, line) \in Seq(Memory) /\ Len(Append(kept, line)) = Len(kept) + 1
        /\ \A i \in 1 .. Len(kept) : Append(kept, line)[i] = kept[i]
        /\ Append(kept, line)[Len(kept) + 1] = line
    BY AppendProperties
  <2> QED
    BY <1>9, <2>1
<1>11. m = r
  <2>1. (k - 1) + 1 = k /\ \A i \in 1 .. k : i = k \/ i \in 1 .. k - 1
    BY <1>5
  <2>2. ASSUME NEW i \in 1 .. k PROVE m[i] = r[i]
    <3>1. CASE i = k
      BY <1>5, <1>10, <2>1, <3>1
    <3>2. CASE i \in 1 .. k - 1
      BY <1>6, <1>9, <1>10, <3>2
    <3> QED
      BY <2>1, <3>1, <3>2
  <2> QED
    BY <1>3, <1>10, <2>1, <2>2, SeqEqual
<1>12. Device' = <<m, <<>>>>
  BY <1>0, <1>3 DEF Device
<1>13. Device = <<l, Partial>>
  BY <1>0, <1>2, DeviceType
<1>14. LD!TakeByte(Device, NL) = <<r, <<>>>>
  BY <1>4, <1>8, <1>10, <1>13 DEF LD!TakeByte
<1> QED
  BY <1>0, <1>11, <1>12, <1>14

\* A first allocation that fails, when no line has been started.
LEMMA NoRoomKeepsDevice ==
  ASSUME NEW p \in Procs, aesd_write_no_room(p), "krealloc" \notin FailSites
  PROVE  Device' = Device
<1>1. line_len = 0 /\ line_len' = 0 /\ UNCHANGED <<loaded, buf, heap>>
  BY DEF aesd_write_no_room
<1> QED
  BY <1>1 DEF Device, Lines

\* Loading and unloading leave an empty device.
LEMMA DeviceEmptied ==
  ASSUME aesd_init_module \/ aesd_cleanup_module
  PROVE  Device' = <<<<>>, <<>>>>
<1>1. CASE aesd_init_module
  <2>1. PICK b : b = EmptyBuffer /\ buf' = b
    BY <1>1 DEF aesd_init_module
  <2>2. Held(b) = 0
    BY <2>1 DEF EmptyBuffer, Held
  <2>3. [k \in 1 .. Held(b) |-> heap'[Contents(b)[k].buffptr]] = <<>>
    BY <2>2
  <2>4. Lines' = <<>>
    BY <2>1, <2>3 DEF Lines
  <2>5. line_len' = 0
    BY <1>1 DEF aesd_init_module
  <2> QED
    BY <2>4, <2>5 DEF Device
<1>2. CASE aesd_cleanup_module
  BY <1>2 DEF aesd_cleanup_module, Device
<1> QED
  BY <1>1, <1>2

-----------------------------------------------------------------------------
(* What a read gets.                                                         *)

\* The count of the searches are the places of the stored lines.
LEMMA LinePositions ==
  ASSUME LineInv, loaded
  PROVE  /\ Lines \in Seq(Memory) /\ Held(buf) \in Nat /\ Held(buf) = Len(Lines)
         /\ Positions(CountBefore(buf), Lines, Held(buf))
         /\ CountBefore(buf)[Held(buf)] = buf.char_size
<1>0. BufInv /\ MemInv /\ heap \in [Ptrs -> Memory]
  BY LineHas DEF LineInv, CharInv
<1>1. PICK n \in Nat : n = Held(buf)
  BY <1>0, EntriesAre
<1>2. Lines \in Seq(Memory) /\ n = Len(Lines)
  <2>1. PICK b, h, l : b = buf /\ h = heap /\ l = [k \in 1 .. Held(b) |-> h[Contents(b)[k].buffptr]]
    OBVIOUS
  <2>2. BufferType(b, Entries) /\ Ring(b, Entries) /\ h \in [Ptrs -> Memory]
    BY <1>0, <2>1 DEF BufInv
  <2>3. l \in Seq(Memory) /\ Len(l) = Held(b) /\ Held(b) \in Nat
    BY <2>1, <2>2, LinesType
  <2> QED
    BY <1>1, <2>1, <2>3 DEF Lines
<1>3. PICK t : t = CountBefore(buf) /\ Totals(buf, t)
  BY <1>0, EntriesAre, CountsAreTotals
<1>4. ASSUME NEW k \in 1 .. n PROVE Len(Lines[k]) = Contents(buf)[k].size
  <2>1. PICK i \in SizedSlots(buf) : Contents(buf)[k] = buf.entry[i]
    BY <1>0, <1>1, EntriesAre
  <2>2. Len(heap[buf.entry[i].buffptr]) = buf.entry[i].size
    BY <1>0 DEF MemInv, Stores
  <2>3. Lines[k] = heap[Contents(buf)[k].buffptr]
    BY <1>1 DEF Lines
  <2> QED
    BY <2>1, <2>2, <2>3
<1>5. t \in [0 .. n -> Nat] /\ t[0] = 0 /\ t[n] = buf.char_size
  <2>1. PICK size \in Nat : size = buf.char_size
    BY <1>0, EntriesAre
  <2> QED
    BY <1>1, <1>3, <2>1 DEF Totals
<1>6. \A k \in 1 .. n : t[k] = t[k-1] + Len(Lines[k])
  BY <1>1, <1>3, <1>4 DEF Totals
<1> QED
  BY <1>1, <1>2, <1>3, <1>5, <1>6 DEF Positions

\* What aesd_read finds at the position off, and how many bytes it copies.
Copies(off, count, found, n, copied) ==
  /\ found = FindEntryOffsetForFpos(buf, off)
  /\ n = Min({count, found.entry.size - found.offset})
  /\ copied = SubSeq(heap[found.entry.buffptr], found.offset + 1, found.offset + n)

\* A read finds the byte at its position unless that is at the end of all lines,
\* and copies bytes that follow each other in them.
LEMMA ReadGets ==
  ASSUME LineInv, loaded, NEW off \in Nat, NEW count \in Nat \ {0},
         NEW found, NEW n, NEW copied, Copies(off, count, found, n, copied)
  PROVE  \E all \in Memory :
           /\ all = LD!FlattenSeq(Lines)
           /\ found = NULL <=> off >= Len(all)
           /\ found # NULL => n \in 1 .. count /\ copied = SubSeq(all, off + 1, off + n)
<1>0. BufInv /\ MemInv /\ CharInv /\ heap \in [Ptrs -> Memory]
  BY LineHas DEF LineInv, CharInv
<1>d. /\ found = FindEntryOffsetForFpos(buf, off)
      /\ n = Min({count, found.entry.size - found.offset})
      /\ copied = SubSeq(heap[found.entry.buffptr], found.offset + 1, found.offset + n)
  BY DEF Copies
<1>1. PICK held \in Nat, size \in Nat : held = Held(buf) /\ size = buf.char_size
  BY <1>0, EntriesAre
<1>t. PICK t : t = CountBefore(buf)
  OBVIOUS
<1>2. /\ Lines \in Seq(Memory) /\ held = Len(Lines)
      /\ Positions(t, Lines, held) /\ t[held] = size
  BY <1>1, <1>t, LinePositions
<1>3. PICK all \in Memory : /\ all = LD!FlattenSeq(Lines) /\ Len(all) = size
                            /\ \A k \in 1 .. held : Inside(all, t[k-1], Lines[k])
  BY <1>2, FlattenBytes
<1>4. CASE off >= size
  <2>1. found = NULL
    BY <1>0, <1>1, <1>4, <1>d, EntriesAre, FindsEntry
  <2> QED
    BY <1>3, <1>4, <2>1
<1>5. CASE ~(off >= size)
  <2>1. off < size
    BY <1>5
  <2>2. PICK k \in 1 .. held :
          InEntry(buf, k, off) /\ found = [entry |-> Contents(buf)[k], offset |-> off - t[k-1]]
    BY <1>0, <1>1, <1>d, <1>t, <2>1, EntriesAre, FindsEntry
  <2>3. PICK i \in SizedSlots(buf) : Contents(buf)[k] = buf.entry[i]
    BY <1>0, <1>1, EntriesAre
  <2>4. PICK len \in Nat : len = buf.entry[i].size
    BY <1>0, EntriesAre
  <2>5. PICK line \in Memory : line = Lines[k] /\ Len(line) = len /\ line = heap[found.entry.buffptr]
    <3>1. Lines[k] = heap[Contents(buf)[k].buffptr]
      BY <1>1 DEF Lines
    <3>2. Len(heap[buf.entry[i].buffptr]) = len /\ buf.entry[i].buffptr \in Ptrs
      BY <1>0, <2>4 DEF MemInv, Stores
    <3> QED
      BY <1>0, <2>2, <2>3, <3>1, <3>2
  <2>6. PICK before \in Nat : before = t[k-1] /\ before <= off /\ off < before + len
    <3>1. k - 1 \in 0 .. held /\ k \in 0 .. held
      OBVIOUS
    <3>2. t[k-1] \in Nat /\ t[k] = t[k-1] + len
      BY <1>2, <2>5, <3>1 DEF Positions
    <3>3. t[k-1] <= off /\ off < t[k]
      BY <1>t, <2>2 DEF InEntry
    <3> QED
      BY <3>2, <3>3
  <2>7. PICK o \in Nat : o = found.offset /\ o = off - before /\ len - o \in Nat \ {0} /\ before + o = off
    <3>1. PICK o : o = off - before
      OBVIOUS
    <3>2. o \in Nat /\ len - o \in Nat \ {0} /\ before + o = off
      BY <2>6, <3>1
    <3>3. found.offset = o
      BY <2>2, <2>6, <3>1
    <3> QED
      BY <3>1, <3>2, <3>3
  <2>8. found.entry.size = len
    BY <2>2, <2>3, <2>4
  <2>9. n \in 1 .. count /\ o + n <= len
    <3>1. PICK S \in SUBSET Nat : S = {count, len - o} /\ S # {}
      BY <2>7
    <3>2. Min(S) \in S /\ \A m \in S : Min(S) <= m
      BY <3>1, MinOfSet
    <3>3. n = Min(S)
      BY <1>d, <2>7, <2>8, <3>1
    <3> QED
      BY <2>7, <3>1, <3>2, <3>3
  <2>10. Inside(all, before, line)
    BY <1>3, <2>5, <2>6
  <2>11. copied = SubSeq(all, off + 1, off + n)
    <3>1. PICK c \in Nat : c = n /\ o + c <= Len(line)
      BY <2>5, <2>9
    <3>2. Part(line, o, c) = Part(all, before + o, c)
      BY <2>10, <3>1, CopyInside
    <3>3. copied = Part(line, o, c)
      BY <1>d, <2>5, <2>7, <3>1 DEF Part
    <3> QED
      BY <2>7, <3>1, <3>2, <3>3 DEF Part
  <2>12. found # NULL
    <3>1. PICK e \in Entries : e = Contents(buf)[k]
      BY <1>0, <2>3, EntriesAre
    <3>2. found = [entry |-> e, offset |-> o]
      BY <2>2, <2>7, <3>1
    <3> QED
      BY <3>1, <3>2, NullAssumption DEF Entries
  <2>13. ~(off >= Len(all))
    BY <1>3, <1>5
  <2> QED
    BY <1>3, <2>9, <2>11, <2>12, <2>13, Zenon
<1> QED
  BY <1>4, <1>5

-----------------------------------------------------------------------------
(* The invariant of the refinement.                                          *)

\* Nothing is copied before a read ends, which copies something.
Ready(c) ==
  /\ c.pc \in {"lock", "locked", "seek", "loop"} => c.got = <<>>
  /\ c.pc \in {"lock", "locked"} /\ c.req.op = "read" => c.req.count \in Nat \ {0}

\* A write at work has taken the bytes it counts, from the device it found.
Written(c, device, base) == device = LD!Take(base, SubSeq(c.req.data, 1, c.bytes_written))

LinesInv ==
  /\ snap \in Devices
  /\ (\A p \in Procs : call[p].pc # "loop") => snap = Device
  /\ \A p \in Procs : Ready(call[p]) /\ (call[p].pc = "loop" => Written(call[p], Device, snap))

\* A step of the driver in this invariant, and what it must be.
Steps     == LineInv /\ LineInv' /\ LinesInv /\ Snap
Simulated == LinesInv' /\ [LD!Next]_(LD!vars)

LEMMA OnlyCall ==
  ASSUME CallInv, NEW p \in Procs, NEW c, call' = [call EXCEPT ![p] = c]
  PROVE  call'[p] = c /\ \A q \in Procs : q # p => call'[q] = call[q]
BY DEF CallInv

LEMMA NoOtherLoop ==
  ASSUME CallInv, NEW p \in Procs, call[p].pc \in Holding
  PROVE  \A q \in Procs : q # p => call[q].pc # "loop"
BY CallType DEF Holding

\* A step outside the write loops that leaves the device as it is.
LEMMA StaysOut ==
  ASSUME Steps, Device' = Device, NEW p \in Procs, NEW c, call' = [call EXCEPT ![p] = c],
         call[p].pc # "loop", c.pc # "loop", Ready(c)
  PROVE  LinesInv' /\ snap' = snap
<1>0. CallInv
  BY DEF Steps, LineInv, CharInv
<1>1. call'[p] = c /\ \A q \in Procs : q # p => call'[q] = call[q]
  BY <1>0, OnlyCall
<1>2. \A q \in Procs : call'[q].pc = "loop" <=> call[q].pc = "loop"
  BY <1>1
<1>3. snap' = snap
  BY <1>2 DEF Steps, Snap, LinesInv, At
<1>4. \A q \in Procs : Ready(call'[q]) /\ (call'[q].pc = "loop" => Written(call'[q], Device', snap'))
  BY <1>1, <1>3 DEF Steps, LinesInv
<1>5. (\A q \in Procs : call'[q].pc # "loop") => snap' = Device'
  BY <1>2, <1>3 DEF Steps, LinesInv
<1>6. snap' \in Devices
  BY <1>3 DEF Steps, LinesInv
<1> QED
  BY <1>3, <1>4, <1>5, <1>6 DEF LinesInv, Ready, Written

\* A step into a write loop or inside it.
LEMMA StaysIn ==
  ASSUME Steps, NEW p \in Procs, NEW c, call' = [call EXCEPT ![p] = c],
         call[p].pc \in Holding, c.pc = "loop", c.got = <<>>, Written(c, Device', snap)
  PROVE  LinesInv' /\ snap' = snap
<1>0. CallInv
  BY DEF Steps, LineInv, CharInv
<1>1. call'[p] = c /\ \A q \in Procs : q # p => call'[q] = call[q]
  BY <1>0, OnlyCall
<1>2. \A q \in Procs : q # p => call'[q].pc # "loop"
  BY <1>0, <1>1, NoOtherLoop
<1>3. snap' = snap
  BY <1>1 DEF Steps, Snap, At
<1>4. \A q \in Procs : Ready(call'[q])
  BY <1>1 DEF Steps, LinesInv, Ready
<1>5. \A q \in Procs : call'[q].pc = "loop" => Written(call'[q], Device', snap')
  BY <1>1, <1>2, <1>3
<1>6. snap' \in Devices /\ call'[p].pc = "loop"
  BY <1>1, <1>3 DEF Steps, LinesInv
<1> QED
  BY <1>3, <1>4, <1>5, <1>6 DEF LinesInv, Ready, Written

\* A step out of a write loop.
LEMMA Ends ==
  ASSUME Steps, NEW p \in Procs, NEW c, call' = [call EXCEPT ![p] = c],
         call[p].pc \in Holding, c.pc = "return", Device' \in Devices
  PROVE  LinesInv' /\ snap' = Device'
<1>0. CallInv
  BY DEF Steps, LineInv, CharInv
<1>1. call'[p] = c /\ \A q \in Procs : q # p => call'[q] = call[q]
  BY <1>0, OnlyCall
<1>2. \A q \in Procs : call'[q].pc # "loop"
  BY <1>0, <1>1, NoOtherLoop
<1>3. snap' = Device'
  BY <1>2 DEF Steps, Snap, At
<1>4. \A q \in Procs : Ready(call'[q])
  BY <1>1 DEF Steps, LinesInv, Ready
<1> QED
  BY <1>2, <1>3, <1>4 DEF LinesInv, Ready, Written

-----------------------------------------------------------------------------
(* The steps of the abstract device.                                         *)

LEMMA Stutters ==
  ASSUME CallInv, NEW p \in Procs, NEW c, call' = [call EXCEPT ![p] = c],
         AbstractCall(c) = AbstractCall(call[p]), snap' = snap
  PROVE  UNCHANGED LD!vars
<1>1. \A q \in Procs : AbstractCall(call'[q]) = AbstractCall(call[q])
  BY OnlyCall
<1>2. [q \in Procs |-> AbstractCall(call'[q])] = [q \in Procs |-> AbstractCall(call[q])]
  BY <1>1
<1> QED
  BY <1>2 DEF LD!vars, AbstractCall

LEMMA CallMoves ==
  ASSUME CallInv, NEW p \in Procs, NEW c, call' = [call EXCEPT ![p] = c]
  PROVE  LD!Moves(p, AbstractCall(call[p]).st, AbstractCall(c).st)
<1>1. call'[p] = c /\ \A q \in Procs : q # p => call'[q] = call[q]
  BY OnlyCall
<1>2. AbstractCall(call'[p]) = AbstractCall(c) /\ \A q \in Procs : q # p => AbstractCall(call'[q]) = AbstractCall(call[q])
  BY <1>1
<1> QED
  BY <1>2 DEF LD!Moves, AbstractCall

\* The end of a read, and of a write that has taken the first n bytes.
LEMMA ReadEnds ==
  ASSUME CallInv, NEW p \in Procs, NEW c, call' = [call EXCEPT ![p] = c], snap' = snap,
         call[p].pc \in {"lock", "locked"}, call[p].req.op = "read", c.pc = "return", c.req = call[p].req,
         NEW all, all = LD!FlattenSeq(snap[1]),
         \/ c.ret < 0 /\ c.got = <<>>
         \/ /\ c.ret \in 0 .. call[p].req.count
            /\ c.ret = 0 <=> call[p].pos >= Len(all)
            /\ c.got = SubSeq(all, call[p].pos + 1, call[p].pos + c.ret)
  PROVE  LD!Read(p)
<1>1. AbstractCall(call[p]) = [st |-> "pending", req |-> call[p].req, pos |-> call[p].pos]
  BY DEF AbstractCall
<1>2. AbstractCall(c) = [st |-> "done", ret |-> c.ret, got |-> c.got]
  BY DEF AbstractCall
<1>3. LD!Moves(p, "pending", "done")
  <2>1. AbstractCall(call[p]).st = "pending" /\ AbstractCall(c).st = "done"
    BY <1>1, <1>2
  <2> QED
    BY <2>1, CallMoves
<1>4. call'[p] = c
  BY OnlyCall
<1>5. AbstractCall(call'[p]) = [st |-> "done", ret |-> c.ret, got |-> c.got]
  BY <1>2, <1>4
<1> QED
  BY <1>1, <1>3, <1>5 DEF LD!Read, AbstractCall

LEMMA WriteEnds ==
  ASSUME CallInv, snap \in Devices, snap' \in Devices,
         NEW p \in Procs, NEW c, call' = [call EXCEPT ![p] = c],
         call[p].pc \in {"lock", "locked", "loop"}, call[p].req.op = "write",
         c.pc = "return", c.req = call[p].req, c.got = <<>>,
         NEW n \in 0 .. Len(call[p].req.data),
         snap' = LD!Take(snap, SubSeq(call[p].req.data, 1, n)),
         \/ c.ret = n /\ n = Len(call[p].req.data)
         \/ c.ret < 0 /\ n < Len(call[p].req.data) /\ (n = 0 \/ call[p].req.data[n] = NL)
  PROVE  LD!Write(p)
<1>1. AbstractCall(call[p]) = [st |-> "pending", req |-> call[p].req, pos |-> call[p].pos]
  BY DEF AbstractCall
<1>2. AbstractCall(c) = [st |-> "done", ret |-> c.ret, got |-> c.got]
  BY DEF AbstractCall
<1>3. LD!Moves(p, "pending", "done")
  <2>1. AbstractCall(call[p]).st = "pending" /\ AbstractCall(c).st = "done"
    BY <1>1, <1>2
  <2> QED
    BY <2>1, CallMoves
<1>4. call'[p] = c
  BY OnlyCall
<1>5. AbstractCall(call'[p]) = [st |-> "done", ret |-> c.ret, got |-> c.got]
  BY <1>2, <1>4
<1>6. snap = <<snap[1], snap[2]>> /\ snap' = <<snap'[1], snap'[2]>>
  BY DEF Devices
<1>7. <<snap'[1], snap'[2]>> = LD!Take(<<snap[1], snap[2]>>, SubSeq(call[p].req.data, 1, n))
  BY <1>6
<1> QED
  BY <1>1, <1>3, <1>5, <1>7 DEF LD!Write, AbstractCall

-----------------------------------------------------------------------------
(* Each step of the driver is one of the abstract device, or none.           *)

\* A step that only moves a call on, or a seek, changes nothing others can see.
LEMMA MovesOn ==
  ASSUME Steps, Device' = Device, NEW p \in Procs, NEW c, call' = [call EXCEPT ![p] = c],
         call[p].pc # "loop", c.pc # "loop", Ready(c), AbstractCall(c) = AbstractCall(call[p])
  PROVE  Simulated
<1>1. LinesInv' /\ snap' = snap
  BY StaysOut
<1>2. UNCHANGED LD!vars
  BY <1>1, Stutters DEF Steps, LineInv, CharInv
<1> QED
  BY <1>1, <1>2 DEF Simulated

LEMMA EnterSimulated ==
  ASSUME Steps, NEW p \in Procs, NEW f \in Files, NEW req \in Requests, Enter(p, f, req)
  PROVE  Simulated
<1>0. CallInv /\ call[p].pc = "idle" /\ Device' = Device
  <2>1. UNCHANGED <<loaded, dev, heap>>
    BY DEF Enter
  <2> QED
    BY <2>1, DeviceSame DEF Steps, LineInv, CharInv, Enter, At
<1>1. PICK go \in BeforeLock(req) :
        call' = [call EXCEPT ![p] =
                  [NoCall EXCEPT !.pc   = IF go = TAKE_LOCK THEN "lock" ELSE "return",
                                 !.file = f,
                                 !.req  = req,
                                 !.pos  = f_pos[f],
                                 !.ret  = IF go = TAKE_LOCK THEN 0 ELSE go]]
  BY DEF Enter
<1>2. PICK c : c = [NoCall EXCEPT !.pc   = IF go = TAKE_LOCK THEN "lock" ELSE "return",
                                  !.file = f,
                                  !.req  = req,
                                  !.pos  = f_pos[f],
                                  !.ret  = IF go = TAKE_LOCK THEN 0 ELSE go]
  OBVIOUS
<1>3. call' = [call EXCEPT ![p] = c]
  BY <1>1, <1>2
<1>4. /\ c.pc = IF go = TAKE_LOCK THEN "lock" ELSE "return"
      /\ c.ret = IF go = TAKE_LOCK THEN 0 ELSE go
      /\ c.req = req /\ c.got = <<>>
  BY <1>2 DEF NoCall
<1>5. go = TAKE_LOCK /\ req.op = "read" => req.count \in Nat \ {0}
  <2>1. ASSUME go = TAKE_LOCK, req.op = "read" PROVE req.data # NULL /\ req.count # 0
    BY <2>1 DEF BeforeLock, TAKE_LOCK, EINVAL
  <2> QED
    BY <2>1, RequestsAssumption
<1>6. go # TAKE_LOCK /\ req.op \in {"read", "write"} => go <= 0
  <2>1. ASSUME go # TAKE_LOCK, req.op \in {"read", "write"} PROVE go \in {EINVAL, 0}
    BY <2>1 DEF BeforeLock
  <2> QED
    BY <2>1 DEF EINVAL
<1>7. Ready(c)
  BY <1>4, <1>5 DEF Ready
<1>8. LinesInv' /\ snap' = snap
  BY <1>0, <1>3, <1>4, <1>7, StaysOut
<1>9. AbstractCall(call[p]) = [st |-> "idle"]
  BY <1>0 DEF AbstractCall
<1>10. CASE req.op \notin {"read", "write"}
  <2>1. AbstractCall(c) = [st |-> "idle"]
    BY <1>4, <1>10 DEF AbstractCall
  <2>2. UNCHANGED LD!vars
    BY <1>0, <1>3, <1>8, <1>9, <2>1, Stutters
  <2> QED
    BY <1>8, <2>2 DEF Simulated
<1>11. CASE req.op \in {"read", "write"} /\ go = TAKE_LOCK
  <2>1. AbstractCall(c).st = "pending"
    BY <1>4, <1>11 DEF AbstractCall
  <2>2. LD!Moves(p, "idle", "pending")
    <3>1. AbstractCall(call[p]).st = "idle"
      BY <1>9
    <3> QED
      BY <1>0, <1>3, <2>1, <3>1, CallMoves
  <2>3. LD!Invoke(p)
    BY <1>8, <2>2 DEF LD!Invoke
  <2> QED
    BY <1>8, <2>3 DEF Simulated, LD!Next
<1>12. CASE req.op \in {"read", "write"} /\ go # TAKE_LOCK
  <2>1. AbstractCall(c) = [st |-> "done", ret |-> go, got |-> <<>>]
    BY <1>4, <1>12 DEF AbstractCall
  <2>2. LD!Moves(p, "idle", "done")
    <3>1. AbstractCall(call[p]).st = "idle" /\ AbstractCall(c).st = "done"
      BY <1>9, <2>1
    <3> QED
      BY <1>0, <1>3, <3>1, CallMoves
  <2>3. call'[p] = c
    BY <1>0, <1>3, OnlyCall
  <2>4. AbstractCall(call'[p]) = [st |-> "done", ret |-> go, got |-> <<>>]
    BY <2>1, <2>3
  <2>5. LD!Reject(p)
    BY <1>6, <1>8, <1>12, <2>2, <2>4 DEF LD!Reject, AbstractCall
  <2> QED
    BY <1>8, <2>5 DEF Simulated, LD!Next
<1> QED
  BY <1>10, <1>11, <1>12

LEMMA LeaveSimulated ==
  ASSUME Steps, NEW p \in Procs, Leave(p)
  PROVE  Simulated
<1>0. CallInv /\ call[p].pc = "return" /\ Device' = Device /\ call' = [call EXCEPT ![p] = NoCall]
  <2>1. UNCHANGED <<loaded, dev, heap>>
    BY DEF Leave
  <2> QED
    BY <2>1, DeviceSame DEF Steps, LineInv, CharInv, Leave, At
<1>1. NoCall.pc = "idle" /\ Ready(NoCall)
  BY DEF NoCall, Ready
<1>2. LinesInv' /\ snap' = snap
  BY <1>0, <1>1, StaysOut
<1>3. AbstractCall(NoCall) = [st |-> "idle"]
  BY <1>1 DEF AbstractCall
<1>4. CASE call[p].req.op \in {"read", "write"}
  <2>1. AbstractCall(call[p]).st = "done"
    BY <1>0, <1>4 DEF AbstractCall
  <2>2. LD!Moves(p, "done", "idle")
    <3>1. AbstractCall(NoCall).st = "idle"
      BY <1>3
    <3> QED
      BY <1>0, <2>1, <3>1, CallMoves
  <2>3. LD!Finish(p)
    BY <1>2, <2>2 DEF LD!Finish
  <2> QED
    BY <1>2, <2>3 DEF Simulated, LD!Next
<1>5. CASE call[p].req.op \notin {"read", "write"}
  <2>1. AbstractCall(call[p]) = [st |-> "idle"]
    BY <1>5 DEF AbstractCall
  <2> QED
    BY <1>0, <1>1, <1>3, <2>1, MovesOn
<1> QED
  BY <1>4, <1>5

LEMMA LockSimulated ==
  ASSUME Steps, NEW p \in Procs, Lock(p)
  PROVE  Simulated
<1>0. CallInv /\ call[p].pc = "lock" /\ Device' = Device /\ Ready(call[p])
  <2>1. UNCHANGED <<loaded, dev, heap>>
    BY DEF Lock
  <2> QED
    BY <2>1, DeviceSame DEF Steps, LineInv, CharInv, LinesInv, Lock, At
<1>1. PICK c \in Calls : /\ call' = [call EXCEPT ![p] = c] /\ c.pc = "locked"
                         /\ c.req = call[p].req /\ c.pos = call[p].pos /\ c.got = call[p].got
  BY <1>0, GotoIs DEF Lock
<1>2. Ready(c) /\ AbstractCall(c) = AbstractCall(call[p])
  BY <1>0, <1>1 DEF Ready, AbstractCall
<1> QED
  BY <1>0, <1>1, <1>2, MovesOn

\* A call that returns before it has done anything, with an error.
LEMMA FailureSimulated ==
  ASSUME Steps, Device' = Device, NEW p \in Procs, NEW c, call' = [call EXCEPT ![p] = c],
         call[p].pc \in {"lock", "locked"}, c.pc = "return", c.req = call[p].req, c.got = call[p].got,
         c.ret \in Int, c.ret < 0
  PROVE  Simulated
<1>0. CallInv /\ Ready(call[p]) /\ c.got = <<>> /\ snap \in Devices
  BY DEF Steps, LineInv, CharInv, LinesInv, Ready
<1>1. LinesInv' /\ snap' = snap
  BY StaysOut DEF Ready
<1>2. CASE call[p].req.op = "read"
  <2>1. PICK all : all = LD!FlattenSeq(snap[1])
    OBVIOUS
  <2>2. LD!Read(p)
    BY <1>0, <1>1, <1>2, <2>1, ReadEnds
  <2> QED
    BY <1>1, <2>2 DEF Simulated, LD!Next
<1>3. CASE call[p].req.op = "write"
  <2>1. call[p].req.data \in Seq(Bytes) /\ call[p].req.data # <<>>
    BY <1>0, <1>3, CallType DEF Sound
  <2>2. call[p].req.data \in Memory
    BY <2>1, ElementOfSeq DEF Memory
  <2>3. snap' = LD!Take(snap, SubSeq(call[p].req.data, 1, 0))
    BY <1>0, <1>1, <2>2, TakeNone
  <2>4. PICK n \in Nat : n = Len(call[p].req.data) /\ 0 < n
    BY <2>1, LenProperties, EmptySeq
  <2>5. 0 \in 0 .. Len(call[p].req.data) /\ 0 < Len(call[p].req.data)
    BY <2>4
  <2>6. LD!Write(p)
    BY <1>0, <1>1, <1>3, <2>3, <2>5, WriteEnds
  <2> QED
    BY <1>1, <2>6 DEF Simulated, LD!Next
<1>4. CASE call[p].req.op \notin {"read", "write"}
  <2>1. AbstractCall(c) = AbstractCall(call[p])
    BY <1>4 DEF AbstractCall
  <2>2. UNCHANGED LD!vars
    BY <1>0, <1>1, <2>1, Stutters
  <2> QED
    BY <1>1, <2>2 DEF Simulated
<1> QED
  BY <1>2, <1>3, <1>4
LEMMA InterruptedSimulated ==
  ASSUME Steps, NEW p \in Procs, Interrupted(p)
  PROVE  Simulated
<1>0. CallInv /\ call[p].pc = "lock" /\ Device' = Device
  <2>1. UNCHANGED <<loaded, dev, heap>>
    BY DEF Interrupted
  <2> QED
    BY <2>1, DeviceSame DEF Steps, LineInv, CharInv, Interrupted, At
<1>1. Return(p, ERESTART) /\ ERESTART \in Int /\ ERESTART < 0
  BY DEF Interrupted, ERESTART
<1>2. PICK c \in Calls : /\ call' = [call EXCEPT ![p] = c] /\ c.pc = "return" /\ c.ret = ERESTART
                         /\ c.req = call[p].req /\ c.got = call[p].got
  BY <1>0, <1>1, ReturnIs
<1> QED
  BY <1>0, <1>1, <1>2, FailureSimulated

LEMMA NoRoomSimulated ==
  ASSUME Steps, "krealloc" \notin FailSites, NEW p \in Procs, aesd_write_no_room(p)
  PROVE  Simulated
<1>0. CallInv /\ call[p].pc = "locked" /\ Device' = Device
  BY NoRoomKeepsDevice DEF Steps, LineInv, CharInv, aesd_write_no_room, InHandler, At
<1>1. Return(p, ENOMEM) /\ ENOMEM \in Int /\ ENOMEM < 0
  BY DEF aesd_write_no_room, UnlockAndReturn, ENOMEM
<1>2. PICK c \in Calls : /\ call' = [call EXCEPT ![p] = c] /\ c.pc = "return" /\ c.ret = ENOMEM
                         /\ c.req = call[p].req /\ c.got = call[p].got
  BY <1>0, <1>1, ReturnIs
<1> QED
  BY <1>0, <1>1, <1>2, FailureSimulated

\* A read takes effect when it copies.
LEMMA ReadSimulated ==
  ASSUME Steps, NEW H \in Nat \ {0}, Halves(H), PosInv(H), NEW p \in Procs, aesd_read(p)
  PROVE  Simulated
<1>0. /\ CallInv /\ call[p].pc = "locked" /\ call[p].req.op = "read" /\ call[p].req.count \in Nat \ {0}
      /\ call[p].got = <<>> /\ loaded /\ call[p] \in Calls
  <2>1. CallInv /\ call[p].pc = "locked" /\ call[p].req.op = "read" /\ Ready(call[p])
    BY DEF Steps, LineInv, CharInv, LinesInv, aesd_read, InHandler, At
  <2> QED
    BY <2>1, CallType DEF Ready
<1>1. Device' = Device
  <2>1. UNCHANGED <<loaded, dev, heap>>
    BY DEF aesd_read
  <2> QED
    BY <2>1, DeviceSame
<1>2. snap = Device /\ snap[1] = Lines
  <2>1. \A q \in Procs : call[q].pc # "loop"
    BY <1>0, NoOtherLoop DEF Holding
  <2>2. Device = <<Lines, Partial>>
    BY <1>0, DeviceType DEF Steps
  <2> QED
    BY <2>1, <2>2 DEF Steps, LinesInv
<1>3. PICK off \in Nat, count \in Nat \ {0} : off = call[p].pos /\ count = call[p].req.count
  BY <1>0 DEF PosInv
<1>4. off % SIZE_T = off
  <2>1. off \in -H .. 2 * H - 1 /\ ~(off < 0)
    BY <1>3 DEF PosInv
  <2> QED
    BY <2>1, Converted DEF Halves
<1>5. PICK found : found = FindEntryOffsetForFpos(buf, off)
  OBVIOUS
<1>6. PICK n : n = Min({count, found.entry.size - found.offset})
  OBVIOUS
<1>7. PICK copied : copied = SubSeq(heap[found.entry.buffptr], found.offset + 1, found.offset + n)
  OBVIOUS
<1>8. PICK all \in Memory :
        /\ all = LD!FlattenSeq(Lines)
        /\ found = NULL <=> off >= Len(all)
        /\ found # NULL => n \in 1 .. count /\ copied = SubSeq(all, off + 1, off + n)
  <2>1. LineInv /\ loaded /\ Copies(off, count, found, n, copied)
    BY <1>0, <1>5, <1>6, <1>7 DEF Steps, Copies
  <2> QED
    BY <2>1, ReadGets
<1>9. \/ found = NULL /\ Return(p, 0)
      \/ Return(p, EFAULT)
      \/ /\ found # NULL
         /\ call' = [call EXCEPT ![p].pc  = "return", ![p].pos = @ + n, ![p].ret = n, ![p].got = copied]
  BY <1>3, <1>4, <1>5, <1>6, <1>7 DEF aesd_read, UnlockAndReturn
<1>10. CASE Return(p, EFAULT)
  <2>1. EFAULT \in Int /\ EFAULT < 0
    BY DEF EFAULT
  <2>2. PICK c \in Calls : /\ call' = [call EXCEPT ![p] = c] /\ c.pc = "return" /\ c.ret = EFAULT
                           /\ c.req = call[p].req /\ c.got = call[p].got
    BY <1>0, <1>10, <2>1, ReturnIs
  <2> QED
    BY <1>0, <1>1, <2>1, <2>2, FailureSimulated
<1>11. CASE found = NULL /\ Return(p, 0)
  <2>1. PICK c \in Calls : /\ call' = [call EXCEPT ![p] = c] /\ c.pc = "return" /\ c.ret = 0
                           /\ c.req = call[p].req /\ c.got = call[p].got
    BY <1>0, <1>11, ReturnIs
  <2>2. LinesInv' /\ snap' = snap
    BY <1>0, <1>1, <2>1, StaysOut DEF Ready
  <2>3. c.got = SubSeq(all, off + 1, off + 0)
    <3>1. SubSeq(all, off + 1, off) = <<>>
      <4>1. \A i \in off + 1 .. off : all[i] \in Byte
        OBVIOUS
      <4>2. SubSeq(all, off + 1, off) \in Seq(Byte) /\ Len(SubSeq(all, off + 1, off)) = 0
        BY <4>1, SubSeqProperties
      <4> QED
        BY <4>2, EmptySeq
    <3> QED
      BY <1>0, <2>1, <3>1
  <2>4. 0 \in 0 .. count
    OBVIOUS
  <2>5. LD!Read(p)
    BY <1>0, <1>2, <1>3, <1>8, <1>11, <2>1, <2>2, <2>3, <2>4, ReadEnds
  <2> QED
    BY <2>2, <2>5 DEF Simulated, LD!Next
<1>12. CASE /\ found # NULL
            /\ call' = [call EXCEPT ![p].pc  = "return", ![p].pos = @ + n, ![p].ret = n, ![p].got = copied]
  <2>1. PICK c : c = [call[p] EXCEPT !.pc = "return", !.pos = @ + n, !.ret = n, !.got = copied]
    OBVIOUS
  <2>2. call' = [call EXCEPT ![p] = c]
    BY <1>0, <1>12, <2>1 DEF CallInv
  <2>3. c.pc = "return" /\ c.ret = n /\ c.req = call[p].req /\ c.got = copied
    BY <1>0, <2>1 DEF Calls
  <2>4. LinesInv' /\ snap' = snap
    BY <1>0, <1>1, <2>2, <2>3, StaysOut DEF Ready
  <2>5. n \in 0 .. count /\ n # 0 /\ copied = SubSeq(all, off + 1, off + n)
    BY <1>8, <1>12
  <2>6. LD!Read(p)
    BY <1>0, <1>2, <1>3, <1>8, <1>12, <2>2, <2>3, <2>4, <2>5, ReadEnds
  <2> QED
    BY <2>4, <2>6 DEF Simulated, LD!Next
<1> QED
  BY <1>9, <1>10, <1>11, <1>12

\* A seek is none of the abstract device's business.
LEMMA SeekSimulated ==
  ASSUME Steps, NEW p \in Procs, aesd_llseek(p) \/ aesd_ioctl(p) \/ StoreSeek(p)
  PROVE  Simulated
<1>0. /\ CallInv /\ call[p].pc \in {"locked", "seek"} /\ call[p].req.op \in {"llseek", "ioctl"}
      /\ call[p].got = <<>> /\ call[p] \in Calls
  <2>1. CallInv /\ call[p].pc \in {"locked", "seek"} /\ Ready(call[p])
    BY DEF Steps, LineInv, CharInv, LinesInv, aesd_llseek, aesd_ioctl, StoreSeek, InHandler, At
  <2>2. call[p].req.op \in {"llseek", "ioctl"}
    BY <2>1, CallType DEF Sound, aesd_llseek, aesd_ioctl, StoreSeek, InHandler, At
  <2> QED
    BY <2>1, <2>2, CallType DEF Ready
<1>1. Device' = Device
  <2>1. UNCHANGED <<loaded, dev, heap>>
    BY DEF aesd_llseek, aesd_ioctl, StoreSeek
  <2> QED
    BY <2>1, DeviceSame
<1>2. \/ \E ret \in Int : Return(p, ret)
      \/ \E pos : call' = [call EXCEPT ![p].pc = "seek", ![p].pos = pos]
  <2>1. CASE aesd_llseek(p)
    <3>1. EINVAL \in Int
      BY DEF EINVAL
    <3> QED
      BY <2>1, <3>1 DEF aesd_llseek, SeekOrFail, UnlockAndReturn
  <2>2. CASE aesd_ioctl(p)
    <3>1. EINVAL \in Int
      BY DEF EINVAL
    <3> QED
      BY <2>2, <3>1 DEF aesd_ioctl, SeekOrFail, UnlockAndReturn
  <2>3. CASE StoreSeek(p)
    <3>1. PICK ret : ret = IF call[p].req.op = "llseek" THEN call[p].pos ELSE 0
      OBVIOUS
    <3>2. ret \in Int
      BY <1>0, <3>1 DEF Calls
    <3>3. Return(p, ret)
      BY <2>3, <3>1 DEF StoreSeek, UnlockAndReturn
    <3> QED
      BY <3>2, <3>3
  <2> QED
    BY <2>1, <2>2, <2>3
<1>3. PICK c : /\ call' = [call EXCEPT ![p] = c] /\ c.pc \in {"return", "seek"}
               /\ c.req = call[p].req /\ c.got = call[p].got
  <2>1. ASSUME NEW ret \in Int, Return(p, ret)
        PROVE  \E c : /\ call' = [call EXCEPT ![p] = c] /\ c.pc \in {"return", "seek"}
                      /\ c.req = call[p].req /\ c.got = call[p].got
    BY <1>0, <2>1, ReturnIs
  <2>2. ASSUME NEW pos, call' = [call EXCEPT ![p].pc = "seek", ![p].pos = pos]
        PROVE  \E c : /\ call' = [call EXCEPT ![p] = c] /\ c.pc \in {"return", "seek"}
                      /\ c.req = call[p].req /\ c.got = call[p].got
    <3>1. PICK c : c = [call[p] EXCEPT !.pc = "seek", !.pos = pos]
      OBVIOUS
    <3>2. call' = [call EXCEPT ![p] = c]
      BY <1>0, <2>2, <3>1 DEF CallInv
    <3>3. c.pc = "seek" /\ c.req = call[p].req /\ c.got = call[p].got
      BY <1>0, <3>1 DEF Calls
    <3> QED
      BY <3>2, <3>3
  <2> QED
    BY <1>2, <2>1, <2>2
<1>4. Ready(c) /\ AbstractCall(c) = AbstractCall(call[p])
  BY <1>0, <1>3 DEF Ready, AbstractCall
<1> QED
  BY <1>0, <1>1, <1>3, <1>4, MovesOn
\* A write under way, its data and how much of it is done.
LEMMA WriteHas ==
  ASSUME CallInv, NEW p \in Procs, call[p].pc = "loop" \/ (call[p].pc = "locked" /\ call[p].req.op = "write")
  PROVE  /\ call[p] \in Calls /\ call[p].pc \in Holding /\ call[p].req.op = "write"
         /\ call[p].req.data \in Memory /\ Len(call[p].req.data) \in Nat
         /\ call[p].bytes_written \in Nat /\ call[p].bytes_written <= Len(call[p].req.data)
         /\ call[p].pc = "locked" => call[p].bytes_written = 0
<1>1. call[p] \in Calls /\ Sound(call[p], opened)
  BY CallType
<1>2. call[p].req.op = "write" /\ call[p].req.data \in Seq(Bytes) /\ call[p].bytes_written \in Nat
  BY <1>1 DEF Sound, Calls
<1>3. call[p].req.data \in Memory
  BY <1>2, ElementOfSeq DEF Memory
<1>4. Len(call[p].req.data) \in Nat
  BY <1>3, LenProperties DEF Memory
<1>5. /\ call[p].pc = "locked" => call[p].bytes_written = 0
      /\ call[p].pc = "loop" => call[p].bytes_written <= Len(call[p].req.data)
  BY <1>1 DEF Sound
<1>6. call[p].bytes_written <= Len(call[p].req.data)
  BY <1>2, <1>4, <1>5
<1> QED
  BY <1>1, <1>2, <1>3, <1>4, <1>5, <1>6 DEF Holding

\* In the write loop the device has taken what the write has done.
LEMMA TakenSoFar ==
  ASSUME LinesInv, CallInv, NEW p \in Procs, InLoop(p)
  PROVE  \E data \in Memory, n \in Nat :
           /\ data = call[p].req.data /\ n = call[p].bytes_written /\ n + 1 <= Len(data) /\ Len(data) \in Nat
           /\ NextByte(p) = data[n + 1]
           /\ LD!Take(snap, SubSeq(data, 1, n + 1)) = LD!TakeByte(Device, NextByte(p))
           /\ LD!Take(snap, SubSeq(data, 1, n + 1)) \in Devices
<1>0. call[p].pc = "loop" /\ call[p].bytes_written < Len(call[p].req.data)
  BY DEF InLoop, At
<1>1. PICK data \in Memory, n \in Nat :
        /\ data = call[p].req.data /\ n = call[p].bytes_written /\ Len(data) \in Nat /\ n < Len(data)
  BY <1>0, WriteHas
<1>2. n + 1 <= Len(data) /\ n + 1 \in 1 .. Len(data)
  BY <1>1
<1>3. NextByte(p) = data[n + 1]
  BY <1>1 DEF NextByte
<1>4. Device = LD!Take(snap, SubSeq(data, 1, n)) /\ snap \in Devices
  BY <1>0, <1>1 DEF LinesInv, Written
<1>5. /\ LD!Take(snap, SubSeq(data, 1, n)) \in Devices
      /\ LD!Take(snap, SubSeq(data, 1, n + 1)) = LD!TakeByte(LD!Take(snap, SubSeq(data, 1, n)), data[n + 1])
  BY <1>2, <1>4, TakeMore
<1>6. data[n + 1] \in Byte
  BY <1>2, ElementOfSeq DEF Memory, Byte
<1>7. LD!TakeByte(Device, data[n + 1]) \in Devices
  BY <1>4, <1>5, <1>6, TakeByteType
<1> QED
  BY <1>1, <1>2, <1>3, <1>4, <1>5, <1>7

\* A write that has the mutex goes into its loop, or on in it.
LEMMA WorksOn ==
  ASSUME Steps, NEW p \in Procs, NEW c, call' = [call EXCEPT ![p] = c],
         call[p].pc \in {"locked", "loop"}, call[p].req.op = "write", c.pc = "loop",
         c.req = call[p].req, c.pos = call[p].pos, c.got = call[p].got, Written(c, Device', snap)
  PROVE  Simulated
<1>0. CallInv /\ call[p].pc \in Holding /\ Ready(call[p])
  BY DEF Steps, LineInv, CharInv, LinesInv, Holding
<1>1. LinesInv' /\ snap' = snap
  BY <1>0, StaysIn DEF Ready
<1>2. AbstractCall(c) = AbstractCall(call[p])
  BY DEF AbstractCall
<1>3. UNCHANGED LD!vars
  BY <1>0, <1>1, <1>2, Stutters
<1> QED
  BY <1>1, <1>3 DEF Simulated

LEMMA WriteSimulated ==
  ASSUME Steps, NEW p \in Procs, aesd_write(p)
  PROVE  Simulated
<1>0. CallInv /\ call[p].pc = "locked" /\ call[p].req.op = "write"
  BY DEF Steps, LineInv, CharInv, aesd_write, InHandler, At
<1>1. PICK data \in Memory : data = call[p].req.data /\ call[p].bytes_written = 0 /\ call[p].pc \in Holding
  BY <1>0, WriteHas
<1>2. Device' = Device /\ snap = Device /\ snap \in Devices
  <2>1. \A q \in Procs : call[q].pc # "loop"
    BY <1>0, <1>1, NoOtherLoop
  <2> QED
    BY <2>1, RoomKeepsDevice DEF Steps, LinesInv
<1>3. Goto(p, "loop")
  BY DEF aesd_write
<1>4. PICK c \in Calls : /\ call' = [call EXCEPT ![p] = c] /\ c.pc = "loop"
                         /\ c.bytes_written = call[p].bytes_written /\ c.req = call[p].req
                         /\ c.pos = call[p].pos /\ c.got = call[p].got
  BY <1>0, <1>3, GotoIs
<1>5. LD!Take(snap, SubSeq(data, 1, 0)) = snap
  BY <1>2, TakeNone
<1>6. Written(c, Device', snap)
  BY <1>1, <1>2, <1>4, <1>5 DEF Written
<1> QED
  BY <1>0, <1>4, <1>6, WorksOn

\* A byte the device has taken.
LEMMA ByteSimulated ==
  ASSUME Steps, NEW p \in Procs, InLoop(p), Device' = LD!TakeByte(Device, NextByte(p)),
         call' = [call EXCEPT ![p].bytes_written = @ + 1]
  PROVE  Simulated
<1>0. CallInv /\ LinesInv /\ call[p].pc = "loop"
  BY DEF Steps, LineInv, CharInv, InLoop, At
<1>1. call[p] \in Calls /\ call[p].req.op = "write"
  BY <1>0, WriteHas
<1>2. PICK data \in Memory, n \in Nat :
        /\ data = call[p].req.data /\ n = call[p].bytes_written
        /\ LD!Take(snap, SubSeq(data, 1, n + 1)) = LD!TakeByte(Device, NextByte(p))
  BY <1>0, TakenSoFar
<1>3. PICK c : c = [call[p] EXCEPT !.bytes_written = @ + 1]
  OBVIOUS
<1>4. call' = [call EXCEPT ![p] = c]
  BY <1>0, <1>3 DEF CallInv
<1>5. /\ c.pc = "loop" /\ c.bytes_written = n + 1 /\ c.req = call[p].req
      /\ c.pos = call[p].pos /\ c.got = call[p].got
  BY <1>0, <1>1, <1>2, <1>3 DEF Calls
<1>6. Written(c, Device', snap)
  BY <1>2, <1>5 DEF Written
<1> QED
  BY <1>0, <1>1, <1>4, <1>5, <1>6, WorksOn

\* The end of a write that has taken the first n bytes.
LEMMA EndSimulated ==
  ASSUME Steps, NEW p \in Procs, call[p].pc = "loop", NEW ret \in Int, Return(p, ret),
         NEW n \in 0 .. Len(call[p].req.data),
         Device' = LD!Take(snap, SubSeq(call[p].req.data, 1, n)), Device' \in Devices,
         \/ ret = n /\ n = Len(call[p].req.data)
         \/ ret < 0 /\ n < Len(call[p].req.data) /\ (n = 0 \/ call[p].req.data[n] = NL)
  PROVE  Simulated
<1>0. CallInv /\ snap \in Devices /\ call[p].got = <<>>
  BY DEF Steps, LineInv, CharInv, LinesInv, Ready
<1>1. call[p].pc \in Holding /\ call[p].req.op = "write"
  BY <1>0, WriteHas
<1>2. PICK c \in Calls : /\ call' = [call EXCEPT ![p] = c] /\ c.pc = "return" /\ c.ret = ret
                         /\ c.req = call[p].req /\ c.got = call[p].got
  BY <1>0, ReturnIs
<1>3. LinesInv' /\ snap' = Device'
  BY <1>1, <1>2, Ends
<1>4. LD!Write(p)
  BY <1>0, <1>1, <1>2, <1>3, WriteEnds
<1> QED
  BY <1>3, <1>4 DEF Simulated, LD!Next

\* The end of a line: the write goes on, or has no memory for what is left of it.
LEMMA LineSimulated ==
  ASSUME Steps, NEW p \in Procs, aesd_write_line(p)
  PROVE  Simulated
<1>0. CallInv /\ LinesInv /\ LineInv /\ CharInv'
  BY DEF Steps, LineInv, CharInv
<1>1. Device' = LD!TakeByte(Device, NL) /\ InLoop(p) /\ NextByte(p) = NL
  BY <1>0, LineTakenByDevice
<1>2. PICK data \in Memory, n \in Nat :
        /\ data = call[p].req.data /\ n = call[p].bytes_written /\ n + 1 <= Len(data) /\ Len(data) \in Nat
        /\ NextByte(p) = data[n + 1]
        /\ LD!Take(snap, SubSeq(data, 1, n + 1)) = LD!TakeByte(Device, NextByte(p))
        /\ LD!Take(snap, SubSeq(data, 1, n + 1)) \in Devices
  BY <1>0, <1>1, TakenSoFar
<1>3. \/ call' = [call EXCEPT ![p].bytes_written = @ + 1]
      \/ Len(data) - (n + 1) > 0 /\ Return(p, ENOMEM)
  BY <1>2 DEF aesd_write_line, UnlockAndReturn
<1>4. CASE call' = [call EXCEPT ![p].bytes_written = @ + 1]
  BY <1>1, <1>4, ByteSimulated
<1>5. CASE Len(data) - (n + 1) > 0 /\ Return(p, ENOMEM)
  <2>1. ENOMEM \in Int /\ ENOMEM < 0
    BY DEF ENOMEM
  <2>2. PICK m \in 0 .. Len(call[p].req.data) : m = n + 1 /\ m < Len(call[p].req.data)
    BY <1>2, <1>5
  <2>3. Device' = LD!Take(snap, SubSeq(call[p].req.data, 1, m)) /\ Device' \in Devices
    BY <1>1, <1>2, <2>2
  <2>4. call[p].req.data[m] = NL /\ call[p].pc = "loop"
    BY <1>1, <1>2, <2>2 DEF InLoop, At
  <2> QED
    BY <1>5, <2>1, <2>2, <2>3, <2>4, EndSimulated
<1> QED
  BY <1>3, <1>4, <1>5

LEMMA DoneSimulated ==
  ASSUME Steps, NEW p \in Procs, aesd_write_done(p)
  PROVE  Simulated
<1>0. CallInv /\ LinesInv /\ LineInv /\ call[p].pc = "loop" /\ ~InLoop(p)
  BY DEF Steps, LineInv, CharInv, aesd_write_done, At
<1>1. Device' = Device /\ Device \in Devices
  <2>1. UNCHANGED <<loaded, dev, heap>>
    BY DEF aesd_write_done
  <2> QED
    BY <1>0, <2>1, DeviceSame, DeviceType
<1>2. PICK n \in 0 .. Len(call[p].req.data) : n = call[p].bytes_written /\ n = Len(call[p].req.data)
  <2>1. /\ call[p].bytes_written \in Nat /\ Len(call[p].req.data) \in Nat
        /\ call[p].bytes_written <= Len(call[p].req.data)
    BY <1>0, WriteHas
  <2>2. ~(call[p].bytes_written < Len(call[p].req.data))
    BY <1>0 DEF InLoop, At
  <2> QED
    BY <2>1, <2>2
<1>3. Device = LD!Take(snap, SubSeq(call[p].req.data, 1, n))
  BY <1>0, <1>2 DEF LinesInv, Written
<1>4. Return(p, n) /\ n \in Int
  BY <1>2 DEF aesd_write_done, UnlockAndReturn
<1> QED
  BY <1>0, <1>1, <1>2, <1>3, <1>4, EndSimulated
LEMMA EmptyDevice == <<<<>>, <<>>>> \in Devices
<1>1. <<>> \in Memory /\ <<>> \in Seq(Memory)
  BY DEF Memory
<1> QED
  BY <1>1 DEF Devices

\* Loading and unloading: nobody is in a call, and the device is empty.
LEMMA ResetSimulated ==
  ASSUME Steps, aesd_init_module \/ aesd_cleanup_module
  PROVE  Simulated
<1>0. CallInv /\ call' = call /\ \A p \in Procs : call[p].pc = "idle"
  <2>1. CallInv /\ opened = {} /\ call' = call
    BY DEF Steps, LineInv, CharInv, CallInv, aesd_init_module, aesd_cleanup_module
  <2> QED
    BY <2>1, AllIdle
<1>1. Device' = <<<<>>, <<>>>>
  BY DeviceEmptied
<1>2. snap' = Device'
  BY <1>0 DEF Steps, Snap, At
<1>3. LinesInv'
  <2>1. <<<<>>, <<>>>> \in Devices
    BY EmptyDevice
  <2>2. \A p \in Procs : Ready(call'[p]) /\ call'[p].pc # "loop"
    BY <1>0 DEF Steps, LinesInv
  <2> QED
    BY <1>1, <1>2, <2>1, <2>2 DEF LinesInv, Ready, Written
<1>4. LD!Reset
  <2>1. \A p \in Procs : AbstractCall(call[p]).st = "idle"
    BY <1>0 DEF AbstractCall
  <2>2. snap'[1] = <<>> /\ snap'[2] = <<>>
    BY <1>1, <1>2
  <2> QED
    BY <1>0, <2>1, <2>2 DEF LD!Reset, AbstractCall
<1> QED
  BY <1>3, <1>4 DEF Simulated, LD!Next

\* A step that leaves the device and the calls alone.
LEMMA IdleSimulated ==
  ASSUME LinesInv, UNCHANGED <<loaded, dev, heap, call>>, Snap \/ snap' = snap
  PROVE  Simulated
<1>1. Device' = Device /\ call' = call
  BY DeviceSame
<1>2. snap' = snap
  BY <1>1 DEF LinesInv, Snap, At
<1>3. LinesInv'
  BY <1>1, <1>2 DEF LinesInv, Ready, Written
<1>4. UNCHANGED LD!vars
  BY <1>1, <1>2 DEF LD!vars, AbstractCall
<1> QED
  BY <1>3, <1>4 DEF Simulated

LEMMA StepSimulated ==
  ASSUME Steps, NEW H \in Nat \ {0}, Halves(H), PosInv(H),
         {"krealloc", "get_user", "entry_kmalloc"} \cap FailSites = {},
         NEW p \in Procs, Step(p) \/ Interrupted(p)
  PROVE  Simulated
<1>1. CASE Lock(p)
  BY <1>1, LockSimulated
<1>2. CASE Interrupted(p)
  BY <1>2, InterruptedSimulated
<1>3. CASE aesd_read(p)
  BY <1>3, ReadSimulated
<1>4. CASE aesd_llseek(p) \/ aesd_ioctl(p) \/ StoreSeek(p)
  BY <1>4, SeekSimulated
<1>5. CASE aesd_write(p)
  BY <1>5, WriteSimulated
<1>6. CASE aesd_write_no_room(p)
  BY <1>6, NoRoomSimulated
<1>7. CASE aesd_write_fault(p) \/ aesd_write_no_entry(p)
  BY <1>7 DEF aesd_write_fault, aesd_write_no_entry
<1>8. CASE aesd_write_byte(p)
  <2>1. Device' = LD!TakeByte(Device, NextByte(p)) /\ InLoop(p)
    BY <1>8, ByteTakenByDevice DEF Steps
  <2>2. call' = [call EXCEPT ![p].bytes_written = @ + 1]
    BY <1>8 DEF aesd_write_byte
  <2> QED
    BY <2>1, <2>2, ByteSimulated
<1>9. CASE aesd_write_line(p)
  BY <1>9, LineSimulated
<1>10. CASE aesd_write_done(p)
  BY <1>10, DoneSimulated
<1>11. CASE Leave(p)
  BY <1>11, LeaveSimulated
<1> QED
  BY <1>1, <1>2, <1>3, <1>4, <1>5, <1>6, <1>7, <1>8, <1>9, <1>10, <1>11 DEF Step

LEMMA NextSimulated ==
  ASSUME LineInv, LineInv', LinesInv, [LinesNext]_<<vars, snap>>, NEW H \in Nat \ {0}, Halves(H), PosInv(H),
         {"krealloc", "get_user", "entry_kmalloc"} \cap FailSites = {}
  PROVE  Simulated
<1>1. CASE UNCHANGED <<vars, snap>>
  <2>1. UNCHANGED <<loaded, dev, heap, call>> /\ snap' = snap
    BY <1>1 DEF vars, dev
  <2> QED
    BY <2>1, IdleSimulated
<1>2. CASE LinesNext
  <2>0. Steps /\ Snap
    BY <1>2 DEF Steps, LinesNext
  <2>1. CASE aesd_init_module \/ aesd_cleanup_module
    BY <2>0, <2>1, ResetSimulated
  <2>2. ASSUME NEW f \in Files, aesd_open(f) \/ aesd_release(f) PROVE Simulated
    <3>1. UNCHANGED <<loaded, dev, heap, call>>
      BY <2>2 DEF aesd_open, aesd_release
    <3> QED
      BY <2>0, <3>1, IdleSimulated
  <2>3. ASSUME NEW p \in Procs, Step(p) \/ Interrupted(p) PROVE Simulated
    BY <2>0, <2>3, StepSimulated
  <2>4. ASSUME NEW p \in Procs, NEW f \in Files, NEW req \in Requests, Enter(p, f, req) PROVE Simulated
    BY <2>0, <2>4, EnterSimulated
  <2> QED
    BY <1>2, <2>1, <2>2, <2>3, <2>4 DEF LinesNext, Next
<1> QED
  BY <1>1, <1>2

LEMMA LinesStart ==
  ASSUME LinesInit
  PROVE  LinesInv /\ LD!Init
<1>1. ~loaded /\ call = [p \in Procs |-> NoCall] /\ snap = Device
  BY DEF LinesInit, Init
<1>2. snap = <<<<>>, <<>>>>
  BY <1>1 DEF Device
<1>3. \A p \in Procs : call[p] = NoCall /\ NoCall.pc = "idle"
  BY <1>1 DEF NoCall
<1>4. LinesInv
  <2>1. snap \in Devices
    BY <1>2, EmptyDevice
  <2> QED
    BY <1>1, <1>3, <2>1 DEF LinesInv, Ready
<1>5. [p \in Procs |-> AbstractCall(call[p])] = [p \in Procs |-> [st |-> "idle"]]
  BY <1>3 DEF AbstractCall
<1>6. LD!Init
  BY <1>2, <1>5 DEF LD!Init
<1> QED
  BY <1>4, <1>6

-----------------------------------------------------------------------------
(* The theorem.                                                              *)

\* Reads and writes are linearizable, for any number of processes that share any
\* number of files: each takes effect at one moment, a write as a whole unless an
\* allocation fails, and a read sees no write half done.  The hypotheses name what
\* the code does not survive: a krealloc that fails loses the unfinished line, and
\* a fault or a missing entry leaves a byte in the line that its write did not
\* take.
THEOREM DriverLinearizable ==
  ASSUME NEW H \in Nat \ {0}, Halves(H),
         {"krealloc", "get_user", "entry_kmalloc"} \cap FailSites = {}
  PROVE  LinesSpec /\ []Fits(H) => Linearizable
<1>1. LinesSpec => Spec
  <2>1. LinesInit => Init
    BY DEF LinesInit
  <2>2. [LinesNext]_<<vars, snap>> => [Next]_vars
    BY DEF LinesNext, vars
  <2> QED
    BY <2>1, <2>2, PTL DEF LinesSpec, Spec
<1>2. Spec => []LineInv
  <2>1. PICK S : S = Bytes
    OBVIOUS
  <2>2. S \subseteq Bytes /\ Stays(S)
    <3>1. ASSUME NEW r \in Requests, r.op = "write", r.data \in Seq(Bytes), NEW i \in 1 .. Len(r.data)
          PROVE  r.data[i] \in Bytes
      BY <3>1, ElementOfSeq
    <3> QED
      BY <2>1, <3>1, ModelValuesAssumption DEF Stays
  <2>3. Spec => [](CharInv /\ BytesInv(S))
    BY <2>2, BytesAlways
  <2>4. CharInv /\ BytesInv(S) => LineInv
    BY <2>1 DEF LineInv
  <2> QED
    BY <2>3, <2>4, PTL
<1>3. LinesInit => PosInv(H) /\ LinesInv /\ LD!Init
  <2> SUFFICES ASSUME LinesInit PROVE PosInv(H) /\ LinesInv /\ LD!Init
    OBVIOUS
  <2>1. 0 \in 0 .. H - 1 /\ NoCall.pos = 0
    BY DEF NoCall
  <2> QED
    BY <2>1, LinesStart DEF LinesInit, Init, PosInv
<1>4. LineInv /\ LineInv' /\ Fits(H) /\ PosInv(H) /\ LinesInv /\ [LinesNext]_<<vars, snap>> =>
        PosInv(H)' /\ LinesInv' /\ [LD!Next]_(LD!vars)
  <2> SUFFICES ASSUME LineInv, LineInv', Fits(H), PosInv(H), LinesInv, [LinesNext]_<<vars, snap>>
               PROVE  PosInv(H)' /\ LinesInv' /\ [LD!Next]_(LD!vars)
    OBVIOUS
  <2>1. CharInv /\ [Next]_vars
    BY DEF LineInv, LinesNext, vars
  <2>2. PosInv(H)'
    BY <2>1, PositionsKept
  <2>3. Simulated
    BY NextSimulated
  <2> QED
    BY <2>2, <2>3 DEF Simulated
<1> QED
  BY <1>1, <1>2, <1>3, <1>4, PTL DEF LinesSpec, Linearizable, LD!Spec
=============================================================================
