--------------------------- MODULE RecvLinesProofs ---------------------------
(* What RecvLines promises, for every stream, every way of cutting it into    *)
(* chunks and every first capacity of the buffer.                             *)
EXTENDS RecvLines, LeastNumber, SequenceTheorems

-----------------------------------------------------------------------------
(* The functions of vector.c.                                                 *)

VectorRecord == [buf : Seq(Bytes) \union {NULL}, len : Nat, cap : Nat]

(* The buffer is as long as its capacity says; it is missing when malloc has  *)
(* failed.                                                                    *)
Good(vec) ==
  /\ vec \in VectorRecord
  /\ vec.len <= vec.cap
  /\ IF vec.buf = NULL THEN vec.cap = 0 ELSE Len(vec.buf) = vec.cap

(* A buffer that is a function is a sequence, and not missing.                *)
LEMMA FunctionIsBuffer ==
  ASSUME NEW n \in Nat, NEW f \in [1 .. n -> Bytes]
  PROVE  f \in Seq(Bytes) /\ Len(f) = n /\ f # NULL
BY BytesAssumption

(* What vector_init and vector_close leave.                                   *)
LEMMA NewVectors ==
  /\ Good(InitVector) /\ InitVector.buf # NULL /\ InitVector.len = 0
  /\ Good(ClosedVector) /\ ClosedVector.buf = NULL /\ ClosedVector.len = 0
  /\ InitFailed(ClosedVector) = ClosedVector
<1>1. Zeroes(VECTOR_BASE_SIZE) \in [1 .. VECTOR_BASE_SIZE -> Bytes]
  BY BytesAssumption DEF Zeroes
<1>2. /\ Zeroes(VECTOR_BASE_SIZE) \in Seq(Bytes) /\ Zeroes(VECTOR_BASE_SIZE) # NULL
      /\ Len(Zeroes(VECTOR_BASE_SIZE)) = VECTOR_BASE_SIZE
  BY <1>1, BaseAssumption, FunctionIsBuffer
<1> QED
  BY <1>2, BaseAssumption DEF InitVector, ClosedVector, InitFailed, Good, VectorRecord

(* The bytes of a buffer that is there.                                       *)
LEMMA BufferIsFunction ==
  ASSUME NEW vec, Good(vec), vec.buf # NULL
  PROVE  /\ vec.buf \in Seq(Bytes) /\ Len(vec.buf) = vec.cap
         /\ DOMAIN vec.buf = 1 .. vec.cap
         /\ \A i \in 1 .. vec.cap : vec.buf[i] \in Bytes
BY DEF Good, VectorRecord

(* A pass of the loop of vector_append keeps the bytes of the buffer.         *)
LEMMA GrownKeeps ==
  ASSUME NEW vec, Good(vec)
  PROVE  /\ Good(Grown(vec)) /\ Grown(vec).buf # NULL /\ Grown(vec).len = vec.len
         /\ \A i \in 1 .. vec.len : Grown(vec).buf[i] = vec.buf[i]
<1> DEFINE f == [i \in 1 .. 2 * vec.cap |-> IF i <= vec.len THEN vec.buf[i] ELSE ZERO]
<1>0. vec.len \in Nat /\ vec.cap \in Nat /\ vec.len <= vec.cap /\ 2 * vec.cap \in Nat
  BY DEF Good, VectorRecord
<1>1. f \in [1 .. 2 * vec.cap -> Bytes]
  <2>1. CASE vec.buf = NULL
    BY <1>0, <2>1 DEF Good
  <2>2. CASE vec.buf # NULL
    BY <1>0, <2>2, BufferIsFunction, BytesAssumption
  <2> QED
    BY <2>1, <2>2
<1>2. f \in Seq(Bytes) /\ Len(f) = 2 * vec.cap /\ f # NULL
  BY <1>0, <1>1, FunctionIsBuffer
<1>3. \A i \in 1 .. vec.len : f[i] = vec.buf[i]
  BY <1>0
<1>4. Grown(vec) = [vec EXCEPT !.cap = 2 * vec.cap, !.buf = f]
  BY DEF Grown
<1> HIDE DEF f
<1>5. Grown(vec).cap = 2 * vec.cap /\ Grown(vec).buf = f /\ Grown(vec).len = vec.len
  BY <1>4 DEF Good, VectorRecord
<1>6. Grown(vec) \in VectorRecord
  BY <1>0, <1>2, <1>4 DEF Good, VectorRecord
<1> QED
  BY <1>0, <1>2, <1>3, <1>5, <1>6 DEF Good

(* vector_append puts the data behind the bytes of the buffer.                *)
LEMMA AppendedIs ==
  ASSUME NEW vec, Good(vec), NEW data \in Seq(Bytes), data # <<>>, ~TooSmall(vec, data)
  PROVE  /\ Good(Appended(vec, data)) /\ vec.buf # NULL /\ Appended(vec, data).buf # NULL
         /\ Appended(vec, data).len = vec.len + Len(data)
         /\ \A i \in 1 .. vec.len : Appended(vec, data).buf[i] = vec.buf[i]
         /\ \A i \in 1 .. Len(data) : Appended(vec, data).buf[vec.len + i] = data[i]
<1> DEFINE f == [i \in DOMAIN vec.buf |->
                   IF i \in vec.len + 1 .. vec.len + Len(data)
                     THEN data[i - vec.len] ELSE vec.buf[i]]
<1>0. /\ vec.len \in Nat /\ vec.cap \in Nat /\ vec.len + Len(data) <= vec.cap
      /\ Len(data) \in Nat /\ Len(data) > 0
  BY DEF Good, VectorRecord, TooSmall
<1>1. vec.buf # NULL
  BY <1>0 DEF Good
<1>2. DOMAIN vec.buf = 1 .. vec.cap /\ \A i \in 1 .. vec.cap : vec.buf[i] \in Bytes
  BY <1>1, BufferIsFunction
<1>3. f \in [1 .. vec.cap -> Bytes]
  <2>1. \A i \in vec.len + 1 .. vec.len + Len(data) : i - vec.len \in 1 .. Len(data)
    BY <1>0
  <2>2. \A i \in 1 .. Len(data) : data[i] \in Bytes
    BY ElementOfSeq
  <2> QED
    BY <1>2, <2>1, <2>2
<1>4. f \in Seq(Bytes) /\ Len(f) = vec.cap /\ f # NULL
  BY <1>0, <1>3, FunctionIsBuffer
<1>5. \A i \in 1 .. vec.len : f[i] = vec.buf[i]
  BY <1>0, <1>2
<1>6. \A i \in 1 .. Len(data) : f[vec.len + i] = data[i]
  BY <1>0, <1>2
<1>7. Appended(vec, data) = [vec EXCEPT !.len = vec.len + Len(data), !.buf = f]
  BY DEF Appended
<1> HIDE DEF f
<1>8. /\ Appended(vec, data).cap = vec.cap /\ Appended(vec, data).buf = f
      /\ Appended(vec, data).len = vec.len + Len(data)
  BY <1>7 DEF Good, VectorRecord
<1>9. Appended(vec, data) \in VectorRecord
  <2>1. \A n \in Nat : [vec EXCEPT !.len = n, !.buf = f] \in VectorRecord
    BY <1>4 DEF Good, VectorRecord
  <2>2. vec.len + Len(data) \in Nat
    BY <1>0
  <2> QED
    BY <2>1, <2>2, <1>7
<1> QED
  BY <1>0, <1>1, <1>4, <1>5, <1>6, <1>8, <1>9 DEF Good

(* vector_carryover keeps the bytes behind the used ones in a buffer without  *)
(* others; a memcpy that copies forward keeps their order.                    *)
LEMMA CarryoverKeeps ==
  ASSUME NEW vec, Good(vec), NEW used \in Nat, NEW order,
         0 < used, used < vec.len
  PROVE  /\ Good(Carryover(vec, used, order)) /\ Carryover(vec, used, order).buf # NULL
         /\ Carryover(vec, used, order).len = vec.len - used
         /\ \A i \in 1 .. vec.len - used : \E j \in used + 1 .. vec.len :
              Carryover(vec, used, order).buf[i] = vec.buf[j]
         /\ order = "forward" => \A i \in 1 .. vec.len - used :
              Carryover(vec, used, order).buf[i] = vec.buf[used + i]
<1> DEFINE n == vec.len - used
           f == [i \in 1 .. vec.cap |->
                   IF i <= vec.len - used
                     THEN vec.buf[CopiedFrom(order, used, vec.len - used, i)] ELSE vec.buf[i]]
<1>0. vec.len \in Nat /\ vec.cap \in Nat /\ vec.len <= vec.cap /\ n \in Nat
  BY DEF Good, VectorRecord
<1>1. vec.buf # NULL
  BY <1>0 DEF Good
<1>2. \A i \in 1 .. vec.cap : vec.buf[i] \in Bytes
  BY <1>1, BufferIsFunction
<1>3. ASSUME NEW i \in 1 .. n
      PROVE  CopiedFrom(order, used, n, i) \in used + 1 .. vec.len
  <2>1. CASE order = "forward"
    BY <1>0, <2>1 DEF CopiedFrom
  <2>2. CASE order # "forward"
    <3> DEFINE m == n - i + used
    <3>1. m \in Nat /\ m >= used
      BY <1>0
    <3>2. used <= used * (m \div used) /\ used * (m \div used) <= m /\ m \div used \in Nat
      <4> HIDE DEF m
      <4> QED BY <3>1
    <3> QED
      BY <1>0, <2>2, <3>2 DEF CopiedFrom
  <2> QED
    BY <2>1, <2>2
<1>4. f \in [1 .. vec.cap -> Bytes]
  BY <1>0, <1>2, <1>3
<1>5. f \in Seq(Bytes) /\ Len(f) = vec.cap /\ f # NULL
  BY <1>0, <1>4, FunctionIsBuffer
<1>6. \A i \in 1 .. n : \E j \in used + 1 .. vec.len : f[i] = vec.buf[j]
  BY <1>0, <1>3
<1>7. order = "forward" => \A i \in 1 .. n : f[i] = vec.buf[used + i]
  BY <1>0 DEF CopiedFrom
<1>8. Carryover(vec, used, order) = [vec EXCEPT !.len = vec.len - used, !.buf = f]
  BY DEF Carryover
<1> HIDE DEF f
<1>9. /\ Carryover(vec, used, order).cap = vec.cap /\ Carryover(vec, used, order).buf = f
      /\ Carryover(vec, used, order).len = vec.len - used
  BY <1>8 DEF Good, VectorRecord
<1>10. Carryover(vec, used, order) \in VectorRecord
  BY <1>0, <1>5, <1>8 DEF Good, VectorRecord
<1> QED
  BY <1>0, <1>5, <1>6, <1>7, <1>9, <1>10 DEF Good

(* vector_find finds the first token at or behind an offset.                  *)
LEMMA FindsFirst ==
  ASSUME NEW vec, Good(vec), NEW offset \in Nat, NEW token
  PROVE  /\ Found(vec, offset, token) <=> \E i \in offset + 1 .. vec.len : vec.buf[i] = token
         /\ Found(vec, offset, token) =>
              /\ vector_find(vec, offset, token) + 1 \in offset + 1 .. vec.len
              /\ vec.buf[vector_find(vec, offset, token) + 1] = token
              /\ \A i \in offset + 1 .. vector_find(vec, offset, token) : vec.buf[i] # token
<1> DEFINE M == Matches(vec, offset, token)
<1>0. vec.len \in Nat
  BY DEF Good, VectorRecord
<1>1. M \in SUBSET Nat
  BY <1>0 DEF Matches
<1>2. \A i \in offset + 1 .. vec.len : vec.buf[i] = token <=> i - 1 \in M
  BY <1>0 DEF Matches
<1>3. \A i \in M : i + 1 \in offset + 1 .. vec.len
  BY <1>0 DEF Matches
<1>4. M # {} => Min(M) \in M /\ \A i \in M : Min(M) <= i
  BY <1>1, MinOfSet
<1>5. Found(vec, offset, token) <=> \E i \in offset + 1 .. vec.len : vec.buf[i] = token
  <2>1. ASSUME NEW i \in M
        PROVE  vec.buf[i + 1] = token
    BY DEF Matches
  <2> HIDE DEF M
  <2>2. (M # {}) <=> \E i \in offset + 1 .. vec.len : vec.buf[i] = token
    BY <1>2, <1>3, <2>1
  <2> QED
    BY <2>2 DEF Found, M
<1>6. ASSUME Found(vec, offset, token)
      PROVE  /\ Min(M) + 1 \in offset + 1 .. vec.len
             /\ vec.buf[Min(M) + 1] = token
             /\ \A i \in offset + 1 .. Min(M) : vec.buf[i] # token
  <2>1. Min(M) \in M /\ Min(M) \in Nat /\ \A i \in M : Min(M) <= i
    BY <1>1, <1>4, <1>6 DEF Found
  <2>2. Min(M) + 1 \in offset + 1 .. vec.len /\ Min(M) + 1 - 1 = Min(M)
    BY <1>3, <2>1
  <2>3. \A i \in offset + 1 .. Min(M) : i \in offset + 1 .. vec.len /\ ~(Min(M) <= i - 1)
    BY <1>0, <2>1, <2>2
  <2> QED
    BY <1>2, <2>1, <2>2, <2>3
<1> QED
  BY <1>5, <1>6 DEF vector_find

-----------------------------------------------------------------------------
(* The invariant.                                                             *)

Running == {"init", "packet", "search", "recv", "append", "write", "scan", "line"}
Writing == {"write", "scan", "line"}

(* How much of the buffer has been used.                                      *)
Used == IF pc \in Writing THEN written ELSE 0

(* The byte of the client at index i of the buffer: one of them is set aside  *)
(* while the terminator is in its place.                                      *)
Byte(i) == IF pc = "scan" /\ i = LineEnd + 1 THEN temp_char ELSE recv_vec.buf[i]

(* The last thing written was the end of a line.                              *)
Ended == taken = <<>> \/ taken[Len(taken)] = NEWLINE

Line == SubSeq(recv_vec.buf, written + 1, LineEnd)

BaseInv ==
  /\ pc \in Running \union {"exit", "done"}
  /\ device \in BOOLEAN
  /\ Good(recv_vec)
  /\ recv_buf \in Seq(Bytes) /\ received \in Nat /\ written \in Nat /\ temp_char \in Bytes
  /\ stream \in Seq(Bytes) /\ taken \in Seq(Bytes)
  /\ pc = "init" => recv_vec = ClosedVector
  /\ pc = "append" => recv_buf # <<>> /\ received = Len(recv_buf)
  /\ pc = "search" => received <= recv_vec.len
  /\ pc \in Writing => /\ written <= recv_vec.len /\ recv_vec.buf # NULL
                       /\ written = 0 => Found(recv_vec, written, NEWLINE)
  /\ pc \in {"scan", "line"} => device /\ Found(recv_vec, written, NEWLINE)

(* No end of a line in what was searched.                                     *)
SearchInv ==
  /\ pc \in {"packet", "recv", "append"} => \A i \in 1 .. recv_vec.len : recv_vec.buf[i] # NEWLINE
  /\ pc = "search" => \A i \in 1 .. recv_vec.len - received : recv_vec.buf[i] # NEWLINE

(* Between lines, or the rest of the line is in the buffer.                   *)
WholeInv ==
  pc \in Running =>
    \/ Ended
    \/ pc = "write" /\ ~device /\ Found(recv_vec, written, NEWLINE)

(* taken and the unused bytes of the buffer are the stream.                   *)
LostInv == pc \in Running =>
  /\ Len(stream) = Len(taken) + (recv_vec.len - Used)
  /\ \A i \in 1 .. Len(taken) : stream[i] = taken[i]
  /\ \A i \in 1 .. recv_vec.len - Used : stream[Len(taken) + i] = Byte(Used + i)

(* The terminator is there while a line is scanned; a line that goes on to be *)
(* written is not a command.                                                  *)
ScanInv ==
  /\ pc = "scan" /\ LineEnd < recv_vec.cap => recv_vec.buf[LineEnd + 1] = ZERO
  /\ pc = "line" => ~IsCommand(Line)
  /\ CommandsExact

IInv == BaseInv /\ SearchInv /\ WholeInv /\ LostInv /\ ScanInv

-----------------------------------------------------------------------------
(* The end of a line, and the byte behind it.                                 *)

(* LineEnd is behind the first end of a line that has not been used.          *)
LEMMA LineEndIs ==
  ASSUME BaseInv, Found(recv_vec, written, NEWLINE)
  PROVE  /\ LineEnd \in written + 1 .. recv_vec.len
         /\ recv_vec.buf[LineEnd] = NEWLINE
         /\ \A i \in written + 1 .. LineEnd - 1 : recv_vec.buf[i] # NEWLINE
         /\ recv_vec.buf # NULL /\ recv_vec.len \in Nat /\ recv_vec.cap \in Nat
         /\ recv_vec.len <= recv_vec.cap /\ LineEnd \in Nat /\ written \in Nat
<1> DEFINE m == vector_find(recv_vec, written, NEWLINE)
<1>0. Good(recv_vec) /\ written \in Nat /\ recv_vec.len \in Nat /\ recv_vec.cap \in Nat
      /\ recv_vec.len <= recv_vec.cap
  BY DEF BaseInv, Good, VectorRecord
<1>1. /\ m + 1 \in written + 1 .. recv_vec.len /\ recv_vec.buf[m + 1] = NEWLINE
      /\ \A i \in written + 1 .. m : recv_vec.buf[i] # NEWLINE
  BY <1>0, FindsFirst
<1>2. m \in Nat
  <2>1. Matches(recv_vec, written, NEWLINE) \in SUBSET Nat
    BY <1>0 DEF Matches
  <2> QED
    BY <2>1, MinOfSet DEF Found, vector_find
<1>3. recv_vec.buf # NULL
  BY <1>0, <1>1 DEF Good
<1> QED
  BY <1>0, <1>1, <1>2, <1>3 DEF LineEnd

(* The first end of a line is what vector_find finds.                         *)
LEMMA LineEndUnique ==
  ASSUME NEW vec, Good(vec), NEW offset \in Nat, NEW e \in offset + 1 .. vec.len,
         vec.buf[e] = NEWLINE, \A i \in offset + 1 .. e - 1 : vec.buf[i] # NEWLINE
  PROVE  Found(vec, offset, NEWLINE) /\ vector_find(vec, offset, NEWLINE) + 1 = e
<1> DEFINE m == vector_find(vec, offset, NEWLINE)
<1>0. vec.len \in Nat
  BY DEF Good, VectorRecord
<1>1. Found(vec, offset, NEWLINE)
  BY FindsFirst
<1>2. /\ m + 1 \in offset + 1 .. vec.len /\ vec.buf[m + 1] = NEWLINE
      /\ \A i \in offset + 1 .. m : vec.buf[i] # NEWLINE
  BY <1>1, FindsFirst
<1>3. m \in Nat
  <2>1. Matches(vec, offset, NEWLINE) \in SUBSET Nat
    BY <1>0 DEF Matches
  <2> QED
    BY <1>1, <2>1, MinOfSet DEF Found, vector_find
<1> HIDE DEF m
<1>4. ~(m + 1 < e)
  BY <1>0, <1>2, <1>3
<1>5. ~(e < m + 1)
  BY <1>0, <1>2, <1>3
<1> QED
  BY <1>0, <1>1, <1>3, <1>4, <1>5 DEF m

(* A store inside the buffer changes that byte of it and no other; a store    *)
(* behind the buffer changes none of the vector's bytes.                      *)
LEMMA StoredKeeps ==
  ASSUME Good(recv_vec), recv_vec.buf # NULL, NEW e \in Nat, NEW byte \in Bytes
  PROVE  /\ Good(Stored(e, byte)) /\ Stored(e, byte).buf # NULL
         /\ Stored(e, byte).len = recv_vec.len /\ Stored(e, byte).cap = recv_vec.cap
         /\ \A j \in 1 .. recv_vec.cap :
              Stored(e, byte).buf[j] = IF j = e + 1 THEN byte ELSE recv_vec.buf[j]
<1>0. /\ recv_vec.len \in Nat /\ recv_vec.cap \in Nat
      /\ recv_vec.buf \in Seq(Bytes) /\ Len(recv_vec.buf) = recv_vec.cap
  BY DEF Good, VectorRecord
<1>1. CASE InBuffer(e)
  <2> DEFINE i == e + 1
             f == [recv_vec.buf EXCEPT ![i] = byte]
  <2>0. i \in 1 .. recv_vec.cap
    BY <1>0, <1>1 DEF InBuffer
  <2>1. /\ f \in Seq(Bytes) /\ Len(f) = recv_vec.cap
        /\ \A j \in 1 .. recv_vec.cap : f[j] = IF j = i THEN byte ELSE recv_vec.buf[j]
    <3> HIDE DEF i
    <3> QED
      BY <1>0, <2>0, ExceptSeq
  <2>2. f # NULL
    BY <2>1, BytesAssumption
  <2>3. Stored(e, byte) = [recv_vec EXCEPT !.buf = f]
    BY <1>1 DEF Stored
  <2> HIDE DEF f
  <2>4. Stored(e, byte).buf = f /\ Stored(e, byte).len = recv_vec.len
        /\ Stored(e, byte).cap = recv_vec.cap /\ Stored(e, byte) \in VectorRecord
    BY <2>1, <2>3 DEF Good, VectorRecord
  <2> QED
    BY <2>1, <2>2, <2>4 DEF Good
<1>2. CASE ~InBuffer(e)
  <2>1. Stored(e, byte) = recv_vec /\ ~(e < recv_vec.cap)
    BY <1>2 DEF Stored, InBuffer
  <2> QED
    BY <1>0, <2>1
<1> QED
  BY <1>1, <1>2

(* The terminator replaces a byte that is not part of the line, and the byte  *)
(* is set aside.                                                              *)
LEMMA TerminatorIs ==
  ASSUME BaseInv, PutTerminator
  PROVE  /\ Good(recv_vec') /\ recv_vec'.buf # NULL
         /\ recv_vec'.len = recv_vec.len /\ recv_vec'.cap = recv_vec.cap
         /\ LineEnd' = LineEnd /\ Found(recv_vec, written, NEWLINE)'
         /\ \A i \in 1 .. recv_vec.cap : i # LineEnd + 1 => recv_vec'.buf[i] = recv_vec.buf[i]
         /\ LineEnd < recv_vec.cap => /\ recv_vec'.buf[LineEnd + 1] = ZERO
                                      /\ temp_char' = recv_vec.buf[LineEnd + 1]
         /\ temp_char' \in Bytes
<1>0. Good(recv_vec) /\ Found(recv_vec, written, NEWLINE) /\ written' = written
  BY DEF BaseInv, PutTerminator
<1>1. /\ LineEnd \in written + 1 .. recv_vec.len /\ recv_vec.buf[LineEnd] = NEWLINE
      /\ \A i \in written + 1 .. LineEnd - 1 : recv_vec.buf[i] # NEWLINE
      /\ recv_vec.buf # NULL /\ recv_vec.len \in Nat /\ recv_vec.cap \in Nat
      /\ recv_vec.len <= recv_vec.cap /\ LineEnd \in Nat /\ written \in Nat
  BY <1>0, LineEndIs
<1>2. PICK e \in Nat : e = LineEnd
  BY <1>1
<1>3. recv_vec' = Stored(e, ZERO)
  BY <1>2 DEF PutTerminator, Terminated
<1>4. /\ Good(recv_vec') /\ recv_vec'.buf # NULL
      /\ recv_vec'.len = recv_vec.len /\ recv_vec'.cap = recv_vec.cap
      /\ \A j \in 1 .. recv_vec.cap :
           recv_vec'.buf[j] = IF j = e + 1 THEN ZERO ELSE recv_vec.buf[j]
  <2>1. Good(recv_vec) /\ recv_vec.buf # NULL /\ ZERO \in Bytes
    BY <1>0, <1>1, BytesAssumption
  <2>2. /\ Good(Stored(e, ZERO)) /\ Stored(e, ZERO).buf # NULL
        /\ Stored(e, ZERO).len = recv_vec.len /\ Stored(e, ZERO).cap = recv_vec.cap
        /\ \A j \in 1 .. recv_vec.cap :
             Stored(e, ZERO).buf[j] = IF j = e + 1 THEN ZERO ELSE recv_vec.buf[j]
    BY <2>1, StoredKeeps
  <2> QED
    BY <1>3, <2>2
<1>5. /\ e \in written + 1 .. recv_vec'.len /\ recv_vec'.buf[e] = NEWLINE
      /\ \A i \in written + 1 .. e - 1 : recv_vec'.buf[i] # NEWLINE
  BY <1>1, <1>2, <1>4
<1>6. Found(recv_vec', written, NEWLINE) /\ vector_find(recv_vec', written, NEWLINE) + 1 = e
  BY <1>1, <1>4, <1>5, LineEndUnique
<1>7. temp_char' \in IF e < recv_vec.cap THEN {recv_vec.buf[e + 1]} ELSE Bytes
  BY <1>2 DEF PutTerminator, InBuffer
<1>8. e < recv_vec.cap => recv_vec.buf[e + 1] \in Bytes
  BY <1>0, <1>1, BufferIsFunction
<1>9. LineEnd' = e /\ Found(recv_vec, written, NEWLINE)'
  BY <1>0, <1>6 DEF LineEnd
<1>10. temp_char' \in Bytes
  BY <1>7, <1>8, BytesAssumption
<1>11. e < recv_vec.cap => e + 1 \in 1 .. recv_vec.cap
  BY <1>1
<1> QED
  BY <1>2, <1>4, <1>7, <1>9, <1>10, <1>11

(* Then it is put back.                                                       *)
LEMMA RestoredIs ==
  ASSUME BaseInv, ScanLine
  PROVE  /\ Good(recv_vec') /\ recv_vec'.buf # NULL
         /\ recv_vec'.len = recv_vec.len /\ recv_vec'.cap = recv_vec.cap
         /\ \A i \in 1 .. recv_vec.cap : recv_vec'.buf[i] = Byte(i)
         /\ Found(recv_vec', written, NEWLINE)
         /\ vector_find(recv_vec', written, NEWLINE) + 1 = LineEnd
<1>0. Good(recv_vec) /\ Found(recv_vec, written, NEWLINE) /\ temp_char \in Bytes /\ pc = "scan"
  BY DEF BaseInv, ScanLine
<1>1. /\ LineEnd \in written + 1 .. recv_vec.len /\ recv_vec.buf[LineEnd] = NEWLINE
      /\ \A i \in written + 1 .. LineEnd - 1 : recv_vec.buf[i] # NEWLINE
      /\ recv_vec.buf # NULL /\ recv_vec.len \in Nat /\ recv_vec.cap \in Nat
      /\ recv_vec.len <= recv_vec.cap /\ LineEnd \in Nat /\ written \in Nat
  BY <1>0, LineEndIs
<1>2. PICK e \in Nat : e = LineEnd
  BY <1>1
<1>3. recv_vec' = Stored(e, temp_char)
  BY <1>2 DEF ScanLine, Restored
<1>4. /\ Good(recv_vec') /\ recv_vec'.buf # NULL
      /\ recv_vec'.len = recv_vec.len /\ recv_vec'.cap = recv_vec.cap
      /\ \A j \in 1 .. recv_vec.cap :
           recv_vec'.buf[j] = IF j = e + 1 THEN temp_char ELSE recv_vec.buf[j]
  <2>1. Good(recv_vec) /\ recv_vec.buf # NULL /\ temp_char \in Bytes
    BY <1>0, <1>1, BytesAssumption
  <2>2. /\ Good(Stored(e, temp_char)) /\ Stored(e, temp_char).buf # NULL
        /\ Stored(e, temp_char).len = recv_vec.len /\ Stored(e, temp_char).cap = recv_vec.cap
        /\ \A j \in 1 .. recv_vec.cap :
             Stored(e, temp_char).buf[j] = IF j = e + 1 THEN temp_char ELSE recv_vec.buf[j]
    BY <2>1, StoredKeeps
  <2> QED
    BY <1>3, <2>2
<1>5. /\ e \in written + 1 .. recv_vec'.len /\ recv_vec'.buf[e] = NEWLINE
      /\ \A i \in written + 1 .. e - 1 : recv_vec'.buf[i] # NEWLINE
  BY <1>1, <1>2, <1>4
<1>6. Found(recv_vec', written, NEWLINE) /\ vector_find(recv_vec', written, NEWLINE) + 1 = e
  BY <1>1, <1>4, <1>5, LineEndUnique
<1> QED
  BY <1>0, <1>2, <1>4, <1>6 DEF Byte

-----------------------------------------------------------------------------
(* What the thread may use of a line.                                         *)

(* A write takes a part of the line; the driver takes all of it.              *)
LEMMA WriteIs ==
  ASSUME BaseInv, WriteLine, pc' = "write"
  PROVE  \E rv \in Nat \ {0} :
           /\ rv \in 1 .. LineEnd - written
           /\ device => rv = LineEnd - written
           /\ taken' = taken \o SubSeq(recv_vec.buf, written + 1, written + rv)
           /\ written' = written + rv
<1>1. Found(recv_vec, written, NEWLINE)
  BY DEF WriteLine
<1>2. /\ LineEnd \in written + 1 .. recv_vec.len /\ LineEnd \in Nat /\ written \in Nat
      /\ recv_vec.len \in Nat
  BY <1>1, LineEndIs
<1>3. PICK rv \in (IF device THEN LineEnd - written ELSE 1) .. LineEnd - written :
          /\ taken' = taken \o SubSeq(recv_vec.buf, written + 1, written + rv)
          /\ written' = written + rv
  BY DEF WriteLine
<1>4. rv \in 1 .. LineEnd - written /\ rv \in Nat \ {0} /\ (device => rv = LineEnd - written)
  BY <1>2, <1>3
<1> QED
  BY <1>3, <1>4

(* A part of the buffer that is handed on.                                    *)
LEMMA PartIs ==
  ASSUME BaseInv, recv_vec.buf # NULL,
         NEW m \in Nat, NEW n \in Nat, m <= n, n <= recv_vec.cap
  PROVE  /\ SubSeq(recv_vec.buf, m + 1, n) \in Seq(Bytes)
         /\ Len(SubSeq(recv_vec.buf, m + 1, n)) = n - m
         /\ \A i \in 1 .. n - m : SubSeq(recv_vec.buf, m + 1, n)[i] = recv_vec.buf[m + i]
<1>1. Good(recv_vec) /\ recv_vec.cap \in Nat
  BY DEF BaseInv, Good, VectorRecord
<1>2. \A i \in m + 1 .. n : recv_vec.buf[i] \in Bytes
  BY <1>1, BufferIsFunction
<1>3. /\ SubSeq(recv_vec.buf, m + 1, n) \in Seq(Bytes)
      /\ Len(SubSeq(recv_vec.buf, m + 1, n)) = IF m + 1 <= n THEN n - (m + 1) + 1 ELSE 0
      /\ \A i \in 1 .. n - (m + 1) + 1 : SubSeq(recv_vec.buf, m + 1, n)[i] = recv_vec.buf[m + 1 + i - 1]
  <2>1. m + 1 \in Int /\ n \in Int
    OBVIOUS
  <2> QED
    BY <1>2, <2>1, SubSeqProperties
<1>4. \A i \in 1 .. n - m : recv_vec.buf[m + 1 + i - 1] = recv_vec.buf[m + i]
  <2>1. \A i \in 1 .. n - m : m + 1 + i - 1 = m + i
    OBVIOUS
  <2> QED
    BY <2>1
<1>5. n - (m + 1) + 1 = n - m /\ (m + 1 <= n \/ m = n)
  OBVIOUS
<1> QED
  BY <1>3, <1>4, <1>5

(* A command is the whole line; what is executed and what is written are      *)
(* taken from the buffer in order.                                            *)
LEMMA BaseKept ==
  ASSUME BaseInv, [Next]_vars
  PROVE  BaseInv'
<1>0. Good(recv_vec) /\ recv_vec.len \in Nat /\ recv_vec.cap \in Nat /\ recv_vec.len <= recv_vec.cap
  BY DEF BaseInv, Good, VectorRecord
<1>1. CASE vector_init
  BY <1>1, NewVectors DEF vector_init, BaseInv, Running, Writing, scanVars
<1>2. CASE NextPacket
  BY <1>0, <1>2 DEF NextPacket, BaseInv, Running, Writing, scanVars
<1>3. CASE Search
  <2>1. CASE Found(recv_vec, SearchedFrom, NEWLINE)
    <3>1. PICK i \in SearchedFrom + 1 .. recv_vec.len : recv_vec.buf[i] = NEWLINE
      <4>1. SearchedFrom \in Nat
        BY <1>0, <1>3 DEF Search, BaseInv, SearchedFrom
      <4>2. PICK from \in Nat : from = SearchedFrom
        BY <4>1
      <4>3. Found(recv_vec, from, NEWLINE)
        BY <2>1, <4>2
      <4>4. \E i \in from + 1 .. recv_vec.len : recv_vec.buf[i] = NEWLINE
        BY <1>0, <4>3, FindsFirst
      <4> QED
        BY <4>2, <4>4
    <3>2. i \in 0 + 1 .. recv_vec.len
      BY <1>0, <1>3, <3>1 DEF Search, BaseInv, SearchedFrom
    <3>3. Found(recv_vec, 0, NEWLINE)
      BY <1>0, <3>1, <3>2, FindsFirst
    <3>4. recv_vec.buf # NULL
      BY <1>0, <3>2 DEF Good
    <3> QED
      BY <1>0, <1>3, <2>1, <3>3, <3>4 DEF Search, BaseInv, Running, Writing, scanVars
  <2>2. CASE ~Found(recv_vec, SearchedFrom, NEWLINE)
    BY <1>3, <2>2 DEF Search, BaseInv, Running, Writing, scanVars
  <2> QED
    BY <2>1, <2>2
<1>4. CASE recv
  <2>1. \A chunk \in Chunks : chunk \in Seq(Bytes) /\ chunk # <<>> /\ Len(chunk) \in Nat
    BY ChunksAssumption
  <2> QED
    BY <1>4, <2>1 DEF recv, BaseInv, Running, Writing, scanVars
<1>5. CASE vector_append_grow
  BY <1>0, <1>5, GrownKeeps DEF vector_append_grow, BaseInv, Running, Writing, scanVars
<1>6. CASE vector_append_no_room
  BY <1>6 DEF vector_append_no_room, BaseInv, Running, Writing, scanVars
<1>7. CASE vector_append_copy
  <2>1. /\ Good(recv_vec') /\ recv_vec'.len = recv_vec.len + Len(recv_buf)
        /\ received' = Len(recv_buf) /\ Len(recv_buf) \in Nat
    BY <1>7, AppendedIs DEF vector_append_copy, BaseInv
  <2>2. stream' \in Seq(Bytes)
    BY <1>7 DEF vector_append_copy, BaseInv
  <2> QED
    BY <1>0, <1>7, <2>1, <2>2 DEF vector_append_copy, BaseInv, Running, Writing, scanVars
<1>8. CASE PutTerminator
  BY <1>0, <1>8, TerminatorIs DEF PutTerminator, BaseInv, Running, Writing
<1>9. CASE ScanLine
  <2>1. Found(recv_vec, written, NEWLINE) /\ pc = "scan"
    BY <1>9 DEF ScanLine, BaseInv
  <2>2. /\ LineEnd \in written + 1 .. recv_vec.len /\ LineEnd \in Nat /\ written \in Nat
        /\ recv_vec.buf # NULL
    BY <2>1, LineEndIs
  <2>3. SubSeq(recv_vec.buf, written + 1, LineEnd) \in Seq(Bytes)
    BY <1>0, <2>2, PartIs
  <2>4. CASE IsCommand(Scanned)
    <3>1. taken' \in Seq(Bytes)
      <4>1. taken' = taken \o SubSeq(recv_vec.buf, written + 1, LineEnd)
        BY <1>9, <2>4 DEF ScanLine
      <4> QED
        BY <2>3, <4>1 DEF BaseInv
    <3>2. written' = LineEnd /\ pc' = "write"
      BY <1>9, <2>4 DEF ScanLine
    <3>3. written' \in Nat /\ written' # 0 /\ written' <= recv_vec.len
      BY <1>0, <2>2, <3>2
    <3>4. Good(recv_vec') /\ recv_vec'.buf # NULL /\ recv_vec'.len = recv_vec.len
      BY <1>9, RestoredIs
    <3>5. UNCHANGED <<recv_buf, received, temp_char, stream, device>>
      BY <1>9 DEF ScanLine
    <3> QED
      BY <3>1, <3>2, <3>3, <3>4, <3>5 DEF BaseInv, Running, Writing
  <2>5. CASE ~IsCommand(Scanned)
    <3>1. written' = written /\ pc' = "line" /\ taken' = taken
      BY <1>9, <2>5 DEF ScanLine
    <3> QED
      BY <1>0, <1>9, <2>2, <3>1, RestoredIs DEF ScanLine, BaseInv, Running, Writing
  <2> QED
    BY <2>4, <2>5
<1>10. CASE WriteLine
  <2>1. CASE pc' = "write"
    <3>1. Found(recv_vec, written, NEWLINE) /\ pc \in Writing
      BY <1>10 DEF WriteLine, Writing
    <3>2. /\ LineEnd \in written + 1 .. recv_vec.len /\ LineEnd \in Nat /\ written \in Nat
          /\ recv_vec.buf # NULL
      BY <3>1, LineEndIs
    <3>3. PICK rv \in Nat \ {0} :
           /\ rv \in 1 .. LineEnd - written
           /\ taken' = taken \o SubSeq(recv_vec.buf, written + 1, written + rv)
           /\ written' = written + rv
      BY <1>10, <2>1, WriteIs
    <3>4. /\ written + rv \in Nat /\ written + rv <= recv_vec.len /\ written + rv # 0
          /\ written <= written + rv /\ written + rv <= recv_vec.cap
      BY <1>0, <3>2, <3>3
    <3>5. SubSeq(recv_vec.buf, written + 1, written + rv) \in Seq(Bytes)
      BY <1>0, <3>2, <3>4, PartIs
    <3>6. taken' \in Seq(Bytes)
      BY <3>3, <3>5 DEF BaseInv
    <3> QED
      BY <1>10, <2>1, <3>2, <3>3, <3>4, <3>6 DEF WriteLine, BaseInv, Running, Writing, scanVars
  <2>2. CASE pc' # "write"
    BY <1>10, <2>2 DEF WriteLine, BaseInv, Running, Writing, scanVars
  <2> QED
    BY <2>1, <2>2
<1>11. CASE CarryOrReset
  <2>1. CASE LeavesBytes
    <3>1. PICK order \in CopyOrders : recv_vec' = Carryover(recv_vec, written, order)
      BY <1>11, <2>1 DEF CarryOrReset
    <3>2. written \in Nat /\ 0 < written /\ written < recv_vec.len
      BY <1>11, <2>1 DEF CarryOrReset, LeavesBytes, BaseInv, Writing
    <3>3. Good(recv_vec')
      BY <1>0, <3>1, <3>2, CarryoverKeeps
    <3> QED
      BY <1>11, <3>3 DEF CarryOrReset, BaseInv, Running, Writing, scanVars
  <2>2. CASE ~LeavesBytes
    <3>1. Good(recv_vec')
      BY <1>11, <2>2, NewVectors DEF CarryOrReset
    <3> QED
      BY <1>11, <3>1 DEF CarryOrReset, BaseInv, Running, Writing, scanVars
  <2> QED
    BY <2>1, <2>2
<1>12. CASE thread_cleanup
  BY <1>12, NewVectors DEF thread_cleanup, BaseInv, Running, Writing, scanVars
<1>13. CASE UNCHANGED vars
  BY <1>13 DEF vars, BaseInv, scanVars, Found, Matches
<1> QED
  BY <1>1, <1>2, <1>3, <1>4, <1>5, <1>6, <1>7, <1>8, <1>9, <1>10, <1>11, <1>12, <1>13
  DEF Next, Step, Returned

(* No step leaves an end of a line behind in what was searched.               *)
LEMMA SearchKept ==
  ASSUME BaseInv, SearchInv, [Next]_vars
  PROVE  SearchInv'
<1>0. Good(recv_vec) /\ recv_vec.len \in Nat /\ recv_vec.cap \in Nat /\ recv_vec.len <= recv_vec.cap
  BY DEF BaseInv, Good, VectorRecord
<1>1. CASE vector_init
  <2>1. CASE pc' = "packet"
    <3>1. recv_vec' = InitVector
      BY <1>1, <2>1 DEF vector_init
    <3> QED
      BY <2>1, <3>1, NewVectors DEF SearchInv
  <2>2. CASE pc' = "exit"
    BY <2>2 DEF SearchInv
  <2> QED
    BY <1>1, <2>1, <2>2 DEF vector_init
<1>2. CASE NextPacket
  BY <1>0, <1>2 DEF NextPacket, SearchInv
<1>3. CASE Search
  <2>1. CASE Found(recv_vec, SearchedFrom, NEWLINE)
    BY <1>3, <2>1 DEF Search, SearchInv
  <2>2. CASE ~Found(recv_vec, SearchedFrom, NEWLINE)
    <3>1. SearchedFrom \in Nat
      BY <1>0, <1>3 DEF Search, BaseInv, SearchedFrom
    <3>2. \A i \in SearchedFrom + 1 .. recv_vec.len : recv_vec.buf[i] # NEWLINE
      BY <1>0, <2>2, <3>1, FindsFirst
    <3>3. \A i \in 1 .. SearchedFrom : recv_vec.buf[i] # NEWLINE
      BY <1>3 DEF Search, SearchInv, SearchedFrom
    <3>4. \A i \in 1 .. recv_vec.len : recv_vec.buf[i] # NEWLINE
      BY <1>0, <3>1, <3>2, <3>3
    <3> QED
      BY <1>3, <2>2, <3>4 DEF Search, SearchInv
  <2> QED
    BY <2>1, <2>2
<1>4. CASE recv
  BY <1>4 DEF recv, SearchInv
<1>5. CASE vector_append_grow
  <2>1. recv_vec'.len = recv_vec.len /\ \A i \in 1 .. recv_vec.len : recv_vec'.buf[i] = recv_vec.buf[i]
    BY <1>0, <1>5, GrownKeeps DEF vector_append_grow
  <2> QED
    BY <1>5, <2>1 DEF vector_append_grow, SearchInv
<1>6. CASE vector_append_copy
  <2>1. /\ recv_vec'.len = recv_vec.len + Len(recv_buf)
        /\ \A i \in 1 .. recv_vec.len : recv_vec'.buf[i] = recv_vec.buf[i]
        /\ received' = Len(recv_buf) /\ Len(recv_buf) \in Nat
    BY <1>6, AppendedIs DEF vector_append_copy, BaseInv
  <2>2. recv_vec'.len - received' = recv_vec.len
    BY <1>0, <2>1
  <2> QED
    BY <1>6, <2>1, <2>2 DEF vector_append_copy, SearchInv
<1>7. CASE pc' \in {"exit", "done", "write", "scan", "line"}
  BY <1>7 DEF SearchInv
<1>8. CASE CarryOrReset
  <2>1. CASE LeavesBytes
    <3>1. PICK order \in CopyOrders : recv_vec' = Carryover(recv_vec, written, order)
      BY <1>8, <2>1 DEF CarryOrReset
    <3>2. written \in Nat /\ 0 < written /\ written < recv_vec.len
      BY <1>8, <2>1 DEF CarryOrReset, LeavesBytes, BaseInv, Writing
    <3>3. recv_vec'.len = recv_vec.len - written
          /\ \A i \in 1 .. recv_vec.len - written : \E j \in written + 1 .. recv_vec.len :
               recv_vec'.buf[i] = recv_vec.buf[j]
      BY <1>0, <3>1, <3>2, CarryoverKeeps
    <3>4. \A j \in written + 1 .. recv_vec.len : recv_vec.buf[j] # NEWLINE
      BY <1>0, <1>8, <3>2, FindsFirst DEF CarryOrReset
    <3> QED
      BY <1>8, <3>3, <3>4 DEF CarryOrReset, SearchInv
  <2>2. CASE ~LeavesBytes
    <3>1. recv_vec'.len = 0
      BY <1>8, <2>2, NewVectors DEF CarryOrReset
    <3> QED
      BY <1>8, <3>1 DEF CarryOrReset, SearchInv
  <2> QED
    BY <2>1, <2>2
<1>9. CASE UNCHANGED vars
  BY <1>9 DEF vars, SearchInv
<1> QED
  BY <1>1, <1>2, <1>3, <1>4, <1>5, <1>6, <1>7, <1>8, <1>9
  DEF Next, Step, Returned, vector_append_no_room, PutTerminator, ScanLine, WriteLine, thread_cleanup

(* What taken becomes when some bytes of the buffer are used.                 *)
LEMMA TakenIs ==
  ASSUME BaseInv, recv_vec.buf # NULL, NEW rv \in Nat, written + rv <= recv_vec.len,
         taken' = taken \o SubSeq(recv_vec.buf, written + 1, written + rv)
  PROVE  /\ taken' \in Seq(Bytes) /\ Len(taken') = Len(taken) + rv /\ Len(taken) \in Nat
         /\ \A i \in 1 .. Len(taken) : taken'[i] = taken[i]
         /\ \A i \in 1 .. rv : taken'[Len(taken) + i] = recv_vec.buf[written + i]
<1>0. /\ recv_vec.len \in Nat /\ recv_vec.cap \in Nat /\ recv_vec.len <= recv_vec.cap
      /\ written \in Nat /\ taken \in Seq(Bytes) /\ Len(taken) \in Nat
  BY DEF BaseInv, Good, VectorRecord
<1>n. PICK n \in Nat : n = written + rv
  BY <1>0
<1> DEFINE part == SubSeq(recv_vec.buf, written + 1, n)
<1>1. /\ part \in Seq(Bytes) /\ Len(part) = rv
      /\ \A i \in 1 .. rv : part[i] = recv_vec.buf[written + i]
  <2>1. written <= n /\ n <= recv_vec.cap /\ n - written = rv
    BY <1>0, <1>n
  <2>2. /\ part \in Seq(Bytes) /\ Len(part) = n - written
        /\ \A i \in 1 .. n - written : part[i] = recv_vec.buf[written + i]
    BY <1>0, <2>1, PartIs
  <2> HIDE DEF part
  <2> QED
    BY <2>1, <2>2
<1>t. taken' = taken \o part
  BY <1>n
<1> HIDE DEF part
<1>2. /\ taken \o part \in Seq(Bytes) /\ Len(taken \o part) = Len(taken) + rv
      /\ \A i \in 1 .. Len(taken) + rv : (taken \o part)[i] =
           IF i <= Len(taken) THEN taken[i] ELSE part[i - Len(taken)]
  BY <1>0, <1>1, ConcatProperties
<1>3. \A i \in 1 .. Len(taken) : taken'[i] = taken[i]
  BY <1>0, <1>2, <1>t
<1>4. ASSUME NEW i \in 1 .. rv
      PROVE  taken'[Len(taken) + i] = recv_vec.buf[written + i]
  <2>1. /\ Len(taken) + i \in 1 .. Len(taken) + rv /\ ~(Len(taken) + i <= Len(taken))
        /\ Len(taken) + i - Len(taken) = i
    BY <1>0
  <2> QED
    <3>1. (taken \o part)[Len(taken) + i] = part[i]
      BY <1>2, <2>1
    <3> QED
      BY <1>1, <1>t, <3>1
<1> QED
  BY <1>0, <1>2, <1>3, <1>4, <1>t

(* A line taken whole ends with the end of a line.                            *)
LEMMA EndsLine ==
  ASSUME BaseInv, Found(recv_vec, written, NEWLINE), NEW rv \in Nat, rv = LineEnd - written,
         taken' = taken \o SubSeq(recv_vec.buf, written + 1, written + rv)
  PROVE  Ended'
<1>1. /\ LineEnd \in written + 1 .. recv_vec.len /\ LineEnd \in Nat /\ written \in Nat
      /\ recv_vec.buf # NULL /\ recv_vec.buf[LineEnd] = NEWLINE /\ recv_vec.len \in Nat
  BY LineEndIs
<1>2. rv \in 1 .. rv /\ written + rv = LineEnd /\ written + rv <= recv_vec.len
  BY <1>1
<1>3. Len(taken') = Len(taken) + rv /\ taken'[Len(taken) + rv] = NEWLINE
  BY <1>1, <1>2, TakenIs
<1> QED
  BY <1>3 DEF Ended

(* Every step ends between lines or with the rest of the line at hand.        *)
LEMMA WholeKept ==
  ASSUME BaseInv, WholeInv, [Next]_vars
  PROVE  WholeInv'
<1>0. Good(recv_vec) /\ recv_vec.len \in Nat /\ recv_vec.cap \in Nat /\ recv_vec.len <= recv_vec.cap
  BY DEF BaseInv, Good, VectorRecord
<1>1. ASSUME taken' = taken, Ended
      PROVE  WholeInv'
  BY <1>1 DEF WholeInv, Ended
<1>2. CASE taken' = taken /\ pc \in Running /\ pc # "write"
  BY <1>1, <1>2 DEF WholeInv
<1>3. CASE PutTerminator
  BY <1>1, <1>3 DEF WholeInv, PutTerminator, Running
<1>4. CASE ScanLine
  <2>1. CASE IsCommand(Scanned)
    <3>1. Found(recv_vec, written, NEWLINE)
      BY <1>4 DEF ScanLine, BaseInv
    <3>2. LineEnd \in written + 1 .. recv_vec.len /\ LineEnd \in Nat /\ written \in Nat
      BY <3>1, LineEndIs
    <3>3. LineEnd - written \in Nat /\ written + (LineEnd - written) = LineEnd
      BY <1>0, <3>2
    <3>4. taken' = taken \o SubSeq(recv_vec.buf, written + 1, written + (LineEnd - written))
      BY <1>4, <2>1, <3>3 DEF ScanLine
    <3> QED
      BY <3>1, <3>3, <3>4, EndsLine DEF WholeInv
  <2>2. CASE ~IsCommand(Scanned)
    BY <1>2, <1>4, <2>2 DEF ScanLine, Running
  <2> QED
    BY <2>1, <2>2
<1>5. CASE WriteLine
  <2>1. CASE pc' = "write"
    <3>1. Found(recv_vec, written, NEWLINE) /\ recv_vec' = recv_vec /\ device' = device
      BY <1>5 DEF WriteLine
    <3>2. /\ LineEnd \in written + 1 .. recv_vec.len /\ LineEnd \in Nat /\ written \in Nat
          /\ recv_vec.buf[LineEnd] = NEWLINE
      BY <3>1, LineEndIs
    <3>3. PICK rv \in Nat \ {0} :
           /\ rv \in 1 .. LineEnd - written
           /\ device => rv = LineEnd - written
           /\ taken' = taken \o SubSeq(recv_vec.buf, written + 1, written + rv)
           /\ written' = written + rv
      BY <1>5, <2>1, WriteIs
    <3>4. CASE rv = LineEnd - written
      BY <3>1, <3>3, <3>4, EndsLine DEF WholeInv
    <3>5. CASE rv # LineEnd - written
      <4>1. LineEnd \in written' + 1 .. recv_vec'.len /\ written' \in Nat
        BY <1>0, <3>1, <3>2, <3>3, <3>5
      <4>2. Found(recv_vec', written', NEWLINE)
        BY <1>0, <3>1, <3>2, <4>1, FindsFirst
      <4>3. ~device'
        BY <3>1, <3>3, <3>5
      <4> QED
        BY <2>1, <4>2, <4>3 DEF WholeInv
    <3> QED
      BY <3>4, <3>5
  <2>2. CASE pc' # "write"
    BY <1>5, <2>2 DEF WriteLine, WholeInv, Running
  <2> QED
    BY <2>1, <2>2
<1>6. CASE CarryOrReset
  BY <1>1, <1>6 DEF CarryOrReset, WholeInv, Running
<1>7. CASE pc' \in {"exit", "done"}
  BY <1>7 DEF WholeInv, Running
<1>8. CASE UNCHANGED vars
  BY <1>8 DEF vars, WholeInv, Ended, Found, Matches
<1> QED
  BY <1>2, <1>3, <1>4, <1>5, <1>6, <1>7, <1>8
  DEF Next, Step, Returned, vector_init, NextPacket, Search, recv, vector_append_grow,
      vector_append_no_room, vector_append_copy, thread_cleanup, Running

(* Using rv bytes of the buffer moves them from its unused part to the end of *)
(* taken, if recv_vec' holds the bytes of the client.                         *)
LEMMA TakingLosesNothing ==
  ASSUME BaseInv, LostInv, pc \in Writing, recv_vec.buf # NULL, NEW rv \in Nat,
         written + rv <= recv_vec.len,
         taken' = taken \o SubSeq(recv_vec.buf, written + 1, written + rv),
         written' = written + rv, pc' = "write", stream' = stream,
         recv_vec'.len = recv_vec.len,
         \A i \in 1 .. rv : recv_vec.buf[written + i] = Byte(written + i),
         \A i \in 1 .. recv_vec.len : recv_vec'.buf[i] = Byte(i)
  PROVE  LostInv'
<1>0. /\ recv_vec.len \in Nat /\ written \in Nat /\ Len(stream) \in Nat /\ Len(taken) \in Nat
      /\ written <= recv_vec.len
  BY DEF BaseInv, Good, VectorRecord, Writing
<1>1. /\ Len(taken') = Len(taken) + rv
      /\ \A i \in 1 .. Len(taken) : taken'[i] = taken[i]
      /\ \A i \in 1 .. rv : taken'[Len(taken) + i] = recv_vec.buf[written + i]
  BY TakenIs
<1>2. Used = written /\ Used' = written + rv /\ pc \in Running
  BY DEF Used, Writing, Running
<1>3. /\ Len(stream) = Len(taken) + (recv_vec.len - written)
      /\ \A i \in 1 .. Len(taken) : stream[i] = taken[i]
      /\ \A i \in 1 .. recv_vec.len - written : stream[Len(taken) + i] = Byte(written + i)
  BY <1>2 DEF LostInv
<1>4. Len(stream') = Len(taken') + (recv_vec'.len - Used')
  BY <1>0, <1>1, <1>2, <1>3
<1>5. ASSUME NEW i \in 1 .. Len(taken')
      PROVE  stream'[i] = taken'[i]
  <2>1. CASE i \in 1 .. Len(taken)
    BY <1>1, <1>3, <2>1
  <2>2. CASE i \notin 1 .. Len(taken)
    <3>1. PICK j \in 1 .. rv : i = Len(taken) + j
      <4>1. i - Len(taken) \in 1 .. rv /\ i = Len(taken) + (i - Len(taken))
        BY <1>0, <1>1, <2>2
      <4> QED
        BY <4>1
    <3>2. j \in 1 .. recv_vec.len - written
      BY <1>0
    <3> QED
      BY <1>1, <1>3, <3>1, <3>2
  <2> QED
    BY <2>1, <2>2
<1>6. ASSUME NEW i \in 1 .. recv_vec'.len - Used'
      PROVE  stream'[Len(taken') + i] = recv_vec'.buf[Used' + i]
  <2>1. /\ rv + i \in 1 .. recv_vec.len - written /\ written + (rv + i) \in 1 .. recv_vec.len
        /\ Len(taken') + i = Len(taken) + (rv + i) /\ Used' + i = written + (rv + i)
    BY <1>0, <1>1, <1>2
  <2>2. stream[Len(taken) + (rv + i)] = Byte(written + (rv + i))
    BY <1>3, <2>1
  <2> QED
    BY <2>1, <2>2
<1>7. \A i : Byte(i)' = recv_vec'.buf[i]
  BY DEF Byte
<1> QED
  BY <1>4, <1>5, <1>6, <1>7 DEF LostInv

(* No step loses, repeats or moves a byte.                                    *)
LEMMA LostKept ==
  ASSUME CopyOrders \subseteq {"forward"}, BaseInv, LostInv, [Next]_vars
  PROVE  LostInv'
<1>0. /\ Good(recv_vec) /\ recv_vec.len \in Nat /\ recv_vec.cap \in Nat
      /\ recv_vec.len <= recv_vec.cap /\ written \in Nat
      /\ Len(stream) \in Nat /\ Len(taken) \in Nat
  BY DEF BaseInv, Good, VectorRecord
<1>s. ASSUME pc \in Running, UNCHANGED <<stream, taken>>,
             recv_vec'.len - Used' = recv_vec.len - Used,
             \A i \in 1 .. recv_vec.len - Used : Byte(Used + i)' = Byte(Used + i)
      PROVE  LostInv'
  BY <1>s DEF LostInv
<1>e. CASE pc' \in {"exit", "done"}
  BY <1>e DEF LostInv, Running
<1>1. CASE vector_init
  <2>1. CASE pc' = "packet"
    <3>1. /\ recv_vec' = InitVector /\ recv_vec = ClosedVector /\ pc = "init"
          /\ UNCHANGED <<stream, taken>>
      BY <1>1, <2>1 DEF vector_init, BaseInv
    <3>2. recv_vec'.len = 0 /\ recv_vec.len = 0 /\ Used = 0 /\ Used' = 0
      BY <2>1, <3>1, NewVectors DEF Used, Writing
    <3> QED
      BY <1>s, <3>1, <3>2 DEF Running
  <2> QED
    BY <1>1, <1>e, <2>1 DEF vector_init
<1>2. CASE /\ pc \in {"packet", "search", "recv", "append"} /\ pc' \in {"search", "recv", "append", "write"}
           /\ UNCHANGED <<recv_vec, stream, taken>> /\ (pc' = "write" => written' = 0)
  BY <1>s, <1>2 DEF Used, Writing, Byte, Running
<1>3. CASE vector_append_grow
  <2>1. recv_vec'.len = recv_vec.len /\ \A i \in 1 .. recv_vec.len : recv_vec'.buf[i] = recv_vec.buf[i]
    BY <1>0, <1>3, GrownKeeps DEF vector_append_grow
  <2>2. pc = "append" /\ pc' = "append" /\ Used = 0 /\ Used' = 0
    BY <1>3 DEF vector_append_grow, Used, Writing
  <2>3. PICK n \in Nat : n = recv_vec.len
    BY <1>0
  <2>4. recv_vec'.len - Used' = n - 0 /\ recv_vec.len - Used = n - 0
    BY <2>1, <2>2, <2>3
  <2>5. ASSUME NEW i \in 1 .. n - 0 PROVE Byte(0 + i)' = Byte(0 + i)
    BY <2>1, <2>2, <2>3, <2>5 DEF Byte
  <2>6. pc \in Running /\ UNCHANGED <<stream, taken>>
    BY <1>3, <2>2 DEF vector_append_grow, Running
  <2> QED
    BY <1>s, <2>2, <2>4, <2>5, <2>6
<1>4. CASE vector_append_copy
  <2>1. /\ recv_vec'.len = recv_vec.len + Len(recv_buf) /\ Len(recv_buf) \in Nat
        /\ \A i \in 1 .. recv_vec.len : recv_vec'.buf[i] = recv_vec.buf[i]
        /\ \A i \in 1 .. Len(recv_buf) : recv_vec'.buf[recv_vec.len + i] = recv_buf[i]
    <3>1. PICK vec, data : vec = recv_vec /\ data = recv_buf
      OBVIOUS
    <3>2. Good(vec) /\ data \in Seq(Bytes) /\ data # <<>> /\ ~TooSmall(vec, data)
      BY <1>4, <3>1 DEF vector_append_copy, BaseInv
    <3>3. /\ Appended(vec, data).len = vec.len + Len(data) /\ Len(data) \in Nat
          /\ \A i \in 1 .. vec.len : Appended(vec, data).buf[i] = vec.buf[i]
          /\ \A i \in 1 .. Len(data) : Appended(vec, data).buf[vec.len + i] = data[i]
      BY <3>2, AppendedIs
    <3>4. recv_vec' = Appended(vec, data)
      BY <1>4, <3>1 DEF vector_append_copy
    <3> QED
      BY <3>1, <3>3, <3>4
  <2>2. pc = "append" /\ pc' = "search" /\ Used = 0 /\ Used' = 0 /\ taken' = taken
    BY <1>4 DEF vector_append_copy, Used, Writing
  <2>3. /\ Len(stream) = Len(taken) + recv_vec.len
        /\ \A i \in 1 .. Len(taken) : stream[i] = taken[i]
        /\ \A i \in 1 .. recv_vec.len : stream[Len(taken) + i] = recv_vec.buf[i]
    BY <1>0, <2>2 DEF LostInv, Running, Byte
  <2>4. /\ Len(stream') = Len(stream) + Len(recv_buf)
        /\ \A i \in 1 .. Len(stream) + Len(recv_buf) : stream'[i] =
             IF i <= Len(stream) THEN stream[i] ELSE recv_buf[i - Len(stream)]
    BY <1>4, ConcatProperties DEF vector_append_copy, BaseInv
  <2>5. Len(stream') = Len(taken') + (recv_vec'.len - Used')
    BY <1>0, <2>1, <2>2, <2>3, <2>4
  <2>6. \A i \in 1 .. Len(taken') : stream'[i] = taken'[i]
    <3>1. \A i \in 1 .. Len(taken) : i \in 1 .. Len(stream) + Len(recv_buf) /\ i <= Len(stream)
      BY <1>0, <2>1, <2>3
    <3> QED
      BY <2>2, <2>3, <2>4, <3>1
  <2>7. ASSUME NEW i \in 1 .. recv_vec'.len
        PROVE  stream'[Len(taken) + i] = recv_vec'.buf[i]
    <3>1. CASE i <= recv_vec.len
      <4>1. i \in 1 .. recv_vec.len /\ Len(taken) + i \in 1 .. Len(stream) + Len(recv_buf)
            /\ Len(taken) + i <= Len(stream)
        BY <1>0, <2>1, <2>3, <3>1
      <4> QED
        BY <2>1, <2>3, <2>4, <4>1
    <3>2. CASE ~(i <= recv_vec.len)
      <4>1. PICK j \in 1 .. Len(recv_buf) : i = recv_vec.len + j
        <5>1. i - recv_vec.len \in 1 .. Len(recv_buf) /\ i = recv_vec.len + (i - recv_vec.len)
          BY <1>0, <2>1, <3>2
        <5> QED
          BY <5>1
      <4>2. /\ Len(taken) + i \in 1 .. Len(stream) + Len(recv_buf) /\ ~(Len(taken) + i <= Len(stream))
            /\ Len(taken) + i - Len(stream) = j
        <5>1. \A a, b, c \in Nat : \A k \in 1 .. c :
                /\ a + (b + k) \in 1 .. (a + b) + c /\ ~(a + (b + k) <= a + b)
                /\ a + (b + k) - (a + b) = k
          OBVIOUS
        <5>2. /\ Len(taken) + (recv_vec.len + j) \in 1 .. (Len(taken) + recv_vec.len) + Len(recv_buf)
              /\ ~(Len(taken) + (recv_vec.len + j) <= Len(taken) + recv_vec.len)
              /\ Len(taken) + (recv_vec.len + j) - (Len(taken) + recv_vec.len) = j
          BY <1>0, <2>1, <5>1
        <5>3. Len(stream) = Len(taken) + recv_vec.len
          BY <2>3
        <5> QED
          BY <4>1, <5>2, <5>3
      <4>3. stream'[Len(taken) + i] = recv_buf[j]
        BY <2>4, <4>2
      <4> QED
        BY <2>1, <4>1, <4>3
    <3> QED
      BY <3>1, <3>2
  <2>8. \A i : Byte(i)' = recv_vec'.buf[i]
    BY <2>2 DEF Byte
  <2>9. \A i \in 1 .. recv_vec'.len - Used' : stream'[Len(taken') + i] = Byte(Used + i)'
    <3>1. \A i \in 1 .. recv_vec'.len - Used' : i \in 1 .. recv_vec'.len /\ Used' + i = i
      BY <1>0, <2>1, <2>2
    <3> QED
      BY <2>2, <2>7, <2>8, <3>1
  <2> QED
    BY <2>5, <2>6, <2>9 DEF LostInv
<1>5. CASE PutTerminator
  <2>1. /\ recv_vec'.len = recv_vec.len /\ LineEnd' = LineEnd
        /\ \A i \in 1 .. recv_vec.cap : i # LineEnd + 1 => recv_vec'.buf[i] = recv_vec.buf[i]
        /\ LineEnd < recv_vec.cap => temp_char' = recv_vec.buf[LineEnd + 1]
    BY <1>5, TerminatorIs
  <2>2. LineEnd \in Nat /\ written <= recv_vec.len
    BY <1>5, LineEndIs DEF PutTerminator, BaseInv, Writing
  <2>3. pc = "write" /\ pc' = "scan" /\ Used = written /\ Used' = written
    BY <1>5 DEF PutTerminator, Used, Writing
  <2>4. ASSUME NEW i \in 1 .. recv_vec.len - Used
        PROVE  Byte(Used + i)' = Byte(Used + i)
    <3>1. Used + i \in 1 .. recv_vec.cap /\ Used' + i = Used + i
      BY <1>0, <2>2, <2>3
    <3>2. Used + i = LineEnd + 1 => LineEnd < recv_vec.cap
      BY <1>0, <2>2, <2>3, <3>1
    <3> QED
      BY <2>1, <2>3, <3>1, <3>2 DEF Byte
  <2> QED
    BY <1>s, <1>5, <2>1, <2>3, <2>4 DEF PutTerminator, Running
<1>6. CASE ScanLine
  <2>1. Found(recv_vec, written, NEWLINE) /\ pc = "scan" /\ stream' = stream
    BY <1>6 DEF ScanLine, BaseInv
  <2>2. /\ LineEnd \in written + 1 .. recv_vec.len /\ LineEnd \in Nat /\ recv_vec.buf # NULL
    BY <2>1, LineEndIs
  <2>3. /\ recv_vec'.len = recv_vec.len
        /\ \A i \in 1 .. recv_vec.cap : recv_vec'.buf[i] = Byte(i)
    BY <1>6, RestoredIs
  <2>4. \A i \in 1 .. recv_vec.len : recv_vec'.buf[i] = Byte(i)
    BY <1>0, <2>3
  <2>5. CASE IsCommand(Scanned)
    <3>1. PICK rv \in Nat : rv = LineEnd - written
      BY <1>0, <2>2
    <3>2. written + rv = LineEnd /\ written + rv <= recv_vec.len
      BY <1>0, <2>2, <3>1
    <3>3. \A i \in 1 .. rv : recv_vec.buf[written + i] = Byte(written + i)
      BY <1>0, <2>2, <3>1 DEF Byte
    <3>4. /\ taken' = taken \o SubSeq(recv_vec.buf, written + 1, written + rv)
          /\ written' = written + rv /\ pc' = "write"
      BY <1>6, <2>5, <3>2 DEF ScanLine
    <3> QED
      BY <2>1, <2>2, <2>3, <2>4, <3>2, <3>3, <3>4, TakingLosesNothing DEF Writing
  <2>6. CASE ~IsCommand(Scanned)
    <3>1. taken' = taken /\ written' = written /\ pc' = "line"
      BY <1>6, <2>6 DEF ScanLine
    <3>2. Used = written /\ Used' = written /\ written <= recv_vec.len
      BY <2>1, <3>1 DEF Used, Writing, BaseInv
    <3>3. \A i \in 1 .. recv_vec.len - Used : Used + i \in 1 .. recv_vec.len /\ Used' + i = Used + i
      BY <1>0, <3>2
    <3>4. \A i \in 1 .. recv_vec.len - Used : Byte(Used + i)' = Byte(Used + i)
      <4>1. \A i : Byte(i)' = recv_vec'.buf[i]
        BY <3>1 DEF Byte
      <4> QED
        BY <2>4, <3>1, <3>3, <4>1 DEF Byte
    <3> QED
      BY <1>s, <2>1, <2>3, <3>1, <3>2, <3>4 DEF Running
  <2> QED
    BY <2>5, <2>6
<1>7. CASE WriteLine
  <2>1. CASE pc' = "write"
    <3>1. /\ Found(recv_vec, written, NEWLINE) /\ pc \in Writing /\ pc # "scan"
          /\ recv_vec' = recv_vec /\ stream' = stream
      BY <1>7 DEF WriteLine, Writing
    <3>2. LineEnd \in written + 1 .. recv_vec.len /\ LineEnd \in Nat /\ recv_vec.buf # NULL
      BY <3>1, LineEndIs
    <3>3. PICK rv \in Nat \ {0} :
           /\ rv \in 1 .. LineEnd - written
           /\ taken' = taken \o SubSeq(recv_vec.buf, written + 1, written + rv)
           /\ written' = written + rv
      BY <1>7, <2>1, WriteIs
    <3>4. written + rv <= recv_vec.len
      BY <1>0, <3>2, <3>3
    <3>5. \A i : Byte(i) = recv_vec.buf[i]
      BY <3>1 DEF Byte
    <3> QED
      BY <2>1, <3>1, <3>2, <3>3, <3>4, <3>5, TakingLosesNothing
  <2> QED
    BY <1>7, <1>e, <2>1 DEF WriteLine
<1>8. CASE CarryOrReset
  <2>0. pc = "write" /\ pc' = "packet" /\ Used = written /\ Used' = 0 /\ UNCHANGED <<stream, taken>>
    BY <1>8 DEF CarryOrReset, Used, Writing
  <2>1. CASE LeavesBytes
    <3>1. PICK order \in CopyOrders : recv_vec' = Carryover(recv_vec, written, order)
      BY <1>8, <2>1 DEF CarryOrReset
    <3>2. written \in Nat /\ 0 < written /\ written < recv_vec.len
      BY <1>8, <2>1 DEF CarryOrReset, LeavesBytes, BaseInv, Writing
    <3>3. recv_vec'.len = recv_vec.len - written
          /\ \A i \in 1 .. recv_vec.len - written : recv_vec'.buf[i] = recv_vec.buf[written + i]
      BY <1>0, <3>1, <3>2, CarryoverKeeps
    <3>4. \A i \in 1 .. recv_vec.len - Used : Byte(Used + i)' = Byte(Used + i)
      <4>1. \A i \in 1 .. recv_vec.len - Used : Used' + i = i
        BY <1>0, <2>0
      <4> QED
        BY <2>0, <3>3, <4>1 DEF Byte
    <3> QED
      BY <1>0, <1>s, <2>0, <3>3, <3>4 DEF Running
  <2>2. CASE ~LeavesBytes
    <3>1. recv_vec'.len = 0
      BY <1>8, <2>2, NewVectors DEF CarryOrReset
    <3>2. recv_vec.len = written
      BY <1>0, <2>0, <2>2 DEF LeavesBytes, BaseInv, Writing
    <3> QED
      BY <1>0, <1>s, <2>0, <3>1, <3>2 DEF Running
  <2> QED
    BY <2>1, <2>2
<1>9. CASE UNCHANGED vars
  <2>1. LineEnd' = LineEnd
    BY <1>9 DEF vars, LineEnd, vector_find, Matches
  <2> QED
    BY <1>9, <2>1 DEF vars, scanVars, LostInv, Used, Byte
<1> QED
  BY <1>e, <1>1, <1>2, <1>3, <1>4, <1>5, <1>6, <1>7, <1>8, <1>9
  DEF Next, Step, Returned, NextPacket, Search, recv, vector_append_no_room, thread_cleanup

-----------------------------------------------------------------------------
(* Commands.                                                                  *)

(* A part of a sequence of bytes.                                             *)
LEMMA SubSeqIs ==
  ASSUME NEW s \in Seq(Bytes), NEW a \in Nat, NEW b \in Nat, 1 <= a, a <= b, b <= Len(s)
  PROVE  /\ SubSeq(s, a, b) \in Seq(Bytes) /\ Len(SubSeq(s, a, b)) = b - a + 1
         /\ \A i \in 1 .. b - a + 1 : SubSeq(s, a, b)[i] = s[a + i - 1]
<1>1. \A i \in a .. b : s[i] \in Bytes
  <2>1. \A i \in a .. b : i \in 1 .. Len(s)
    OBVIOUS
  <2> QED
    BY <2>1, ElementOfSeq
<1>2. a \in Int /\ b \in Int
  OBVIOUS
<1>3. /\ SubSeq(s, a, b) \in Seq(Bytes)
      /\ Len(SubSeq(s, a, b)) = IF a <= b THEN b - a + 1 ELSE 0
      /\ \A i \in 1 .. b - a + 1 : SubSeq(s, a, b)[i] = s[a + i - 1]
  BY <1>1, <1>2, SubSeqProperties
<1> QED
  BY <1>3

(* What sscanf reads is the line or the part of it before a zero byte, and    *)
(* either both are commands or neither is.                                    *)
LEMMA ScannedIsLine ==
  ASSUME BaseInv, ScanInv, pc = "scan"
  PROVE  IsCommand(Scanned) <=> IsCommand(Line)
<1>0. Good(recv_vec) /\ Found(recv_vec, written, NEWLINE)
  BY DEF BaseInv
<1>1. /\ LineEnd \in written + 1 .. recv_vec.len
      /\ recv_vec.buf # NULL /\ recv_vec.len \in Nat /\ recv_vec.cap \in Nat
      /\ recv_vec.len <= recv_vec.cap /\ LineEnd \in Nat /\ written \in Nat
  BY <1>0, LineEndIs
<1> DEFINE ends == {i \in written + 1 .. recv_vec.cap : recv_vec.buf[i] = ZERO}
           last == IF ends = {} THEN recv_vec.cap ELSE Min(ends) - 1
           Command(n) == \E i \in 2 .. n :
             /\ recv_vec.buf[written + 1] = NAME /\ recv_vec.buf[written + i] = NUMBER
             /\ \A j \in 2 .. i - 1 : recv_vec.buf[written + j] = NEWLINE
<1>2. LineEnd < recv_vec.cap => LineEnd + 1 \in ends
  BY <1>1 DEF ScanInv
<1>3. ends # {} => /\ Min(ends) \in written + 1 .. recv_vec.cap /\ recv_vec.buf[Min(ends)] = ZERO
                   /\ \A i \in ends : Min(ends) <= i
  <2>1. ends \in SUBSET Nat
    BY <1>1
  <2>2. ends # {} => Min(ends) \in ends /\ \A i \in ends : Min(ends) <= i
    BY <2>1, MinOfSet
  <2> QED
    BY <2>2
<1>4. /\ last \in Nat /\ written <= last /\ last <= LineEnd
      /\ last < LineEnd => recv_vec.buf[last + 1] = ZERO
  <2> HIDE DEF ends
  <2>1. CASE ends = {}
    BY <1>1, <1>2, <2>1
  <2>2. CASE ends # {}
    BY <1>1, <1>2, <1>3, <2>2
  <2> QED
    BY <2>1, <2>2
<1>5. PICK k \in Nat : k = last
  BY <1>4
<1>6. Scanned = SubSeq(recv_vec.buf, written + 1, k)
  BY <1>5 DEF Scanned
<1> HIDE DEF ends, last
<1>7. ASSUME NEW n \in Nat, written <= n, n <= recv_vec.cap
      PROVE  IsCommand(SubSeq(recv_vec.buf, written + 1, n)) <=> Command(n - written)
  <2> DEFINE string == SubSeq(recv_vec.buf, written + 1, n)
  <2>1. /\ Len(string) = n - written
        /\ \A i \in 1 .. n - written : string[i] = recv_vec.buf[written + i]
    BY <1>1, <1>7, PartIs
  <2>2. \A i \in 2 .. n - written : /\ 1 \in 1 .. n - written /\ i \in 1 .. n - written
                                    /\ \A j \in 2 .. i - 1 : j \in 1 .. n - written
    BY <1>1, <1>7
  <2> HIDE DEF string
  <2>3. IsCommand(string) <=> Command(n - written)
    BY <2>1, <2>2 DEF IsCommand
  <2> QED
    BY <2>3 DEF string
<1>8. IsCommand(Scanned) <=> Command(k - written)
  <2>1. written <= k /\ k <= recv_vec.cap
    BY <1>1, <1>4, <1>5
  <2> HIDE DEF Command
  <2> QED
    BY <1>6, <1>7, <2>1
<1>9. IsCommand(Line) <=> Command(LineEnd - written)
  <2>1. written <= LineEnd /\ LineEnd <= recv_vec.cap
    BY <1>1
  <2> HIDE DEF Command
  <2> QED
    BY <1>1, <1>7, <2>1 DEF Line
<1>10. Command(k - written) => Command(LineEnd - written)
  <2>1. \A i \in 2 .. k - written : i \in 2 .. LineEnd - written
    BY <1>1, <1>4, <1>5
  <2> QED
    BY <2>1
<1>11. ASSUME Command(LineEnd - written)
       PROVE  Command(k - written)
  <2>1. PICK i \in 2 .. LineEnd - written :
          /\ recv_vec.buf[written + 1] = NAME /\ recv_vec.buf[written + i] = NUMBER
          /\ \A j \in 2 .. i - 1 : recv_vec.buf[written + j] = NEWLINE
    BY <1>11
  <2>2. \A j \in 1 .. i : recv_vec.buf[written + j] # ZERO
    <3>1. ASSUME NEW j \in 1 .. i
          PROVE  j = 1 \/ j = i \/ j \in 2 .. i - 1
      BY <1>1
    <3> QED
      BY <2>1, <3>1, CharactersAssumption
  <2>3. i \in 2 .. k - written
    <3>1. CASE k < LineEnd
      <4>1. recv_vec.buf[k + 1] = ZERO
        BY <1>4, <1>5, <3>1
      <4>2. k + 1 - written \in 1 .. i => FALSE
        <5>1. written + (k + 1 - written) = k + 1
          BY <1>1
        <5> QED
          BY <2>2, <4>1, <5>1
      <4> QED
        BY <1>1, <1>4, <1>5, <4>2
    <3>2. CASE ~(k < LineEnd)
      <4>1. k = LineEnd
        BY <1>1, <1>4, <1>5, <3>2
      <4> QED
        BY <4>1
    <3> QED
      BY <3>1, <3>2
  <2> QED
    BY <2>1, <2>3
<1> QED
  BY <1>8, <1>9, <1>10, <1>11

(* The line at places a to b of a sequence.                                   *)
IsLine(s, a, b) ==
  /\ a \in 1 .. Len(s) /\ b \in 1 .. Len(s) /\ a <= b
  /\ a = 1 \/ s[a - 1] = NEWLINE
  /\ \A i \in a .. b : s[i] = NEWLINE <=> i = b

LinesOf(s) ==
  {l \in (1 .. Len(s)) \X (1 .. Len(s)) :
     /\ l[1] <= l[2]
     /\ l[1] = 1 \/ s[l[1] - 1] = NEWLINE
     /\ \A i \in l[1] .. l[2] : s[i] = NEWLINE <=> i = l[2]}

(* The two ways to say where a line is.                                       *)
LEMMA LinesAre ==
  ASSUME NEW s
  PROVE  /\ \A l \in LinesOf(s) : l = <<l[1], l[2]>> /\ IsLine(s, l[1], l[2])
         /\ \A a, b : IsLine(s, a, b) => <<a, b>> \in LinesOf(s)
BY DEF LinesOf, IsLine

(* t is s, which is empty or ends with the end of a line, and one line more.  *)
AddsLine(s, t, n, m) ==
  /\ Len(s) = n /\ Len(t) = n + m /\ m > 0
  /\ \A i \in 1 .. n : t[i] = s[i]
  /\ n = 0 \/ s[n] = NEWLINE
  /\ \A i \in n + 1 .. n + m : t[i] = NEWLINE <=> i = n + m

(* The lines of t are those of s and the one at places a to b.                *)
HasLineMore(s, t, a, b) ==
  /\ LinesOf(t) = LinesOf(s) \union {<<a, b>>}
  /\ \A l \in LinesOf(s) : SubSeq(t, l[1], l[2]) = SubSeq(s, l[1], l[2])

(* Adding a line leaves the others where they are.                            *)
LEMMA AddingALine ==
  ASSUME NEW s \in Seq(Bytes), NEW t \in Seq(Bytes), NEW n \in Nat, NEW m \in Nat,
         AddsLine(s, t, n, m)
  PROVE  HasLineMore(s, t, n + 1, n + m)
<1> USE DEF AddsLine
<1>1. n = 0 \/ t[n] = NEWLINE
  <2>1. n = 0 \/ n \in 1 .. n
    OBVIOUS
  <2> QED
    BY <2>1
<1>2. ASSUME NEW a, NEW b, IsLine(s, a, b)
      PROVE  IsLine(t, a, b)
  <2>1. /\ a \in 1 .. n /\ b \in 1 .. n /\ a <= b /\ (a = 1 \/ s[a - 1] = NEWLINE)
        /\ \A i \in a .. b : s[i] = NEWLINE <=> i = b
    BY <1>2 DEF IsLine
  <2>2. a \in 1 .. n + m /\ b \in 1 .. n + m /\ (a # 1 => a - 1 \in 1 .. n)
        /\ \A i \in a .. b : i \in 1 .. n
    BY <2>1
  <2> QED
    BY <2>1, <2>2 DEF IsLine
<1>3. IsLine(t, n + 1, n + m)
  <2>1. n + 1 \in 1 .. n + m /\ n + m \in 1 .. n + m /\ n + 1 <= n + m /\ n + 1 - 1 = n
        /\ (n = 0 => n + 1 = 1)
    OBVIOUS
  <2>2. n + 1 = 1 \/ t[n + 1 - 1] = NEWLINE
    BY <1>1, <2>1
  <2> QED
    BY <2>1, <2>2 DEF IsLine
<1>4. ASSUME NEW a, NEW b, IsLine(t, a, b)
      PROVE  IsLine(s, a, b) \/ (a = n + 1 /\ b = n + m)
  <2>1. /\ a \in 1 .. n + m /\ b \in 1 .. n + m /\ a <= b /\ (a = 1 \/ t[a - 1] = NEWLINE)
        /\ \A i \in a .. b : t[i] = NEWLINE <=> i = b
    BY <1>4 DEF IsLine
  <2>2. CASE b <= n
    <3>1. a \in 1 .. n /\ b \in 1 .. n /\ (a # 1 => a - 1 \in 1 .. n)
          /\ \A i \in a .. b : i \in 1 .. n
      BY <2>1, <2>2
    <3> QED
      BY <2>1, <3>1 DEF IsLine
  <2>3. CASE ~(b <= n)
    <3>1. b = n + m
      <4>1. b \in n + 1 .. n + m /\ b \in a .. b
        BY <2>1, <2>3
      <4> QED
        BY <2>1, <4>1
    <3>2. ~(a <= n)
      <4>1. a <= n => n # 0 /\ n \in a .. b /\ n # b
        BY <2>1, <2>3
      <4> QED
        BY <1>1, <2>1, <4>1
    <3>3. ~(a > n + 1)
      <4>1. a > n + 1 => a # 1 /\ a - 1 \in n + 1 .. n + m /\ a - 1 # n + m
        BY <2>1
      <4> QED
        BY <2>1, <4>1
    <3> QED
      BY <2>1, <3>1, <3>2, <3>3
  <2> QED
    BY <2>2, <2>3
<1>5. LinesOf(t) = LinesOf(s) \union {<<n + 1, n + m>>}
  <2>1. ASSUME NEW l \in LinesOf(t)
        PROVE  l \in LinesOf(s) \union {<<n + 1, n + m>>}
    <3>1. l = <<l[1], l[2]>> /\ (IsLine(s, l[1], l[2]) \/ (l[1] = n + 1 /\ l[2] = n + m))
      BY <1>4, LinesAre
    <3>2. IsLine(s, l[1], l[2]) => <<l[1], l[2]>> \in LinesOf(s)
      BY LinesAre
    <3> QED
      BY <3>1, <3>2
  <2>2. ASSUME NEW l \in LinesOf(s)
        PROVE  l \in LinesOf(t)
    <3>1. l = <<l[1], l[2]>> /\ IsLine(s, l[1], l[2])
      BY LinesAre
    <3>2. <<l[1], l[2]>> \in LinesOf(t)
      BY <1>2, <3>1, LinesAre
    <3> QED
      BY <3>1, <3>2
  <2>3. <<n + 1, n + m>> \in LinesOf(t)
    BY <1>3, LinesAre
  <2> QED
    BY <2>1, <2>2, <2>3
<1>6. ASSUME NEW l \in LinesOf(s)
      PROVE  SubSeq(t, l[1], l[2]) = SubSeq(s, l[1], l[2])
  <2>1. PICK a \in 1 .. n, b \in 1 .. n : a = l[1] /\ b = l[2] /\ a <= b
    BY LinesAre DEF IsLine
  <2>2. a \in Nat /\ b \in Nat /\ 1 <= a /\ b <= Len(s) /\ b <= Len(t)
    BY <2>1
  <2>3. /\ SubSeq(s, a, b) \in Seq(Bytes) /\ Len(SubSeq(s, a, b)) = b - a + 1
        /\ \A i \in 1 .. b - a + 1 : SubSeq(s, a, b)[i] = s[a + i - 1]
    <3>1. a <= b /\ a \in Nat /\ b \in Nat /\ 1 <= a /\ b <= Len(s)
      BY <2>1, <2>2
    <3> QED
      BY <3>1, SubSeqIs
  <2>4. /\ SubSeq(t, a, b) \in Seq(Bytes) /\ Len(SubSeq(t, a, b)) = b - a + 1
        /\ \A i \in 1 .. b - a + 1 : SubSeq(t, a, b)[i] = t[a + i - 1]
    <3>1. a <= b /\ a \in Nat /\ b \in Nat /\ 1 <= a /\ b <= Len(t)
      BY <2>1, <2>2
    <3> QED
      BY <3>1, SubSeqIs
  <2>5. \A i \in 1 .. b - a + 1 : a + i - 1 \in 1 .. n
    BY <2>1
  <2>6. SubSeq(t, a, b) = SubSeq(s, a, b)
    BY <2>3, <2>4, <2>5, SeqEqual
  <2> QED
    BY <2>1, <2>6
<1> QED
  BY <1>5, <1>6 DEF HasLineMore

(* Taking a line adds it to the lines of taken and leaves the others.         *)
LEMMA TakingALine ==
  ASSUME BaseInv, Ended, Found(recv_vec, written, NEWLINE), NEW rv \in Nat, rv = LineEnd - written,
         taken' = taken \o SubSeq(recv_vec.buf, written + 1, written + rv)
  PROVE  /\ LinesOf(taken') = LinesOf(taken) \union {<<Len(taken) + 1, Len(taken')>>}
         /\ \A l \in LinesOf(taken) : SubSeq(taken', l[1], l[2]) = SubSeq(taken, l[1], l[2])
         /\ SubSeq(taken', Len(taken) + 1, Len(taken')) = Line
<1>1. /\ LineEnd \in written + 1 .. recv_vec.len /\ recv_vec.buf[LineEnd] = NEWLINE
      /\ \A i \in written + 1 .. LineEnd - 1 : recv_vec.buf[i] # NEWLINE
      /\ recv_vec.buf # NULL /\ recv_vec.len \in Nat /\ recv_vec.cap \in Nat
      /\ recv_vec.len <= recv_vec.cap /\ LineEnd \in Nat /\ written \in Nat
  BY LineEndIs
<1>2. rv > 0 /\ LineEnd = written + rv /\ written + rv <= recv_vec.len /\ written \in Nat
  BY <1>1
<1>3. PICK n \in Nat : n = Len(taken)
  BY DEF BaseInv
<1>4. /\ taken' \in Seq(Bytes) /\ taken \in Seq(Bytes) /\ Len(taken') = n + rv
      /\ \A i \in 1 .. n : taken'[i] = taken[i]
      /\ \A i \in 1 .. rv : taken'[n + i] = recv_vec.buf[written + i]
  BY <1>1, <1>2, <1>3, TakenIs DEF BaseInv
<1>5. \A i \in n + 1 .. n + rv : taken'[i] = NEWLINE <=> i = n + rv
  <2>1. ASSUME NEW i \in n + 1 .. n + rv
        PROVE  taken'[i] = NEWLINE <=> i = n + rv
    <3>1. PICK j \in 1 .. rv : i = n + j
      <4>1. i - n \in 1 .. rv /\ i = n + (i - n)
        OBVIOUS
      <4> QED
        BY <4>1
    <3>2. taken'[i] = recv_vec.buf[written + j]
      BY <1>4, <3>1
    <3>3. CASE j = rv
      <4>1. written + j = LineEnd /\ i = n + rv
        BY <1>2, <3>1, <3>3
      <4> QED
        BY <1>1, <3>2, <4>1
    <3>4. CASE j # rv
      <4>1. written + j \in written + 1 .. (written + rv) - 1 /\ i # n + rv
        BY <1>2, <3>1, <3>4
      <4>2. written + j \in written + 1 .. LineEnd - 1
        BY <1>2, <4>1
      <4> QED
        BY <1>1, <3>2, <4>1, <4>2
    <3> QED
      BY <3>3, <3>4
  <2> QED
    BY <2>1
<1>6. n = 0 \/ taken[n] = NEWLINE
  BY <1>3, <1>4, EmptySeq DEF Ended
<1>7. /\ LinesOf(taken') = LinesOf(taken) \union {<<n + 1, n + rv>>}
      /\ \A l \in LinesOf(taken) : SubSeq(taken', l[1], l[2]) = SubSeq(taken, l[1], l[2])
  <2>1. PICK s \in Seq(Bytes), t \in Seq(Bytes) : s = taken /\ t = taken'
    BY <1>4
  <2>2. AddsLine(s, t, n, rv)
    BY <1>2, <1>3, <1>4, <1>5, <1>6, <2>1 DEF AddsLine
  <2>3. HasLineMore(s, t, n + 1, n + rv)
    BY <2>2, AddingALine
  <2> QED
    BY <2>1, <2>3 DEF HasLineMore
<1>8. SubSeq(taken', n + 1, n + rv) = Line
  <2>1. written <= LineEnd /\ LineEnd <= recv_vec.cap /\ LineEnd - written = rv
    BY <1>1, <1>2
  <2>2. /\ Line \in Seq(Bytes) /\ Len(Line) = LineEnd - written
        /\ \A i \in 1 .. LineEnd - written : Line[i] = recv_vec.buf[written + i]
    BY <1>1, <2>1, PartIs DEF Line
  <2>3. /\ Line \in Seq(Bytes) /\ Len(Line) = rv
        /\ \A i \in 1 .. rv : Line[i] = recv_vec.buf[written + i]
    BY <2>1, <2>2
  <2>4. PICK a \in Nat, b \in Nat : a = n + 1 /\ b = n + rv
    <3>1. n + 1 \in Nat /\ n + rv \in Nat
      OBVIOUS
    <3> QED
      BY <3>1
  <2>5. 1 <= a /\ a <= b /\ b <= Len(taken') /\ b - a + 1 = rv /\ \A i \in 1 .. rv : a + i - 1 = n + i
    BY <1>2, <1>4, <2>4
  <2>6. /\ SubSeq(taken', a, b) \in Seq(Bytes) /\ Len(SubSeq(taken', a, b)) = b - a + 1
        /\ \A i \in 1 .. b - a + 1 : SubSeq(taken', a, b)[i] = taken'[a + i - 1]
    BY <1>4, <2>5, SubSeqIs
  <2>7. SubSeq(taken', a, b) = Line
    <3>1. Len(SubSeq(taken', a, b)) = rv /\ \A i \in 1 .. rv : SubSeq(taken', a, b)[i] = taken'[n + i]
      BY <2>5, <2>6
    <3>2. \A i \in 1 .. rv : SubSeq(taken', a, b)[i] = Line[i]
      BY <1>4, <2>3, <3>1
    <3> QED
      BY <2>3, <2>6, <3>1, <3>2, SeqEqual
  <2> QED
    BY <2>4, <2>7
<1> QED
  BY <1>3, <1>4, <1>7, <1>8

(* Executing or writing a whole line keeps CommandsExact.                     *)
LEMMA TakingKeepsExact ==
  ASSUME BaseInv, Ended, Found(recv_vec, written, NEWLINE), NEW rv \in Nat, rv = LineEnd - written,
         taken' = taken \o SubSeq(recv_vec.buf, written + 1, written + rv),
         CommandsExact, device, device' = device,
         commands' = IF IsCommand(Line) THEN commands \union {<<Len(taken) + 1, Len(taken')>>}
                                        ELSE commands
  PROVE  CommandsExact'
<1>1. PICK m, n, s, t : m = Len(taken) + 1 /\ n = Len(taken') /\ s = taken /\ t = taken'
  OBVIOUS
<1>2. /\ LinesOf(t) = LinesOf(s) \union {<<m, n>>}
      /\ \A l \in LinesOf(s) : SubSeq(t, l[1], l[2]) = SubSeq(s, l[1], l[2])
      /\ SubSeq(t, m, n) = Line
  BY <1>1, TakingALine
<1>3. commands = {l \in LinesOf(s) : device /\ IsCommand(SubSeq(s, l[1], l[2]))}
  BY <1>1 DEF CommandsExact, Lines, LinesOf
<1>4. PICK string, c : string = Line /\ c = (IsCommand(Line) <=> TRUE)
  OBVIOUS
<1>5. commands' = {l \in LinesOf(t) : IsCommand(SubSeq(t, l[1], l[2]))}
  <2>1. SubSeq(t, <<m, n>>[1], <<m, n>>[2]) = Line
    BY <1>2
  <2>2. CASE IsCommand(Line)
    <3>1. commands' = commands \union {<<m, n>>}
      BY <1>1, <2>2
    <3> QED
      BY <1>2, <1>3, <2>1, <2>2, <3>1, ZenonT(30)
  <2>3. CASE ~IsCommand(Line)
    <3>1. commands' = commands
      BY <2>3
    <3> QED
      BY <1>2, <1>3, <2>1, <2>3, <3>1, ZenonT(30)
  <2> QED
    BY <2>2, <2>3
<1>6. Lines' = LinesOf(t)
  BY <1>1 DEF Lines, LinesOf
<1> QED
  BY <1>1, <1>5, <1>6 DEF CommandsExact

(* A line is executed exactly if it is a command by itself.                   *)
LEMMA ScanKept ==
  ASSUME BaseInv, WholeInv, ScanInv, [Next]_vars
  PROVE  ScanInv'
<1>1. ASSUME UNCHANGED <<taken, commands, device>>
      PROVE  CommandsExact'
  BY <1>1 DEF ScanInv, CommandsExact, Lines
<1>2. CASE PutTerminator
  <2>1. pc' = "scan" /\ UNCHANGED <<taken, commands, device>>
    BY <1>2 DEF PutTerminator
  <2>2. LineEnd' = LineEnd /\ recv_vec'.cap = recv_vec.cap
        /\ (LineEnd < recv_vec.cap => recv_vec'.buf[LineEnd + 1] = ZERO)
    BY <1>2, TerminatorIs
  <2>3. (recv_vec.buf[LineEnd + 1])' = recv_vec'.buf[LineEnd + 1]
    BY <2>2
  <2> QED
    BY <1>1, <2>1, <2>2, <2>3 DEF ScanInv
<1>3. CASE ScanLine
  <2>0. pc = "scan" /\ device /\ device' = device /\ Found(recv_vec, written, NEWLINE)
    BY <1>3 DEF ScanLine, BaseInv
  <2>1. IsCommand(Scanned) <=> IsCommand(Line)
    BY <2>0, ScannedIsLine
  <2>2. CASE IsCommand(Scanned)
    <3>1. /\ taken' = taken \o SubSeq(recv_vec.buf, written + 1, LineEnd)
          /\ commands' = commands \union {<<Len(taken) + 1, Len(taken')>>}
          /\ pc' = "write"
      BY <1>3, <2>2 DEF ScanLine
    <3>2. Ended
      BY <2>0 DEF WholeInv, Running
    <3>3. LineEnd \in written + 1 .. recv_vec.len /\ LineEnd \in Nat /\ written \in Nat
      BY <2>0, LineEndIs
    <3>4. PICK rv \in Nat : rv = LineEnd - written
      <4>1. LineEnd - written \in Nat
        BY <3>3
      <4> QED
        BY <4>1
    <3>5. written + rv = LineEnd
      BY <3>3, <3>4
    <3>6. CommandsExact'
      BY <2>0, <2>1, <2>2, <3>1, <3>2, <3>4, <3>5, TakingKeepsExact DEF ScanInv
    <3> QED
      BY <3>1, <3>6 DEF ScanInv
  <2>3. CASE ~IsCommand(Scanned)
    <3>1. pc' = "line" /\ UNCHANGED <<taken, commands, device, written>>
      BY <1>3, <2>3 DEF ScanLine
    <3>2. Line' = Line
      <4>1. BaseInv'
        BY BaseKept
      <4>2. /\ LineEnd \in written + 1 .. recv_vec.len
            /\ recv_vec.buf # NULL /\ recv_vec.len \in Nat /\ recv_vec.cap \in Nat
            /\ recv_vec.len <= recv_vec.cap /\ LineEnd \in Nat /\ written \in Nat
        BY <2>0, LineEndIs
      <4>3. /\ Good(recv_vec') /\ recv_vec'.buf # NULL /\ recv_vec'.cap = recv_vec.cap
            /\ \A i \in 1 .. recv_vec.cap : recv_vec'.buf[i] = Byte(i)
            /\ vector_find(recv_vec', written, NEWLINE) + 1 = LineEnd
        BY <1>3, RestoredIs
      <4>4. PICK e \in Nat, w \in Nat : e = LineEnd /\ w = written /\ w < e /\ e <= recv_vec.cap
        BY <4>2
      <4>5. LineEnd' = e /\ written' = w
        BY <3>1, <4>3, <4>4 DEF LineEnd
      <4>6. /\ SubSeq(recv_vec.buf, w + 1, e) \in Seq(Bytes)
            /\ Len(SubSeq(recv_vec.buf, w + 1, e)) = e - w
            /\ \A i \in 1 .. e - w : SubSeq(recv_vec.buf, w + 1, e)[i] = recv_vec.buf[w + i]
        BY <4>2, <4>4, PartIs
      <4>7. PICK b \in Seq(Bytes) : b = recv_vec'.buf /\ Len(b) = recv_vec.cap
        BY <4>3 DEF Good, VectorRecord
      <4>8. /\ SubSeq(b, w + 1, e) \in Seq(Bytes)
            /\ Len(SubSeq(b, w + 1, e)) = e - w
            /\ \A i \in 1 .. e - w : SubSeq(b, w + 1, e)[i] = b[w + i]
        <5>1. PICK a \in Nat : a = w + 1
          OBVIOUS
        <5>2. 1 <= a /\ a <= e /\ e <= Len(b) /\ e - a + 1 = e - w
              /\ \A i \in 1 .. e - w : a + i - 1 = w + i
          BY <4>4, <4>7, <5>1
        <5>3. /\ SubSeq(b, a, e) \in Seq(Bytes) /\ Len(SubSeq(b, a, e)) = e - a + 1
              /\ \A i \in 1 .. e - a + 1 : SubSeq(b, a, e)[i] = b[a + i - 1]
          BY <5>2, SubSeqIs
        <5> QED
          BY <5>1, <5>2, <5>3
      <4>9. \A i \in 1 .. e - w : w + i \in 1 .. recv_vec.cap /\ w + i # e + 1
        BY <4>2, <4>4
      <4>10. \A i \in 1 .. e - w : b[w + i] = recv_vec.buf[w + i]
        BY <4>3, <4>4, <4>7, <4>9 DEF Byte
      <4>11. SubSeq(b, w + 1, e) = SubSeq(recv_vec.buf, w + 1, e)
        BY <4>6, <4>8, <4>10, SeqEqual
      <4> QED
        BY <4>4, <4>5, <4>7, <4>11 DEF Line
    <3> QED
      BY <1>1, <2>1, <2>3, <3>1, <3>2 DEF ScanInv
  <2> QED
    BY <2>2, <2>3
<1>4. CASE WriteLine
  <2>0. UNCHANGED <<device, commands>> /\ Found(recv_vec, written, NEWLINE)
        /\ pc = (IF device THEN "line" ELSE "write") /\ device \in BOOLEAN
        /\ pc' \in {"write", "exit"}
    BY <1>4 DEF WriteLine, scanVars, BaseInv
  <2>1. CASE pc' = "exit"
    BY <1>1, <1>4, <2>1 DEF WriteLine, ScanInv, scanVars
  <2>2. CASE pc' = "write" /\ device
    <3>1. PICK rv \in Nat : rv = LineEnd - written
                            /\ taken' = taken \o SubSeq(recv_vec.buf, written + 1, written + rv)
      BY <1>4, <2>2, WriteIs
    <3>2. Ended /\ ~IsCommand(Line)
      BY <2>0, <2>2 DEF WholeInv, Running, ScanInv
    <3>3. CommandsExact'
      BY <2>0, <2>2, <3>1, <3>2, TakingKeepsExact DEF ScanInv
    <3> QED
      BY <2>2, <3>3 DEF ScanInv
  <2>3. CASE pc' = "write" /\ ~device
    BY <2>0, <2>3 DEF ScanInv, CommandsExact
  <2> QED
    BY <2>0, <2>1, <2>2, <2>3
<1>5. CASE UNCHANGED <<taken, commands, device>> /\ pc' \notin {"scan", "line"}
  BY <1>1, <1>5 DEF ScanInv
<1>6. CASE vector_init
  BY <1>5, <1>6 DEF vector_init, scanVars
<1>7. CASE NextPacket
  BY <1>5, <1>7 DEF NextPacket, scanVars
<1>8. CASE Search
  BY <1>5, <1>8 DEF Search, scanVars
<1>9. CASE recv
  BY <1>5, <1>9 DEF recv, scanVars
<1>10. CASE vector_append_grow \/ vector_append_no_room \/ vector_append_copy
  BY <1>5, <1>10 DEF vector_append_grow, vector_append_no_room, vector_append_copy, scanVars
<1>11. CASE CarryOrReset
  BY <1>5, <1>11 DEF CarryOrReset, scanVars
<1>12. CASE thread_cleanup
  BY <1>5, <1>12 DEF thread_cleanup, scanVars
<1>13. CASE UNCHANGED vars
  BY <1>13 DEF vars, scanVars, ScanInv, CommandsExact, Lines, Line, LineEnd
<1> QED
  BY <1>2, <1>3, <1>4, <1>6, <1>7, <1>8, <1>9, <1>10, <1>11, <1>12, <1>13
     DEF Next, Step, Returned

-----------------------------------------------------------------------------
(* The theorems.                                                              *)

(* The invariant holds before the thread starts.                              *)
LEMMA Initially == Init => IInv
<1> SUFFICES ASSUME Init PROVE IInv
  OBVIOUS
<1>1. /\ pc = "init" /\ recv_vec = ClosedVector /\ device \in Builds
      /\ recv_buf = <<>> /\ received = 0 /\ written = 0 /\ temp_char = ZERO
      /\ stream = <<>> /\ taken = <<>> /\ commands = {}
  BY DEF Init
<1>2. <<>> \in Seq(Bytes) /\ Len(<<>>) = 0
  BY EmptySeq
<1>3. BaseInv
  BY <1>1, <1>2, NewVectors, BytesAssumption, BuildsAssumption DEF BaseInv, Running, Writing
<1>4. SearchInv /\ WholeInv
  BY <1>1 DEF SearchInv, WholeInv, Ended
<1>5. LostInv
  BY <1>1, <1>2, NewVectors DEF LostInv, Used, Writing
<1>6. ScanInv
  BY <1>1, <1>2 DEF ScanInv, CommandsExact, Lines
<1> QED
  BY <1>3, <1>4, <1>5, <1>6 DEF IInv

(* BaseInv, SearchInv, WholeInv and ScanInv hold together whatever memcpy     *)
(* does with overlapping bytes.                                               *)
LEMMA SafeAlways == Spec => [](BaseInv /\ SearchInv /\ WholeInv /\ ScanInv)
<1> DEFINE Safe == BaseInv /\ SearchInv /\ WholeInv /\ ScanInv
<1>1. Init => Safe
  BY Initially DEF IInv
<1>2. Safe /\ [Next]_vars => Safe'
  BY BaseKept, SearchKept, WholeKept, ScanKept
<1> QED
  BY <1>1, <1>2, PTL DEF Spec

(* The buffer of vector.c is always as long as its capacity says and holds    *)
(* its length: what vector_append copies into it, what growth and carry over  *)
(* copy out of it and what is searched and written from it lies inside.  It   *)
(* says nothing of the terminator, which may not (StoresInside).              *)
THEOREM VectorTyped == Spec => []TypeOK
<1>1. BaseInv => TypeOK
  <2> SUFFICES ASSUME BaseInv PROVE TypeOK
    OBVIOUS
  <2>1. /\ recv_vec.cap \in Nat /\ recv_vec.len \in 0 .. recv_vec.cap
        /\ IF recv_vec.buf = NULL THEN recv_vec.cap = 0 ELSE Len(recv_vec.buf) = recv_vec.cap
    BY DEF BaseInv, Good, VectorRecord
  <2>2. pc \in {"write", "scan", "line"} => written \in 0 .. recv_vec.len
    BY DEF BaseInv, Good, VectorRecord, Writing
  <2>3. pc \in {"init", "packet", "search", "recv", "append", "write", "scan", "line", "exit", "done"}
    BY DEF BaseInv, Running
  <2> QED
    BY <2>1, <2>2, <2>3 DEF TypeOK
<1> QED
  BY <1>1, SafeAlways, PTL

(* handle_connection waits in recv only when no complete line is left in the  *)
(* buffer, although it searches only the last chunk.                          *)
THEOREM NoLineIsLeftWaiting == Spec => []NoLineWaits
<1>1. SearchInv => NoLineWaits
  BY DEF SearchInv, NoLineWaits
<1> QED
  BY <1>1, SafeAlways, PTL

(* When handle_connection waits in recv, what it has written ends with the    *)
(* end of a line, also after short writes.                                    *)
THEOREM LinesAreWhole == Spec => []WholeLines
<1>1. WholeInv => WholeLines
  BY DEF WholeInv, WholeLines, Running, Ended
<1> QED
  BY <1>1, SafeAlways, PTL

(* With the device, handle_connection executes exactly the lines that are     *)
(* seek commands by themselves and writes all others: the terminator it puts  *)
(* behind a line keeps sscanf from reading on.                                *)
THEOREM CommandsAreExact == Spec => []CommandsExact
<1>1. ScanInv => CommandsExact
  BY DEF ScanInv
<1> QED
  BY <1>1, SafeAlways, PTL

(* u is s, which has m bytes, followed by t, which has n.                     *)
Joins(s, t, m, n, u) ==
  /\ Len(s) = m /\ Len(t) = n /\ Len(u) = m + n
  /\ \A i \in 1 .. m : u[i] = s[i]
  /\ \A i \in 1 .. n : u[m + i] = t[i]

(* A sequence whose bytes are those of two others in order is their           *)
(* concatenation.                                                             *)
LEMMA IsConcatenation ==
  ASSUME NEW s \in Seq(Bytes), NEW t \in Seq(Bytes), NEW u \in Seq(Bytes),
         NEW m \in Nat, NEW n \in Nat, Joins(s, t, m, n, u)
  PROVE  s \o t = u
<1>0. /\ Len(s) = m /\ Len(t) = n /\ Len(u) = m + n
      /\ \A i \in 1 .. m : u[i] = s[i]
      /\ \A i \in 1 .. n : u[m + i] = t[i]
  BY DEF Joins
<1>1. /\ s \o t \in Seq(Bytes) /\ Len(s \o t) = m + n
      /\ \A i \in 1 .. m + n : (s \o t)[i] = IF i <= m THEN s[i] ELSE t[i - m]
  BY <1>0, ConcatProperties
<1>2. ASSUME NEW i \in 1 .. m + n
      PROVE  (s \o t)[i] = u[i]
  <2>1. CASE i <= m
    BY <1>0, <1>1, <2>1
  <2>2. CASE ~(i <= m)
    <3>1. PICK j \in 1 .. n : i = m + j
      <4>1. i - m \in 1 .. n /\ i = m + (i - m)
        BY <2>2
      <4> QED
        BY <4>1
    <3>2. i - m = j
      BY <3>1
    <3> QED
      BY <1>0, <1>1, <2>2, <3>1, <3>2
  <2> QED
    BY <2>1, <2>2
<1> QED
  BY <1>0, <1>1, <1>2, SeqEqual

(* With a memcpy that copies forward, what handle_connection has written or   *)
(* executed and what is left in the buffer are always together what the       *)
(* client has sent, in order.  vector_carryover copies between overlapping    *)
(* places, which memcpy promises nothing about; the hypothesis is the         *)
(* behaviour of the C library that the code relies on.                        *)
THEOREM ForwardCopiesLoseNothing ==
  ASSUME CopyOrders \subseteq {"forward"}
  PROVE  Spec => []NothingLost
<1>1. IInv => NothingLost
  <2> SUFFICES ASSUME IInv, recv_vec.buf # NULL,
                      pc \in {"packet", "search", "recv", "append", "write", "line"}
               PROVE  taken \o Unwritten = stream
    BY DEF NothingLost
  <2>1. /\ BaseInv /\ recv_vec.len \in Nat /\ recv_vec.cap \in Nat /\ recv_vec.len <= recv_vec.cap
        /\ taken \in Seq(Bytes) /\ stream \in Seq(Bytes) /\ pc \in Running /\ pc # "scan"
    BY DEF IInv, BaseInv, Good, VectorRecord, Running
  <2>2. PICK u \in Nat : u = Used /\ u <= recv_vec.len
    BY <2>1 DEF Used, BaseInv
  <2>3. PICK m \in Nat, n \in Nat : m = Len(taken) /\ n = recv_vec.len - u
    <3>1. Len(taken) \in Nat /\ recv_vec.len - u \in Nat
      BY <2>1, <2>2
    <3> QED
      BY <3>1
  <2>4. Unwritten = SubSeq(recv_vec.buf, u + 1, recv_vec.len)
    BY <2>1, <2>2 DEF Unwritten, Used, Writing
  <2>5. /\ Unwritten \in Seq(Bytes) /\ Len(Unwritten) = n
        /\ \A i \in 1 .. n : Unwritten[i] = recv_vec.buf[u + i]
    <3>1. /\ SubSeq(recv_vec.buf, u + 1, recv_vec.len) \in Seq(Bytes)
          /\ Len(SubSeq(recv_vec.buf, u + 1, recv_vec.len)) = recv_vec.len - u
          /\ \A i \in 1 .. recv_vec.len - u :
               SubSeq(recv_vec.buf, u + 1, recv_vec.len)[i] = recv_vec.buf[u + i]
      BY <2>1, <2>2, PartIs
    <3> QED
      BY <2>3, <2>4, <3>1
  <2>6. /\ Len(stream) = m + n
        /\ \A i \in 1 .. m : stream[i] = taken[i]
        /\ \A i \in 1 .. n : stream[m + i] = recv_vec.buf[u + i]
    BY <2>1, <2>2, <2>3 DEF IInv, LostInv, Byte
  <2>7. \A i \in 1 .. n : stream[m + i] = Unwritten[i]
    BY <2>5, <2>6
  <2>8. PICK v \in Seq(Bytes), w \in Seq(Bytes), all \in Seq(Bytes) : v = taken /\ w = Unwritten /\ all = stream
    BY <2>1, <2>5
  <2>9. Joins(v, w, m, n, all)
    BY <2>3, <2>5, <2>6, <2>7, <2>8 DEF Joins
  <2>10. v \o w = all
    BY <2>9, IsConcatenation
  <2> QED
    BY <2>8, <2>10
<1>2. IInv /\ [Next]_vars => IInv'
  BY BaseKept, SearchKept, WholeKept, LostKept, ScanKept DEF IInv
<1> QED
  BY <1>1, <1>2, Initially, PTL DEF Spec
=============================================================================
