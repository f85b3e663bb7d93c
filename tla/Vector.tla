------------------------------- MODULE Vector -------------------------------
(***************************************************************************)
(* The growing byte array of server/vector.c: its functions as operators   *)
(* on records with the fields of the C struct.  Offsets count from 0, as   *)
(* in the code; the byte at offset i is buf[i + 1].                        *)
(***************************************************************************)
EXTENDS Naturals, Sequences, FiniteSetsExt

CONSTANTS
  Bytes,             \* what an unsigned char may be
  VECTOR_BASE_SIZE,  \* the first capacity, 4096 in the build
  NULL,              \* the null pointer
  ZERO               \* the byte that memset stores

ASSUME BaseAssumption == VECTOR_BASE_SIZE \in Nat \ {0}
ASSUME BytesAssumption == ZERO \in Bytes /\ NULL \notin Seq(Bytes)

Zeroes(n) == [i \in 1 .. n |-> ZERO]

InitVector == [buf |-> Zeroes(VECTOR_BASE_SIZE), len |-> 0, cap |-> VECTOR_BASE_SIZE]

\* What vector_init leaves when malloc fails.
InitFailed(vec) == [vec EXCEPT !.buf = NULL]

\* Mutation: off by one at the end of the buffer.
TooSmallLate(vec, data) == vec.cap + 1 < vec.len + Len(data)

\* The loop condition of vector_append.
TooSmall(vec, data) == vec.cap < vec.len + Len(data)

\* Mutation: half of the old bytes are copied.
GrownKeepsHalf(vec) ==
  [vec EXCEPT !.cap = 2 * vec.cap,
              !.buf = [i \in 1 .. 2 * vec.cap |->
                         IF i <= vec.len \div 2 THEN vec.buf[i] ELSE ZERO]]

\* Mutation: the new buffer is as large as the old one.
GrownNever(vec) == vec

\* One pass of the loop of vector_append.
Grown(vec) ==
  [vec EXCEPT !.cap = 2 * vec.cap,
              !.buf = [i \in 1 .. 2 * vec.cap |->
                         IF i <= vec.len THEN vec.buf[i] ELSE ZERO]]

\* vector_append behind its loop.
Appended(vec, data) ==
  [vec EXCEPT !.len = vec.len + Len(data),
              !.buf = [i \in DOMAIN vec.buf |->
                         IF i \in vec.len + 1 .. vec.len + Len(data)
                           THEN data[i - vec.len] ELSE vec.buf[i]]]

(***************************************************************************)
(* The index of the byte that a memcpy of n bytes from offset used to      *)
(* offset 0 leaves at index i.  The C standard leaves the result of an     *)
(* overlapping memcpy open: a copy that runs backward reads bytes it has   *)
(* already overwritten.                                                    *)
(***************************************************************************)
CopiedFrom(order, used, n, i) ==
  IF order = "forward" THEN i + used ELSE i + used * ((n - i + used) \div used)

\* vector_carryover of a vector of which used > 0 bytes have been used.
Carryover(vec, used, order) ==
  [vec EXCEPT !.len = vec.len - used,
              !.buf = [i \in 1 .. vec.cap |->
                         IF i <= vec.len - used
                           THEN vec.buf[CopiedFrom(order, used, vec.len - used, i)]
                           ELSE vec.buf[i]]]

\* The offsets at which the loop of vector_find sees token.
Matches(vec, offset, token) == {i \in offset .. vec.len - 1 : vec.buf[i + 1] = token}

Found(vec, offset, token) == Matches(vec, offset, token) # {}

\* What vector_find returns if it finds token.
vector_find(vec, offset, token) == Min(Matches(vec, offset, token))

ClosedVector == [buf |-> NULL, len |-> 0, cap |-> 0]
=============================================================================
