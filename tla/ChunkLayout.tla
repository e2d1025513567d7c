------------------------------ MODULE ChunkLayout ------------------------------
(***************************************************************************)
(* How the sender cuts a file into chunks (transfer/mod.rs, sender.rs) and *)
(* what the receiver accepts as the header of one (receiver.rs), with      *)
(* theorems for every file, number of connections and option --chunk.      *)
(* Transfer takes the chunks as a set; this module is why that is sound:   *)
(* they cover the file without gap or overlap, and none is refused.        *)
(***************************************************************************)
EXTENDS Integers, TLAPS

MIN_CHUNK == 262144              \* 256 KiB
MIN_CHUNK_ARG == 65536           \* the least and the greatest --chunk
MAX_CHUNK_ARG == 268435456
U32 == 4294967296                \* the number of values of a u32

\* parse_chunk_size: the values --chunk may have.
Allowed(k) == MIN_CHUNK_ARG <= k /\ k <= MAX_CHUNK_ARG

Least(a, b) == IF a <= b THEN a ELSE b
Greatest(a, b) == IF a >= b THEN a ELSE b

\* chunk_size_fuer: the chunk size for so many streams, k being the option.
ChunkSize(file, streams, k) ==
  Greatest(Least(MIN_CHUNK, k),
           Least(k, Greatest(1, file \div (2 * Greatest(1, streams)))))

\* The number of chunks of size c, cast to u32.
TotalChunks(file, c) == ((file + c - 1) \div c) % U32

Offset(i, c) == i * c
Length(i, c, file) ==
  Least(IF file >= Offset(i, c) THEN file - Offset(i, c) ELSE 0, c)

\* The checks of receiver_worker for chunk number i at an offset.
Accepted(i, offset, len, file, total) == i < total /\ offset < file /\ len <= file - offset

----------------------------------------------------------------------------
\* What the quotient of two numbers is: the greatest number that goes into the first.
LEMMA Quotient ==
  ASSUME NEW x \in Nat, NEW c \in Nat, c > 0
  PROVE  /\ x \div c \in Nat
         /\ c * (x \div c) <= x
         /\ x < c * (x \div c) + c
BY SMT

\* A later chunk begins where the one before it, had it full length, would end, or behind.
LEMMA Later ==
  ASSUME NEW i \in Int, NEW j \in Int, NEW c \in Nat, i < j
  PROVE  i * c + c <= j * c
BY SMT

\* The option and the file between them leave a chunk size that the option's limits
\* allow and that STREAM_INFO, which carries it as a u32, does not change.
THEOREM ChunkSizeBounds ==
  ASSUME NEW file \in Nat, NEW streams \in Nat, NEW k \in Nat, Allowed(k)
  PROVE  LET c == ChunkSize(file, streams, k) IN c \in Nat /\ MIN_CHUNK_ARG <= c /\ c <= k /\ k < U32
<1>. DEFINE s == 2 * Greatest(1, streams)
            q == file \div s
<1>1. s \in Nat /\ s > 0
  BY DEF Greatest
<1>2. q \in Nat
  BY <1>1, Quotient
<1>. HIDE DEF q
<1>3. ASSUME NEW c, c = Greatest(Least(MIN_CHUNK, k), Least(k, Greatest(1, q)))
      PROVE  c \in Nat /\ MIN_CHUNK_ARG <= c /\ c <= k
  <2>1. k >= MIN_CHUNK_ARG /\ MIN_CHUNK_ARG \in Nat
    BY SMT DEF Allowed, MIN_CHUNK_ARG
  <2>2. MIN_CHUNK \in Nat /\ MIN_CHUNK >= MIN_CHUNK_ARG
    BY SMT DEF MIN_CHUNK, MIN_CHUNK_ARG
  <2>. QED
    BY <1>2, <1>3, <2>1, <2>2 DEF Greatest, Least
<1>4. k < U32
  BY SMT DEF Allowed, MAX_CHUNK_ARG, U32
<1>. QED
  BY <1>3, <1>4 DEF ChunkSize, q, s

\* The cast of the number of chunks to u32 (sender.rs:172, receiver.rs:181) loses nothing
\* for files up to 256 TiB, whatever chunk size the option's limits allow.
THEOREM NumberFits ==
  ASSUME NEW file \in Nat, NEW c \in Nat, c >= MIN_CHUNK_ARG,
         file <= MIN_CHUNK_ARG * (U32 - 1)
  PROVE  /\ (file + c - 1) \div c < U32
         /\ TotalChunks(file, c) = (file + c - 1) \div c
<1>. DEFINE q == (file + c - 1) \div c
<1>1. c > 0 /\ file + c - 1 \in Nat
  BY SMT DEF MIN_CHUNK_ARG
<1>2. q \in Nat /\ c * q <= file + c - 1
  BY <1>1, Quotient
<1>. HIDE DEF q
<1>3. q < U32
  <2>1. SUFFICES ASSUME q >= U32 PROVE FALSE
    BY SMT, <1>2 DEF U32
  <2>2. c * (q - 1) <= file - 1
    BY <1>2
  <2>3. MIN_CHUNK_ARG * (U32 - 1) <= c * (q - 1)
    BY SMT, <2>1, <1>2 DEF MIN_CHUNK_ARG, U32
  <2>. QED
    BY SMT, <1>2, <2>2, <2>3 DEF MIN_CHUNK_ARG, U32
<1>4. q % U32 = q
  BY SMT, <1>2, <1>3 DEF U32
<1>. QED
  BY <1>3, <1>4 DEF TotalChunks, q

\* The chunks cover the file: every chunk has at least one byte and at most the chunk size,
\* the receiver refuses none of them (receiver.rs:293-309), no two overlap, and every byte
\* of the file lies in one.  A file of no bytes has no chunks.
THEOREM ChunksTileTheFile ==
  ASSUME NEW file \in Nat, NEW c \in Nat, c > 0,
         NEW n \in Nat, n = (file + c - 1) \div c
  PROVE  /\ \A i \in 0 .. n - 1 :
              /\ Length(i, c, file) \in 1 .. c
              /\ Accepted(i, Offset(i, c), Length(i, c, file), file, n)
         /\ \A i, j \in 0 .. n - 1 :
              i < j => Offset(i, c) + Length(i, c, file) <= Offset(j, c)
         /\ \A b \in 0 .. file - 1 : \E i \in 0 .. n - 1 :
              Offset(i, c) <= b /\ b < Offset(i, c) + Length(i, c, file)
         /\ file = 0 => n = 0
<1>1. c * n <= file + c - 1 /\ file + c - 1 < c * n + c
  <2>1. file + c - 1 \in Nat
    OBVIOUS
  <2>. QED
    BY <2>1, Quotient
<1>2. ASSUME NEW i \in 0 .. n - 1
      PROVE  /\ i * c \in Nat
             /\ i * c < file
             /\ Length(i, c, file) = Least(file - i * c, c)
  <2>1. i * c + c <= n * c /\ i * c \in Nat
    BY Later
  <2>2. n * c = c * n
    OBVIOUS
  <2>3. i * c < file
    BY <1>1, <2>1, <2>2
  <2>. QED
    BY <2>1, <2>3 DEF Length, Offset
<1>3. ASSUME NEW i \in 0 .. n - 1
      PROVE  /\ Length(i, c, file) \in 1 .. c
             /\ Accepted(i, Offset(i, c), Length(i, c, file), file, n)
  BY <1>2 DEF Least, Accepted, Offset
<1>4. ASSUME NEW i \in 0 .. n - 1, NEW j \in 0 .. n - 1, i < j
      PROVE  Offset(i, c) + Length(i, c, file) <= Offset(j, c)
  <2>1. i * c + c <= j * c
    BY <1>4, Later
  <2>2. Length(i, c, file) \in 1 .. c /\ i * c \in Nat /\ j * c \in Nat
    BY <1>2, <1>3
  <2>. QED
    BY <2>1, <2>2 DEF Offset
<1>5. ASSUME NEW b \in 0 .. file - 1
      PROVE  \E i \in 0 .. n - 1 :
               Offset(i, c) <= b /\ b < Offset(i, c) + Length(i, c, file)
  <2>. DEFINE i == b \div c
  <2>1. i \in Nat /\ c * i <= b /\ b < c * i + c
    BY Quotient
  <2>. HIDE DEF i
  <2>2. i * c = c * i
    BY <2>1
  <2>3. i < n
    <3>1. SUFFICES ASSUME n <= i PROVE FALSE
      BY <2>1
    <3>2. c * n <= c * i
      BY <2>1, <3>1
    <3>. QED
      BY <1>1, <2>1, <3>2
  <2>4. i \in 0 .. n - 1
    BY <2>1, <2>3
  <2>5. Length(i, c, file) = Least(file - i * c, c)
    BY <1>2, <2>4
  <2>6. Offset(i, c) <= b /\ b < Offset(i, c) + Length(i, c, file)
    BY <2>1, <2>2, <2>5 DEF Offset, Least
  <2>. QED
    BY <2>4, <2>6
<1>6. file = 0 => n = 0
  <2>1. SUFFICES ASSUME file = 0, n >= 1 PROVE FALSE
    OBVIOUS
  <2>2. c <= c * n
    BY <2>1
  <2>. QED
    BY <1>1, <2>1, <2>2
<1>. QED
  BY <1>3, <1>4, <1>5, <1>6

\* "At least two chunks for each stream" (mod.rs:104-108): so many there are, unless they
\* would be smaller than MIN_CHUNK.
THEOREM TwoChunksPerStream ==
  ASSUME NEW streams \in Nat, streams > 0,
         NEW k \in Nat, Allowed(k),
         NEW file \in Nat, file >= 2 * streams * MIN_CHUNK
  PROVE  (file + ChunkSize(file, streams, k) - 1) \div ChunkSize(file, streams, k)
           >= 2 * streams
<1>. DEFINE s == 2 * streams
            q == file \div s
            c == ChunkSize(file, streams, k)
            n == (file + c - 1) \div c
<1>1. s \in Nat /\ s > 0 /\ s = 2 * Greatest(1, streams)
  BY DEF Greatest
<1>2. q \in Nat /\ s * q <= file /\ file < s * q + s
  BY <1>1, Quotient
<1>3. c = Greatest(Least(MIN_CHUNK, k), Least(k, Greatest(1, q)))
  BY <1>1 DEF ChunkSize
<1>4. file >= s * MIN_CHUNK
  BY SMT DEF MIN_CHUNK
<1>. HIDE DEF q, s, c
<1>5. q >= MIN_CHUNK
  <2>1. SUFFICES ASSUME q + 1 <= MIN_CHUNK PROVE FALSE
    BY SMT, <1>2 DEF MIN_CHUNK
  <2>2. s * (q + 1) <= s * MIN_CHUNK
    BY SMT, <1>1, <1>2, <2>1 DEF MIN_CHUNK
  <2>3. s * (q + 1) = s * q + s
    BY <1>1, <1>2
  <2>. QED
    BY SMT, <1>1, <1>2, <1>4, <2>2, <2>3 DEF MIN_CHUNK
<1>6. c \in Nat /\ c > 0 /\ c <= q
  <2>1. k > 0
    BY SMT DEF Allowed, MIN_CHUNK_ARG
  <2>2. MIN_CHUNK \in Nat /\ MIN_CHUNK > 0
    BY SMT DEF MIN_CHUNK
  <2>. QED
    BY <1>2, <1>3, <1>5, <2>1, <2>2 DEF Greatest, Least
<1>7. s * c <= file
  <2>1. s * c <= s * q
    BY <1>1, <1>2, <1>6
  <2>. QED
    BY <1>1, <1>2, <1>6, <2>1
<1>8. n \in Nat /\ file + c - 1 < c * n + c
  <2>1. file + c - 1 \in Nat
    BY <1>6
  <2>. QED
    BY <1>6, <2>1, Quotient
<1>. HIDE DEF n
<1>9. n >= s
  <2>1. SUFFICES ASSUME n + 1 <= s PROVE FALSE
    BY <1>1, <1>8
  <2>2. c * (n + 1) <= c * s /\ c * s = s * c /\ c * (n + 1) = c * n + c
    BY <1>1, <1>6, <1>8, <2>1
  <2>. QED
    BY <1>1, <1>6, <1>7, <1>8, <2>2
<1>. QED
  BY <1>9 DEF n, c, s
=============================================================================
