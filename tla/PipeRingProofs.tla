--------------------------- MODULE PipeRingProofs ---------------------------
(***************************************************************************)
(* The ring buffer of a pipe implements the byte stream, for every         *)
(* capacity, every limit on ends and every set of messages.                *)
(***************************************************************************)
EXTENDS PipeRing, PipeProofs, SequenceTheorems

\* What a pipe needs to keep beside its type: it is in use as long as it has
\* an end, and when it is not, it holds no byte.
RingInv ==
    /\ pipe \in PipeRec
    /\ pipe.used <=> pipe.n_readers + pipe.n_writers > 0
    /\ ~pipe.used => pipe.len = 0

\* The bytes of pipe p, oldest first.
Data(p) == read_data(p, p.len)

-----------------------------------------------------------------------------
(* Going round the ring.                                                   *)

\* The cell k places after cell h, without the remainder.
LEMMA RingPos ==
    ASSUME NEW h \in 0 .. PIPE_CAP - 1, NEW k \in 0 .. PIPE_CAP
    PROVE  /\ (h + k) % PIPE_CAP = IF h + k < PIPE_CAP THEN h + k ELSE h + k - PIPE_CAP
           /\ (h + k) % PIPE_CAP \in 0 .. PIPE_CAP - 1
<1>1. PIPE_CAP \in Nat \ {0}
  BY PipeAssumption
<1>2. \A b \in Nat \ {0} : \A a \in 0 .. b - 1 : a % b = a /\ (a + b) % b = a
  OBVIOUS
<1>3. CASE h + k < PIPE_CAP
  <2>1. h + k \in 0 .. PIPE_CAP - 1
    BY <1>1, <1>3
  <2> QED
    BY <1>1, <1>2, <1>3, <2>1
<1>4. CASE ~(h + k < PIPE_CAP)
  <2>1. h + k - PIPE_CAP \in 0 .. PIPE_CAP - 1
    BY <1>1, <1>4
  <2>2. ((h + k - PIPE_CAP) + PIPE_CAP) % PIPE_CAP = h + k - PIPE_CAP
    BY <1>1, <1>2, <2>1
  <2>3. (h + k - PIPE_CAP) + PIPE_CAP = h + k
    BY <1>1
  <2> QED
    BY <1>4, <2>1, <2>2, <2>3
<1> QED
  BY <1>3, <1>4

\* Going a places and then b is going a + b places.
LEMMA RingAdd ==
    ASSUME NEW h \in 0 .. PIPE_CAP - 1, NEW a \in Nat, NEW b \in Nat, a + b <= PIPE_CAP
    PROVE  (((h + a) % PIPE_CAP) + b) % PIPE_CAP = (h + (a + b)) % PIPE_CAP
<1> DEFINE j == (h + a) % PIPE_CAP
<1>1. /\ PIPE_CAP \in Nat \ {0}
      /\ a \in 0 .. PIPE_CAP /\ b \in 0 .. PIPE_CAP /\ a + b \in 0 .. PIPE_CAP
  BY PipeAssumption
<1>2. /\ j = IF h + a < PIPE_CAP THEN h + a ELSE h + a - PIPE_CAP
      /\ j \in 0 .. PIPE_CAP - 1
  BY <1>1, RingPos
<1> HIDE DEF j
<1>3. (j + b) % PIPE_CAP = IF j + b < PIPE_CAP THEN j + b ELSE j + b - PIPE_CAP
  BY <1>1, <1>2, RingPos
<1>4. (h + (a + b)) % PIPE_CAP
        = IF h + (a + b) < PIPE_CAP THEN h + (a + b) ELSE h + (a + b) - PIPE_CAP
  BY <1>1, RingPos
<1>5. (j + b) % PIPE_CAP = (h + (a + b)) % PIPE_CAP
  BY <1>1, <1>2, <1>3, <1>4
<1> QED
  BY <1>5 DEF j

\* How far the cell k places after h is from the one l places after h: where
\* write_pipe_buf finds the byte of src for a cell.
LEMMA RingOff ==
    ASSUME NEW h \in 0 .. PIPE_CAP - 1, NEW l \in 0 .. PIPE_CAP, NEW k \in 0 .. PIPE_CAP - 1
    PROVE  (((h + k) % PIPE_CAP) - ((h + l) % PIPE_CAP) + PIPE_CAP) % PIPE_CAP
              = IF k >= l THEN k - l ELSE PIPE_CAP - l + k
<1> DEFINE j == (h + k) % PIPE_CAP
           t == (h + l) % PIPE_CAP
<1>1. PIPE_CAP \in Nat \ {0}
  BY PipeAssumption
<1>2. /\ j = IF h + k < PIPE_CAP THEN h + k ELSE h + k - PIPE_CAP
      /\ j \in 0 .. PIPE_CAP - 1
  <2>1. k \in 0 .. PIPE_CAP
    BY <1>1
  <2> QED
    BY <2>1, RingPos
<1>3. /\ t = IF h + l < PIPE_CAP THEN h + l ELSE h + l - PIPE_CAP
      /\ t \in 0 .. PIPE_CAP - 1
  BY RingPos
<1> HIDE DEF j, t
<1>4. PIPE_CAP - t \in 0 .. PIPE_CAP
  BY <1>1, <1>3
<1>5. j + (PIPE_CAP - t) = j - t + PIPE_CAP
  BY <1>1, <1>2, <1>3
<1>6. (j - t + PIPE_CAP) % PIPE_CAP
        = IF j + (PIPE_CAP - t) < PIPE_CAP THEN j + (PIPE_CAP - t)
          ELSE j + (PIPE_CAP - t) - PIPE_CAP
  BY <1>2, <1>4, <1>5, RingPos
<1>7. (j - t + PIPE_CAP) % PIPE_CAP = IF k >= l THEN k - l ELSE PIPE_CAP - l + k
  BY <1>1, <1>2, <1>3, <1>6
<1> QED
  BY <1>7 DEF j, t

\* A function on 1 .. n is a sequence of length n.
LEMMA FnIsSeq ==
    ASSUME NEW S, NEW n \in Nat, NEW f \in [1 .. n -> S]
    PROVE  f \in Seq(S) /\ Len(f) = n
<1>1. f \in Seq(S)
  BY SeqDef
<1>2. Len(f) \in Nat /\ DOMAIN f = 1 .. Len(f)
  BY <1>1, LenProperties
<1>3. DOMAIN f = 1 .. n
  OBVIOUS
<1>4. \A k \in Nat \ {0} : k <= Len(f) <=> k <= n
  BY <1>2, <1>3
<1> QED
  BY <1>1, <1>2, <1>4

\* The bytes of a pipe are a sequence of its length, read off from the head on.
LEMMA DataSeq ==
    ASSUME NEW p \in PipeRec
    PROVE  /\ Data(p) \in Seq(Bytes) /\ Len(Data(p)) = p.len
           /\ \A i \in 1 .. p.len : Data(p)[i] = p.buf[(p.head + (i - 1)) % PIPE_CAP]
<1>1. /\ PIPE_CAP \in Nat \ {0} /\ p.len \in 0 .. PIPE_CAP /\ p.head \in 0 .. PIPE_CAP - 1
      /\ p.buf \in [0 .. PIPE_CAP - 1 -> Bytes] /\ p.len \in Nat
  BY PipeAssumption DEF PipeRec
<1>2. Data(p) = [i \in 1 .. p.len |-> p.buf[(p.head + i - 1) % PIPE_CAP]]
  BY <1>1 DEF Data, read_data, read_count
<1>3. \A i \in 1 .. p.len : p.head + i - 1 = p.head + (i - 1) /\ i - 1 \in 0 .. PIPE_CAP
  BY <1>1
<1>4. \A i \in 1 .. p.len : p.buf[(p.head + i - 1) % PIPE_CAP] \in Bytes
  BY <1>1, <1>3, RingPos
<1>5. Data(p) \in [1 .. p.len -> Bytes]
  BY <1>2, <1>4
<1>6. Data(p) \in Seq(Bytes) /\ Len(Data(p)) = p.len
  BY <1>1, <1>5, FnIsSeq
<1>7. \A i \in 1 .. p.len : Data(p)[i] = p.buf[(p.head + (i - 1)) % PIPE_CAP]
  BY <1>2, <1>3
<1> QED
  BY <1>6, <1>7

\* A read of at most want bytes copies out the oldest ones and leaves the others
\* in their order, though head moves and wraps.
LEMMA ReadData ==
    ASSUME NEW p \in PipeRec, NEW want \in Nat
    PROVE  LET n == read_count(p, want) IN
           /\ n \in 0 .. p.len
           /\ read_data(p, want) = SubSeq(Data(p), 1, n)
           /\ Data(read_pipe_buf(p, want)) = SubSeq(Data(p), n + 1, p.len)
<1> DEFINE n == read_count(p, want)
           q == read_pipe_buf(p, want)
<1>1. /\ PIPE_CAP \in Nat \ {0} /\ p.len \in 0 .. PIPE_CAP /\ p.head \in 0 .. PIPE_CAP - 1
      /\ p.buf \in [0 .. PIPE_CAP - 1 -> Bytes] /\ p.len \in Nat
  BY PipeAssumption DEF PipeRec
<1>2. n \in 0 .. p.len /\ n \in 0 .. PIPE_CAP
  BY <1>1 DEF read_count
<1>3. q \in PipeRec
  BY ReadType
<1>4. q.buf = p.buf /\ q.head = (p.head + n) % PIPE_CAP /\ q.len = p.len - n
  BY DEF read_pipe_buf, PipeRec
<1>5. read_data(p, want) = [i \in 1 .. n |-> p.buf[(p.head + i - 1) % PIPE_CAP]]
  BY DEF read_data
<1> HIDE DEF n, q
<1>6. \A i \in 1 .. n : /\ p.head + i - 1 = p.head + (i - 1)
                        /\ i \in 1 .. p.len /\ i - 1 \in 0 .. PIPE_CAP
  BY <1>1, <1>2
<1>7. \A i \in 1 .. n : p.buf[(p.head + i - 1) % PIPE_CAP] = Data(p)[i]
  BY <1>6, DataSeq
<1>8. /\ SubSeq(Data(p), 1, n) \in Seq(Bytes) /\ Len(SubSeq(Data(p), 1, n)) = n
      /\ \A i \in 1 .. n : SubSeq(Data(p), 1, n)[i] = Data(p)[i]
  <2>1. \A i \in 1 .. n : Data(p)[i] \in Bytes
    BY <1>6, DataSeq, ElementOfSeq
  <2>2. /\ SubSeq(Data(p), 1, n) \in Seq(Bytes)
        /\ Len(SubSeq(Data(p), 1, n)) = IF 1 <= n THEN n - 1 + 1 ELSE 0
        /\ \A i \in 1 .. n - 1 + 1 : SubSeq(Data(p), 1, n)[i] = Data(p)[1 + i - 1]
    BY <1>2, <2>1, SubSeqProperties
  <2>3. \A i \in 1 .. n : 1 + i - 1 = i /\ i \in 1 .. n - 1 + 1
    BY <1>2
  <2>4. (IF 1 <= n THEN n - 1 + 1 ELSE 0) = n
    BY <1>2
  <2> QED
    BY <2>2, <2>3, <2>4
<1>9. /\ read_data(p, want) \in Seq(Bytes) /\ Len(read_data(p, want)) = n
      /\ \A i \in 1 .. n : read_data(p, want)[i] = Data(p)[i]
  <2>1. \A i \in 1 .. n : read_data(p, want)[i] = Data(p)[i]
    BY <1>5, <1>7
  <2>2. \A i \in 1 .. n : Data(p)[i] \in Bytes
    BY <1>6, DataSeq, ElementOfSeq
  <2>3. read_data(p, want) \in [1 .. n -> Bytes]
    BY <1>5, <1>7, <2>2
  <2> QED
    BY <1>2, <2>1, <2>3, FnIsSeq
<1>10. read_data(p, want) = SubSeq(Data(p), 1, n)
  BY <1>8, <1>9, SeqEqual
<1>11. /\ SubSeq(Data(p), n + 1, p.len) \in Seq(Bytes)
       /\ Len(SubSeq(Data(p), n + 1, p.len)) = p.len - n
       /\ \A i \in 1 .. p.len - n : SubSeq(Data(p), n + 1, p.len)[i] = Data(p)[n + i]
  <2>1. \A i \in n + 1 .. p.len : Data(p)[i] \in Bytes
    <3>1. \A i \in n + 1 .. p.len : i \in 1 .. p.len
      BY <1>1, <1>2
    <3> QED
      BY <3>1, DataSeq, ElementOfSeq
  <2>2. /\ SubSeq(Data(p), n + 1, p.len) \in Seq(Bytes)
        /\ Len(SubSeq(Data(p), n + 1, p.len))
              = IF n + 1 <= p.len THEN p.len - (n + 1) + 1 ELSE 0
        /\ \A i \in 1 .. p.len - (n + 1) + 1 :
              SubSeq(Data(p), n + 1, p.len)[i] = Data(p)[(n + 1) + i - 1]
    BY <1>1, <1>2, <2>1, SubSeqProperties
  <2>3. \A i \in 1 .. p.len - n : (n + 1) + i - 1 = n + i /\ i \in 1 .. p.len - (n + 1) + 1
    BY <1>1, <1>2
  <2>4. (IF n + 1 <= p.len THEN p.len - (n + 1) + 1 ELSE 0) = p.len - n
    BY <1>1, <1>2
  <2> QED
    BY <2>2, <2>3, <2>4
<1>12. \A i \in 1 .. p.len - n : Data(q)[i] = Data(p)[n + i]
  <2> TAKE i \in 1 .. p.len - n
  <2>1. /\ i - 1 \in 0 .. PIPE_CAP /\ n + (i - 1) \in 0 .. PIPE_CAP
        /\ n + i \in 1 .. p.len /\ (n + i) - 1 = n + (i - 1)
    BY <1>1, <1>2
  <2>2. Data(q)[i] = p.buf[(((p.head + n) % PIPE_CAP) + (i - 1)) % PIPE_CAP]
    BY <1>3, <1>4, DataSeq
  <2>3. Data(p)[n + i] = p.buf[(p.head + (n + (i - 1))) % PIPE_CAP]
    BY <2>1, DataSeq
  <2>4. (((p.head + n) % PIPE_CAP) + (i - 1)) % PIPE_CAP = (p.head + (n + (i - 1))) % PIPE_CAP
    <3>1. n \in Nat /\ i - 1 \in Nat /\ n + (i - 1) <= PIPE_CAP
      BY <1>1, <1>2, <2>1
    <3> QED
      BY <1>1, <3>1, RingAdd
  <2> QED
    BY <2>2, <2>3, <2>4
<1>13. Data(q) = SubSeq(Data(p), n + 1, p.len)
  <2>1. Data(q) \in Seq(Bytes) /\ Len(Data(q)) = p.len - n
    BY <1>3, <1>4, DataSeq
  <2> QED
    BY <2>1, <1>11, <1>12, SeqEqual
<1> QED
  BY <1>2, <1>10, <1>13 DEF n, q

\* A write appends the first bytes of src, as many as there is room for, behind
\* the bytes that are there, and changes none of these, though tail wraps.
LEMMA WriteData ==
    ASSUME NEW p \in PipeRec, NEW src \in Seq(Bytes)
    PROVE  LET n == write_count(p, src) IN
           Data(write_pipe_buf(p, src)) = Data(p) \o SubSeq(src, 1, n)
<1> DEFINE n == write_count(p, src)
           q == write_pipe_buf(p, src)
           tail == (p.head + p.len) % PIPE_CAP
           off(j) == (j - tail + PIPE_CAP) % PIPE_CAP
           new == SubSeq(src, 1, n)
<1>1. /\ PIPE_CAP \in Nat \ {0} /\ p.len \in 0 .. PIPE_CAP /\ p.head \in 0 .. PIPE_CAP - 1
      /\ p.buf \in [0 .. PIPE_CAP - 1 -> Bytes] /\ p.len \in Nat /\ Len(src) \in Nat
  BY PipeAssumption DEF PipeRec
<1>2. n \in Nat /\ n <= Len(src) /\ p.len + n <= PIPE_CAP
  BY <1>1 DEF write_count
<1>3. q \in PipeRec
  BY WriteType
<1>4. /\ q.head = p.head /\ q.len = p.len + n
      /\ q.buf = [j \in 0 .. PIPE_CAP - 1 |-> IF off(j) < n THEN src[off(j) + 1] ELSE p.buf[j]]
  BY DEF write_pipe_buf, PipeRec
<1> HIDE DEF n, q
<1>5. new \in Seq(Bytes) /\ Len(new) = n /\ \A i \in 1 .. n : new[i] = src[i]
  <2>1. \A i \in 1 .. n : src[i] \in Bytes
    BY <1>1, <1>2, ElementOfSeq
  <2>2. /\ new \in Seq(Bytes) /\ Len(new) = IF 1 <= n THEN n - 1 + 1 ELSE 0
        /\ \A i \in 1 .. n - 1 + 1 : new[i] = src[1 + i - 1]
    BY <1>2, <2>1, SubSeqProperties
  <2>3. \A i \in 1 .. n : 1 + i - 1 = i /\ i \in 1 .. n - 1 + 1
    BY <1>2
  <2>4. (IF 1 <= n THEN n - 1 + 1 ELSE 0) = n
    BY <1>2
  <2> HIDE DEF new
  <2> QED
    BY <2>2, <2>3, <2>4
<1> HIDE DEF new
<1>6. /\ Data(p) \o new \in Seq(Bytes) /\ Len(Data(p) \o new) = p.len + n
      /\ \A i \in 1 .. p.len + n :
            (Data(p) \o new)[i] = IF i <= p.len THEN Data(p)[i] ELSE new[i - p.len]
  <2>1. Data(p) \in Seq(Bytes) /\ Len(Data(p)) = p.len
    BY DataSeq
  <2>2. /\ Data(p) \o new \in Seq(Bytes)
        /\ Len(Data(p) \o new) = Len(Data(p)) + Len(new)
        /\ \A i \in 1 .. Len(Data(p)) + Len(new) : (Data(p) \o new)[i] =
                IF i <= Len(Data(p)) THEN Data(p)[i] ELSE new[i - Len(Data(p))]
    BY <1>5, <2>1, ConcatProperties, Zenon
  <2> QED
    BY <1>5, <2>1, <2>2, Zenon
<1>7. /\ Data(q) \in Seq(Bytes) /\ Len(Data(q)) = p.len + n
      /\ \A i \in 1 .. p.len + n : Data(q)[i] = q.buf[(p.head + (i - 1)) % PIPE_CAP]
  <2>1. /\ Data(q) \in Seq(Bytes) /\ Len(Data(q)) = q.len
        /\ \A i \in 1 .. q.len : Data(q)[i] = q.buf[(q.head + (i - 1)) % PIPE_CAP]
    BY <1>3, DataSeq
  <2>2. q.head = p.head /\ q.len = p.len + n
    BY <1>4
  <2> QED
    BY <2>1, <2>2
<1>8. \A i \in 1 .. p.len + n : Data(q)[i] = (Data(p) \o new)[i]
  <2> TAKE i \in 1 .. p.len + n
  <2> DEFINE j == (p.head + (i - 1)) % PIPE_CAP
  <2>1. i - 1 \in 0 .. PIPE_CAP - 1 /\ i - 1 \in 0 .. PIPE_CAP
    BY <1>1, <1>2
  <2>2. j \in 0 .. PIPE_CAP - 1
    BY <1>1, <2>1, RingPos
  <2>3. off(j) = IF i - 1 >= p.len THEN (i - 1) - p.len ELSE PIPE_CAP - p.len + (i - 1)
    BY <1>1, <2>1, RingOff
  <2> HIDE DEF j, off
  <2>4. q.buf[j] = IF off(j) < n THEN src[off(j) + 1] ELSE p.buf[j]
    BY <1>4, <2>2
  <2>5. CASE i <= p.len
    <3>1. ~(off(j) < n) /\ i \in 1 .. p.len
      BY <1>1, <1>2, <2>3, <2>5
    <3>2. p.buf[j] = Data(p)[i]
      BY <3>1, DataSeq DEF j
    <3>3. Data(q)[i] = q.buf[j]
      BY <1>7 DEF j
    <3> QED
      BY <1>6, <2>4, <2>5, <3>1, <3>2, <3>3
  <2>6. CASE ~(i <= p.len)
    <3>1. off(j) < n /\ off(j) + 1 = i - p.len /\ i - p.len \in 1 .. n
      BY <1>1, <1>2, <2>3, <2>6
    <3>2. src[off(j) + 1] = new[i - p.len]
      BY <1>5, <3>1
    <3>3. Data(q)[i] = q.buf[j]
      BY <1>7 DEF j
    <3> QED
      BY <1>6, <2>4, <2>6, <3>1, <3>2, <3>3
  <2> QED
    BY <2>5, <2>6
<1>9. Data(q) = Data(p) \o new
  BY <1>6, <1>7, <1>8, SeqEqual
<1> QED
  BY <1>9 DEF n, q, new

\* A pipe holds no byte exactly when its length is zero.
LEMMA NoData ==
    ASSUME NEW p \in PipeRec
    PROVE  Data(p) = <<>> <=> p.len = 0
BY DataSeq, EmptySeq

\* The bytes depend on buffer, head and length only, not on the ends.
LEMMA SameData ==
    ASSUME NEW p, NEW q, p.buf = q.buf, p.head = q.head, p.len = q.len
    PROVE  Data(p) = Data(q)
BY DEF Data, read_data, read_count

-----------------------------------------------------------------------------
(* The invariant.                                                          *)

\* A fresh pipe is empty.
LEMMA EmptyFields ==
    /\ empty \in PipeRec /\ ~empty.used /\ empty.len = 0
    /\ empty.n_readers = 0 /\ empty.n_writers = 0
BY EmptyType DEF empty

\* alloc hands out the pipe with one end of each kind, and no byte.
LEMMA AllocFields ==
    ASSUME RAlloc, RingInv
    PROVE  /\ pipe' \in PipeRec /\ pipe'.used /\ pipe'.len = 0
           /\ pipe'.n_readers = 1 /\ pipe'.n_writers = 1
<1> DEFINE all == [i \in PipeIds |-> pipe]
           new == [empty EXCEPT !.used = TRUE, !.n_readers = 1, !.n_writers = 1]
<1>1. pipe_free(all) = PipeIds
  BY DEF pipe_free, RAlloc
<1>2. First(PipeIds) = 0
  <2>1. First(PipeIds) \in PipeIds /\ \A y \in PipeIds : First(PipeIds) <= y
    BY PipeIdsNat, FirstIsLeast
  <2>2. First(PipeIds) \in Nat /\ First(PipeIds) <= 0
    BY <2>1, PipeIdsNat
  <2> QED
    BY <2>2
<1>3. pipe' = new
  BY <1>1, <1>2, PipeIdsNat DEF RAlloc, pipe_alloc
<1>4. empty \in PipeRec /\ empty.len = 0
  BY EmptyFields
<1>5. 1 \in 0 .. END_MAX
  BY PipeAssumption
<1>6. new \in PipeRec
  BY <1>4, <1>5 DEF PipeRec
<1>7. new.used /\ new.len = 0 /\ new.n_readers = 1 /\ new.n_writers = 1
  BY <1>4 DEF PipeRec
<1> QED
  BY <1>3, <1>6, <1>7

\* What is left of a pipe in use after k readers and l writers of it are gone.
LEMMA DropFields ==
    ASSUME NEW p \in PipeRec, p.used, NEW k \in Nat, NEW l \in Nat, k + l > 0,
           k <= p.n_readers, l <= p.n_writers
    PROVE  LET q  == drop_ends(p, k, l)
               nr == p.n_readers - k
               nw == p.n_writers - l
           IN  /\ q \in PipeRec /\ q.n_readers = nr /\ q.n_writers = nw
               /\ q.used <=> nr + nw > 0
               /\ nr + nw = 0 => q = empty
               /\ nr + nw > 0 => q.buf = p.buf /\ q.head = p.head /\ q.len = p.len
<1> DEFINE q  == drop_ends(p, k, l)
           nr == p.n_readers - k
           nw == p.n_writers - l
           r  == [p EXCEPT !.n_readers = nr, !.n_writers = nw]
<1>1. /\ nr \in Nat /\ nw \in Nat
      /\ saturating_sub(p.n_readers, k) = nr /\ saturating_sub(p.n_writers, l) = nw
  BY PipeAssumption DEF PipeRec, saturating_sub
<1>2. ~(k = 0 /\ l = 0)
  OBVIOUS
<1>3. q = IF nr = 0 /\ nw = 0 THEN empty ELSE r
  BY <1>1, <1>2, Zenon DEF drop_ends
<1>4. /\ r.n_readers = nr /\ r.n_writers = nw /\ r.used
      /\ r.buf = p.buf /\ r.head = p.head /\ r.len = p.len
  BY DEF PipeRec
<1>5. q \in PipeRec
  BY DropEndsType
<1> HIDE DEF q, nr, nw, r
<1>6. /\ q.n_readers = nr /\ q.n_writers = nw /\ (q.used <=> nr + nw > 0)
      /\ nr + nw = 0 => q = empty
      /\ nr + nw > 0 => q.buf = p.buf /\ q.head = p.head /\ q.len = p.len
  <2>1. CASE nr = 0 /\ nw = 0
    BY <1>3, <2>1, EmptyFields
  <2>2. CASE ~(nr = 0 /\ nw = 0)
    <3>1. q = r /\ nr + nw > 0
      BY <1>1, <1>3, <2>2
    <3> QED
      BY <1>1, <1>4, <3>1
  <2> QED
    BY <2>1, <2>2
<1> QED
  BY <1>5, <1>6 DEF q, nr, nw

\* What a clone leaves of a pipe whose counter has room.
LEMMA CloneFields ==
    ASSUME RingInv, NEW w \in BOOLEAN, can_clone_end(pipe, w)
    PROVE  LET q == clone_end(pipe, w)
           IN  /\ q \in PipeRec /\ q.used
               /\ q.n_readers = IF w THEN pipe.n_readers ELSE pipe.n_readers + 1
               /\ q.n_writers = IF w THEN pipe.n_writers + 1 ELSE pipe.n_writers
               /\ q.buf = pipe.buf /\ q.head = pipe.head /\ q.len = pipe.len
<1>1. pipe \in PipeRec /\ pipe.used
  BY DEF RingInv, can_clone_end
<1>2. clone_end(pipe, w) \in PipeRec
  BY <1>1, CloneEndType
<1>3. CASE w
  BY <1>1, <1>2, <1>3 DEF clone_end, PipeRec
<1>4. CASE ~w
  BY <1>1, <1>2, <1>4 DEF clone_end, PipeRec
<1> QED
  BY <1>3, <1>4

\* The steps of the ring, one by one, with what each is to the byte stream.
StreamStep == RingInv' /\ Stream!SNext

\* alloc opens the stream.
LEMMA AllocStep ==
    ASSUME RingInv, RAlloc
    PROVE  StreamStep
<1>1. /\ pipe' \in PipeRec /\ pipe'.used /\ pipe'.len = 0
      /\ pipe'.n_readers = 1 /\ pipe'.n_writers = 1
  BY AllocFields
<1>2. RingInv'
  BY <1>1 DEF RingInv
<1>3. Contents = <<>> /\ Contents' = <<>>
  BY <1>1, NoData DEF RingInv, RAlloc, Contents, Data
<1>4. Stream!Open
  BY <1>1, <1>3 DEF Stream!Open, Stream!InUse, RAlloc, RingInv
<1> QED
  BY <1>2, <1>4 DEF StreamStep, Stream!SNext

\* A clone is one, and fails exactly where the counter is at its limit.
LEMMA CloneStep ==
    ASSUME RingInv, NEW w \in BOOLEAN, RClone(w)
    PROVE  StreamStep
<1>1. /\ pipe \in PipeRec /\ pipe.used
      /\ pipe.n_readers \in Nat /\ pipe.n_writers \in Nat /\ END_MAX \in Nat
      /\ pipe.n_readers <= END_MAX /\ pipe.n_writers <= END_MAX
      /\ pipe.n_readers + pipe.n_writers > 0
  BY PipeAssumption DEF RingInv, RClone, Holds, PipeRec
<1>2. Stream!InUse
  BY <1>1 DEF Stream!InUse
<1>3. CASE can_clone_end(pipe, w) /\ pipe' = clone_end(pipe, w) /\ result' = "Ok"
  <2>1. /\ pipe' \in PipeRec /\ pipe'.used
        /\ pipe'.n_readers = IF w THEN pipe.n_readers ELSE pipe.n_readers + 1
        /\ pipe'.n_writers = IF w THEN pipe.n_writers + 1 ELSE pipe.n_writers
        /\ pipe'.buf = pipe.buf /\ pipe'.head = pipe.head /\ pipe'.len = pipe.len
    BY <1>3, CloneFields
  <2>2. RingInv'
    BY <1>1, <2>1 DEF RingInv
  <2>3. Contents' = Contents
    BY <2>1, SameData DEF Contents, Data
  <2>4. CASE w
    BY <1>1, <1>2, <1>3, <2>1, <2>2, <2>3, <2>4
       DEF StreamStep, Stream!SNext, Stream!Clone, can_clone_end, RClone
  <2>5. CASE ~w
    BY <1>1, <1>2, <1>3, <2>1, <2>2, <2>3, <2>5
       DEF StreamStep, Stream!SNext, Stream!Clone, can_clone_end, RClone
  <2> QED
    BY <2>4, <2>5
<1>4. CASE ~can_clone_end(pipe, w) /\ result' = "Err" /\ UNCHANGED pipe
  <2>1. RingInv' /\ Contents' = Contents
    BY <1>4 DEF RingInv, Contents
  <2>2. END_MAX \in {pipe.n_readers, pipe.n_writers}
    BY <1>1, <1>4 DEF can_clone_end
  <2> QED
    BY <1>2, <1>4, <2>1, <2>2 DEF StreamStep, Stream!SNext, Stream!Clone, RClone
<1> QED
  BY <1>3, <1>4 DEF RClone

\* Dropping an end closes it; the last one takes the bytes along.
LEMMA DropStep ==
    ASSUME RingInv, NEW w \in BOOLEAN, RDrop(w)
    PROVE  StreamStep
<1>1. /\ pipe \in PipeRec /\ pipe.used
      /\ pipe.n_readers \in Nat /\ pipe.n_writers \in Nat
  BY PipeAssumption DEF RingInv, RDrop, Holds, PipeRec
<1>2. PICK k \in {0, 1}, l \in {0, 1} :
        /\ k + l = 1 /\ k <= pipe.n_readers /\ l <= pipe.n_writers
        /\ pipe' = drop_ends(pipe, k, l)
  <2>1. CASE w
    BY <1>1, <2>1 DEF RDrop, Holds, drop_end
  <2>2. CASE ~w
    BY <1>1, <2>2 DEF RDrop, Holds, drop_end
  <2> QED
    BY <2>1, <2>2
<1> DEFINE nr == pipe.n_readers - k
           nw == pipe.n_writers - l
<1>3. nr \in Nat /\ nw \in Nat
  BY <1>1, <1>2
<1>4. /\ pipe' \in PipeRec /\ pipe'.n_readers = nr /\ pipe'.n_writers = nw
      /\ pipe'.used <=> nr + nw > 0
      /\ nr + nw = 0 => pipe' = empty
      /\ nr + nw > 0 => pipe'.buf = pipe.buf /\ pipe'.head = pipe.head /\ pipe'.len = pipe.len
  BY <1>1, <1>2, DropFields
<1> HIDE DEF nr, nw
<1>5. RingInv'
  BY <1>3, <1>4, EmptyFields DEF RingInv
<1>6. Contents' = IF nr + nw = 0 THEN <<>> ELSE Contents
  <2>1. CASE nr + nw = 0
    BY <1>4, <2>1, EmptyFields, NoData DEF Contents, Data
  <2>2. CASE nr + nw > 0
    BY <1>4, <2>2, SameData DEF Contents, Data
  <2> QED
    BY <1>3, <2>1, <2>2
<1>7. \/ pipe.n_readers > 0 /\ nr = pipe.n_readers - 1 /\ nw = pipe.n_writers
      \/ pipe.n_writers > 0 /\ nw = pipe.n_writers - 1 /\ nr = pipe.n_readers
  BY <1>1, <1>2 DEF nr, nw
<1> QED
  BY <1>4, <1>5, <1>6, <1>7 DEF StreamStep, Stream!SNext, Stream!Close, RDrop

\* A read delivers the oldest bytes, or reports the end or an empty stream.
LEMMA ReadStep ==
    ASSUME RingInv, NEW want \in Wants, RRead(want)
    PROVE  StreamStep
<1>1. /\ pipe \in PipeRec /\ pipe.used /\ pipe.n_readers > 0
      /\ pipe.n_readers \in Nat /\ pipe.n_writers \in Nat /\ pipe.len \in Nat
      /\ want \in Nat
  BY PipeAssumption, RingAssumption DEF RingInv, RRead, Holds, PipeRec
<1>2. Contents = Data(pipe) /\ Contents' = Data(pipe')
  BY DEF Contents, Data
<1>3. Len(Contents) = pipe.len /\ (Contents = <<>> <=> pipe.len = 0)
  BY <1>1, <1>2, DataSeq, NoData
<1>4. CASE pipe.len # 0
  <2>1. result' = "Data" /\ pipe' = read_pipe_buf(pipe, want) /\ got' = read_data(pipe, want)
    BY <1>1, <1>4 DEF RRead, read_result
  <2>2. pipe' \in PipeRec
    BY <1>1, <2>1, ReadType
  <2>3. /\ pipe'.used = pipe.used
        /\ pipe'.n_readers = pipe.n_readers /\ pipe'.n_writers = pipe.n_writers
    BY <1>1, <2>1 DEF read_pipe_buf, PipeRec
  <2>4. RingInv'
    BY <1>1, <2>2, <2>3 DEF RingInv
  <2> DEFINE n == Stream!Upto(want, Len(Contents))
  <2>5. n = read_count(pipe, want)
    BY <1>1, <1>3 DEF Stream!Upto, read_count
  <2>6. got' = SubSeq(Contents, 1, n) /\ Contents' = SubSeq(Contents, n + 1, Len(Contents))
    BY <1>1, <1>2, <1>3, <2>1, <2>5, ReadData
  <2> QED
    BY <1>1, <1>3, <1>4, <2>1, <2>3, <2>4, <2>6 DEF StreamStep, Stream!SNext, Stream!Receive
<1>5. CASE pipe.len = 0
  <2>1. /\ result' = IF pipe.n_writers = 0 THEN "Eof" ELSE "WouldBlock"
        /\ got' = <<>> /\ pipe' = pipe
    BY <1>1, <1>5 DEF RRead, read_result
  <2>2. RingInv' /\ Contents' = Contents
    BY <1>2, <2>1 DEF RingInv
  <2> QED
    BY <1>1, <1>3, <1>5, <2>1, <2>2 DEF StreamStep, Stream!SNext, Stream!Receive
<1> QED
  BY <1>4, <1>5

\* A write appends what fits, or reports a broken or a full pipe.
LEMMA WriteStep ==
    ASSUME RingInv, NEW src \in Messages, RWrite(src)
    PROVE  StreamStep
<1>1. /\ pipe \in PipeRec /\ pipe.used /\ pipe.n_writers > 0
      /\ pipe.n_readers \in Nat /\ pipe.n_writers \in Nat /\ pipe.len \in 0 .. PIPE_CAP
      /\ src \in Seq(Bytes) /\ Len(src) \in Nat /\ PIPE_CAP \in Nat
  BY PipeAssumption, RingAssumption DEF RingInv, RWrite, Holds, PipeRec
<1>2. Contents = Data(pipe) /\ Contents' = Data(pipe')
  BY DEF Contents, Data
<1>3. Len(Contents) = pipe.len
  BY <1>1, <1>2, DataSeq
<1>4. CASE pipe.n_readers > 0 /\ pipe.len # PIPE_CAP
  <2>1. result' = "Data" /\ pipe' = write_pipe_buf(pipe, src) /\ got' = <<>>
    BY <1>1, <1>4 DEF RWrite, write_result
  <2>2. pipe' \in PipeRec
    BY <1>1, <2>1, WriteType
  <2>3. /\ pipe'.used = pipe.used
        /\ pipe'.n_readers = pipe.n_readers /\ pipe'.n_writers = pipe.n_writers
    BY <1>1, <2>1 DEF write_pipe_buf, PipeRec
  <2>4. RingInv'
    BY <1>1, <2>2, <2>3 DEF RingInv
  <2>5. Stream!Upto(Len(src), PIPE_CAP - Len(Contents)) = write_count(pipe, src)
    BY <1>1, <1>3 DEF Stream!Upto, write_count
  <2>6. Contents' = Contents \o SubSeq(src, 1, Stream!Upto(Len(src), PIPE_CAP - Len(Contents)))
    BY <1>1, <1>2, <2>1, <2>5, WriteData
  <2>7. Len(Contents) < PIPE_CAP
    BY <1>1, <1>3, <1>4
  <2> QED
    BY <1>1, <1>4, <2>1, <2>3, <2>4, <2>6, <2>7 DEF StreamStep, Stream!SNext, Stream!Send
<1>5. CASE ~(pipe.n_readers > 0 /\ pipe.len # PIPE_CAP)
  <2>1. /\ result' = IF pipe.n_readers = 0 THEN "Broken" ELSE "WouldBlock"
        /\ got' = <<>> /\ pipe' = pipe
    BY <1>1, <1>5 DEF RWrite, write_result
  <2>2. RingInv' /\ Contents' = Contents
    BY <1>2, <2>1 DEF RingInv
  <2> QED
    BY <1>1, <1>3, <1>5, <2>1, <2>2 DEF StreamStep, Stream!SNext, Stream!Send
<1> QED
  BY <1>4, <1>5

-----------------------------------------------------------------------------
(* The theorems.                                                           *)

\* Every step of the ring keeps RingInv and is a step of the stream, or none.
LEMMA RingNext ==
    ASSUME RingInv, [RNext]_rvars
    PROVE  RingInv' /\ [Stream!SNext]_(Stream!svars)
<1>1. CASE RAlloc
  BY <1>1, AllocStep DEF StreamStep
<1>2. ASSUME NEW w \in BOOLEAN, RClone(w)
      PROVE  StreamStep
  BY <1>2, CloneStep
<1>3. ASSUME NEW w \in BOOLEAN, RDrop(w)
      PROVE  StreamStep
  BY <1>3, DropStep
<1>4. ASSUME NEW n \in Wants, RRead(n)
      PROVE  StreamStep
  BY <1>4, ReadStep
<1>5. ASSUME NEW src \in Messages, RWrite(src)
      PROVE  StreamStep
  BY <1>5, WriteStep
<1>6. CASE UNCHANGED rvars
  BY <1>6 DEF rvars, RingInv, Stream!svars, Contents
<1> QED
  BY <1>1, <1>2, <1>3, <1>4, <1>5, <1>6 DEF RNext, StreamStep

\* At boot the pipe is unused and empty, as the stream is.
LEMMA RingInit ==
    ASSUME RInit
    PROVE  RingInv /\ Stream!SInit
<1>1. RingInv
  BY EmptyFields DEF RInit, RingInv
<1>2. Contents = <<>>
  BY <1>1, EmptyFields, NoData DEF RInit, RingInv, Contents, Data
<1> QED
  BY <1>1, <1>2, EmptyFields DEF RInit, Stream!SInit

\* Ring indices, length and end counters stay in range, for every capacity and
\* every sequence of calls (pipe.rs).
THEOREM RingTypeOK == RSpec => []RingOK
<1>1. RInit => RingInv
  BY RingInit
<1>2. RingInv /\ [RNext]_rvars => RingInv'
  BY RingNext
<1>3. RingInv => RingOK
  BY DEF RingInv, RingOK
<1> QED
  BY <1>1, <1>2, <1>3, PTL DEF RSpec

\* The ring buffer of pipe.rs, with its wrapping head and tail, implements the
\* bounded first-in first-out stream, for every capacity and every message.
THEOREM RingImplementsStream == RSpec => ImplementsStream
<1>1. RInit => RingInv /\ Stream!SInit
  BY RingInit
<1>2. RingInv /\ [RNext]_rvars => RingInv' /\ [Stream!SNext]_(Stream!svars)
  BY RingNext
<1> QED
  BY <1>1, <1>2, PTL DEF RSpec, ImplementsStream, Stream!SSpec
=============================================================================
