---------------------------- MODULE ShellProofs ----------------------------
(***************************************************************************)
(* The line editor: its history ring keeps the lines entered, and the row  *)
(* of the terminal shows the line being edited.  The file commands: what   *)
(* mv moves is never lost, and /bin gets only what pkg has verified.       *)
(***************************************************************************)
EXTENDS LineEdit, ShellFiles, SequenceTheorems, WellFoundedInduction, NaturalsInduction, TLAPS

----------------------------------------------------------------------------
(* Numbers and sequences.                                                  *)

LEMMA Caps == LINE_CAP \in Nat \ {0} /\ HIST_CAP \in Nat \ {0}
BY LineConstants

LEMMA Blanks == " " \in Chars /\ BS \notin Chars
BY LineConstants

\* Induction over the numbers, as a fact about sets.
LEMMA AllNumbers ==
    ASSUME NEW S, 0 \in S, \A n \in Nat : n \in S => n + 1 \in S
    PROVE  \A n \in Nat : n \in S
<1> DEFINE R == OpToRel(<, Nat)  T == Nat \ S
<1>1. \A x, y \in Nat : x < y => <<x, y>> \in R
  BY DEF OpToRel
<1>2. IsWellFoundedOn(R, Nat)
  BY NatLessThanWellFounded
<1> SUFFICES ASSUME T # {} PROVE FALSE
  OBVIOUS
<1> HIDE DEF R
<1>3. PICK x \in T : \A y \in T : ~(<<y, x>> \in R)
  BY <1>2, WFMin
<1>4. x \in Nat /\ x # 0 /\ x - 1 \in Nat /\ x - 1 < x /\ (x - 1) + 1 = x
  OBVIOUS
<1>5. <<x - 1, x>> \in R
  BY <1>1, <1>4
<1>6. x - 1 \in S
  BY <1>3, <1>4, <1>5
<1> QED  BY <1>4, <1>6

\* A nonempty set of numbers has a least one, and a largest one if it is bounded.
LEMMA LeastFacts ==
    ASSUME NEW S \in SUBSET Nat, S # {}
    PROVE  LeastIn(S) \in S /\ \A y \in S : LeastIn(S) <= y
<1> DEFINE R == OpToRel(<, Nat)
<1>1. \A x, y \in Nat : x < y => <<x, y>> \in R
  BY DEF OpToRel
<1>2. IsWellFoundedOn(R, Nat)
  BY NatLessThanWellFounded
<1> HIDE DEF R
<1>3. S \subseteq Nat
  OBVIOUS
<1>4. \E x \in S : \A y \in S : ~(<<y, x>> \in R)
  BY <1>2, <1>3, WFMin
<1>5. PICK x \in S : \A y \in S : ~(<<y, x>> \in R)
  BY <1>4
<1>6. x \in Nat /\ \A y \in S : y \in Nat
  BY <1>3
<1>7. ASSUME NEW y \in S PROVE x <= y
  <2>1. ~(y < x)
    BY <1>1, <1>5, <1>6
  <2> QED  BY <1>6, <2>1
<1>8. \E z \in S : \A y \in S : z <= y
  BY <1>7
<1>9. LeastIn(S) = CHOOSE z \in S : \A y \in S : z <= y
  BY DEF LeastIn
<1> QED  BY <1>8, <1>9, Zenon

LEMMA LargestFacts ==
    ASSUME NEW n \in Nat, NEW S \in SUBSET (0 .. n), S # {}
    PROVE  LargestIn(S) \in S /\ \A y \in S : y <= LargestIn(S)
<1> DEFINE T == {n - x : x \in S}
<1>0. \A x \in S : x \in 0 .. n /\ n - x \in Nat
  OBVIOUS
<1>1. T \in SUBSET Nat /\ T # {}
  BY <1>0
<1>2. PICK t \in T : \A y \in T : t <= y
  BY <1>1, LeastFacts
<1>3. PICK x \in S : t = n - x
  BY <1>2
<1>4. \A y \in S : n - y \in T /\ t <= n - y
  BY <1>2
<1>5. \A y \in S : y <= x
  BY <1>0, <1>3, <1>4
<1>6. \E z \in S : \A y \in S : y <= z
  BY <1>5
<1>7. LargestIn(S) = CHOOSE z \in S : \A y \in S : y <= z
  BY DEF LargestIn
<1> QED  BY <1>6, <1>7, Zenon

----------------------------------------------------------------------------
(* The terminal.                                                           *)

IsRow(f, t, out, n) == f = [i \in 0 .. n |-> IF i = 0 THEN t ELSE Put(f[i - 1], out[i])]

\* The recursion of Emit has a solution for any number of bytes.
LEMMA RowExists ==
    ASSUME NEW t, NEW out
    PROVE  \A n \in Nat : \E f : IsRow(f, t, out, n)
<1> DEFINE S == {n \in Nat : \E f : IsRow(f, t, out, n)}
<1>1. 0 \in S
  <2> DEFINE f == [i \in 0 .. 0 |-> t]
  <2>1. IsRow(f, t, out, 0)
    BY DEF IsRow
  <2> QED  BY <2>1
<1>2. ASSUME NEW n \in Nat, n \in S PROVE n + 1 \in S
  <2>1. PICK f : IsRow(f, t, out, n)
    BY <1>2
  <2> DEFINE g == [i \in 0 .. n + 1 |-> IF i = n + 1 THEN Put(f[n], out[n + 1]) ELSE f[i]]
  <2>2. \A i \in 0 .. n + 1 : g[i] = IF i = 0 THEN t ELSE Put(g[i - 1], out[i])
    <3> TAKE i \in 0 .. n + 1
    <3>1. CASE i = n + 1
      <4>1. i # 0 /\ i - 1 = n /\ n \in 0 .. n + 1 /\ n # n + 1
        BY <3>1
      <4>2. g[i - 1] = f[n]
        BY <4>1
      <4>3. g[i] = Put(f[n], out[n + 1])
        BY <3>1
      <4> QED  BY <3>1, <4>1, <4>2, <4>3
    <3>2. CASE i # n + 1
      <4>1. i \in 0 .. n /\ (i # 0 => i - 1 \in 0 .. n + 1 /\ i - 1 # n + 1)
        BY <3>2
      <4>2. g[i] = f[i] /\ (i # 0 => g[i - 1] = f[i - 1])
        BY <3>2, <4>1
      <4>3. f[i] = IF i = 0 THEN t ELSE Put(f[i - 1], out[i])
        BY <2>1, <4>1 DEF IsRow
      <4> QED  BY <4>2, <4>3
    <3> QED  BY <3>1, <3>2
  <2>3. IsRow(g, t, out, n + 1)
    BY <2>2 DEF IsRow
  <2> QED  BY <2>3
<1>3. \A n \in Nat : n \in S
  <2> HIDE DEF S
  <2> QED  BY <1>1, <1>2, AllNumbers
<1> QED  BY <1>3

\* A function that starts with t and takes one byte of out a step.
IsChain(g, t, out, n) == g[0] = t /\ \A i \in 1 .. n : g[i] = Put(g[i - 1], out[i])

\* Such a function ends with what Emit shows.
LEMMA RowIs ==
    ASSUME NEW t, NEW out, NEW n \in Nat, Len(out) = n, NEW g, IsChain(g, t, out, n)
    PROVE  Emit(t, out) = g[n]
<1>0. g[0] = t /\ \A i \in 1 .. n : g[i] = Put(g[i - 1], out[i])
  BY DEF IsChain
<1>1. PICK f : f = CHOOSE h : IsRow(h, t, out, n)
  OBVIOUS
<1>2. IsRow(f, t, out, n)
  BY <1>1, RowExists
<1>3. Emit(t, out) = f[n]
  BY <1>1 DEF Emit, IsRow
<1> DEFINE S == {i \in Nat : i <= n => f[i] = g[i]}
<1>4. 0 \in S
  <2>1. 0 \in 0 .. n
    OBVIOUS
  <2> QED  BY <1>0, <1>2, <2>1 DEF IsRow
<1>5. ASSUME NEW i \in Nat, i \in S PROVE i + 1 \in S
  <2> SUFFICES ASSUME i + 1 <= n PROVE f[i + 1] = g[i + 1]
    OBVIOUS
  <2>1. i + 1 \in 0 .. n /\ i + 1 \in 1 .. n /\ i + 1 # 0 /\ (i + 1) - 1 = i /\ i <= n
    OBVIOUS
  <2>2. f[i + 1] = Put(f[(i + 1) - 1], out[i + 1])
    BY <1>2, <2>1 DEF IsRow
  <2>3. g[i + 1] = Put(g[(i + 1) - 1], out[i + 1])
    BY <1>0, <2>1
  <2>4. f[i] = g[i]
    BY <1>5, <2>1
  <2> QED  BY <2>1, <2>2, <2>3, <2>4
<1>6. \A i \in Nat : i \in S
  <2> HIDE DEF S
  <2> QED  BY <1>4, <1>5, AllNumbers
<1>7. f[n] = g[n]
  BY <1>6
<1> QED  BY <1>3, <1>7

\* What Emit shows is the end of such a function.
LEMMA RowChain ==
    ASSUME NEW t, NEW out, NEW n \in Nat, Len(out) = n
    PROVE  \E g : IsChain(g, t, out, n)
<1>1. PICK g : IsRow(g, t, out, n)
  BY RowExists
<1>2. 0 \in 0 .. n /\ \A i \in 1 .. n : i \in 0 .. n /\ i # 0
  OBVIOUS
<1>3. g[0] = t /\ \A i \in 1 .. n : g[i] = Put(g[i - 1], out[i])
  BY <1>1, <1>2 DEF IsRow
<1> QED  BY <1>3 DEF IsChain

LEMMA EmitNone == \A t : Emit(t, <<>>) = t
<1> TAKE t
<1> DEFINE g == [i \in 0 .. 0 |-> t]
<1>1. g[0] = t /\ Len(<<>>) = 0 /\ \A i \in 1 .. 0 : g[i] = Put(g[i - 1], <<>>[i])
  OBVIOUS
<1>2. IsChain(g, t, <<>>, 0)
  BY <1>1 DEF IsChain
<1> HIDE DEF g
<1> QED  BY <1>1, <1>2, RowIs

Out == Chars \cup {BS}

\* Bytes written after others.
LEMMA EmitConcat ==
    ASSUME NEW t, NEW a \in Seq(Out), NEW b \in Seq(Out)
    PROVE  Emit(t, a \o b) = Emit(Emit(t, a), b)
<1>1. PICK m \in Nat : Len(a) = m
  OBVIOUS
<1>2. PICK n \in Nat : Len(b) = n
  OBVIOUS
<1>30. PICK g : IsChain(g, t, a, m)
  BY <1>1, RowChain
<1>3. /\ g[0] = t /\ Emit(t, a) = g[m]
      /\ \A i \in 1 .. m : g[i] = Put(g[i - 1], a[i])
  BY <1>1, <1>30, RowIs DEF IsChain
<1>40. PICK h : IsChain(h, g[m], b, n)
  BY <1>2, RowChain
<1>4. /\ h[0] = g[m] /\ Emit(g[m], b) = h[n]
      /\ \A i \in 1 .. n : h[i] = Put(h[i - 1], b[i])
  BY <1>2, <1>40, RowIs DEF IsChain
<1>5. PICK c : c = a \o b
  OBVIOUS
<1>6. Len(c) = m + n /\ \A i \in 1 .. m + n : c[i] = IF i <= m THEN a[i] ELSE b[i - m]
  <2>1. /\ Len(a \o b) = Len(a) + Len(b)
        /\ \A i \in 1 .. Len(a) + Len(b) : (a \o b)[i] = IF i <= Len(a) THEN a[i] ELSE b[i - Len(a)]
    BY ConcatProperties
  <2> QED  BY <1>1, <1>2, <1>5, <2>1
<1> DEFINE f == [i \in 0 .. m + n |-> IF i <= m THEN g[i] ELSE h[i - m]]
<1>7. f[0] = t /\ f[m + n] = h[n]
  <2>1. CASE n = 0
    BY <1>3, <1>4, <2>1
  <2>2. CASE n # 0
    <3>1. ~(m + n <= m) /\ (m + n) - m = n
      BY <2>2
    <3> QED  BY <1>3, <3>1
  <2> QED  BY <2>1, <2>2
<1>8. ASSUME NEW i \in 1 .. m + n PROVE f[i] = Put(f[i - 1], c[i])
  <2>1. i \in 0 .. m + n /\ i - 1 \in 0 .. m + n
    OBVIOUS
  <2>2. CASE i <= m
    <3>1. i \in 1 .. m /\ i - 1 <= m
      BY <2>2
    <3>2. f[i] = g[i] /\ f[i - 1] = g[i - 1] /\ c[i] = a[i]
      BY <1>5, <1>6, <2>1, <2>2, <3>1
    <3> QED  BY <1>3, <3>1, <3>2
  <2>3. CASE i = m + 1
    <3>1. ~(i <= m) /\ i - 1 <= m /\ i - m = 1 /\ i - 1 = m /\ 1 \in 1 .. n /\ 1 - 1 = 0
      BY <2>3
    <3>2. f[i] = h[1] /\ f[i - 1] = g[m] /\ c[i] = b[1]
      BY <1>5, <1>6, <2>1, <3>1
    <3>3. h[1] = Put(h[0], b[1])
      BY <1>4, <3>1
    <3> QED  BY <1>4, <3>2, <3>3
  <2>4. CASE i > m + 1
    <3>1. ~(i <= m) /\ ~(i - 1 <= m) /\ i - m \in 1 .. n /\ (i - 1) - m = (i - m) - 1
      BY <2>4
    <3>2. f[i] = h[i - m] /\ f[i - 1] = h[(i - m) - 1] /\ c[i] = b[i - m]
      BY <1>5, <1>6, <2>1, <3>1
    <3>3. h[i - m] = Put(h[(i - m) - 1], b[i - m])
      BY <1>4, <3>1
    <3> QED  BY <3>2, <3>3
  <2> QED  BY <2>2, <2>3, <2>4
<1> HIDE DEF f
<1>9. Emit(t, c) = f[m + n]
  <2>1. m + n \in Nat /\ Len(c) = m + n
    BY <1>6
  <2>2. IsChain(f, t, c, m + n)
    BY <1>7, <1>8 DEF IsChain
  <2> QED  BY <2>1, <2>2, RowIs
<1> QED  BY <1>3, <1>4, <1>5, <1>7, <1>9

Row(cells, c) == [cells |-> cells, col |-> c]

\* A character fills the cell under the cursor, a backspace only moves it.
LEMMA PutFacts ==
    ASSUME NEW cells \in [0 .. LINE_CAP -> Chars], NEW c \in Int
    PROVE  /\ Put(Row(cells, c), BS) = Row(cells, c - 1)
           /\ \A b \in Chars :
                 Put(Row(cells, c), b)
                    = Row([i \in 0 .. LINE_CAP |-> IF i = c THEN b ELSE cells[i]], c + 1)
<1>1. Put(Row(cells, c), BS) = Row(cells, c - 1)
  BY DEF Put, Row
<1>2. ASSUME NEW b \in Chars
      PROVE  Put(Row(cells, c), b) = Row([i \in 0 .. LINE_CAP |-> IF i = c THEN b ELSE cells[i]], c + 1)
  <2>1. b # BS
    BY Blanks
  <2>2. [cells EXCEPT ![c] = b] = [i \in 0 .. LINE_CAP |-> IF i = c THEN b ELSE cells[i]]
    OBVIOUS
  <2>3. Put(Row(cells, c), b) = Row([cells EXCEPT ![c] = b], c + 1)
    BY <2>1 DEF Put, Row
  <2> QED  BY <2>2, <2>3
<1> QED  BY <1>1, <1>2


Cells == [0 .. LINE_CAP -> Chars]

\* k backspaces.
LEMMA EmitBack ==
    ASSUME NEW cells \in Cells, NEW c \in Int, NEW k \in Nat
    PROVE  Back(k) \in Seq(Out) /\ Emit(Row(cells, c), Back(k)) = Row(cells, c - k)
<1>1. PICK b : b = Back(k)
  OBVIOUS
<1>2. b \in Seq(Out) /\ Len(b) = k /\ \A i \in 1 .. k : b[i] = BS
  <2>1. b = [i \in 1 .. k |-> BS] /\ BS \in Out
    BY <1>1 DEF Back, Out
  <2> QED  BY <2>1
<1> DEFINE g == [i \in 0 .. k |-> Row(cells, c - i)]
<1>3. g[0] = Row(cells, c) /\ g[k] = Row(cells, c - k)
  <2>1. c - 0 = c /\ 0 \in 0 .. k /\ k \in 0 .. k
    OBVIOUS
  <2>2. g[0] = Row(cells, c - 0) /\ g[k] = Row(cells, c - k)
    BY <2>1
  <2> QED  BY <2>1, <2>2
<1>4. ASSUME NEW i \in 1 .. k PROVE g[i] = Put(g[i - 1], b[i])
  <2>1. i \in 0 .. k /\ i - 1 \in 0 .. k /\ c - (i - 1) \in Int /\ (c - (i - 1)) - 1 = c - i
    OBVIOUS
  <2>2. g[i] = Row(cells, c - i) /\ g[i - 1] = Row(cells, c - (i - 1))
    BY <2>1
  <2>3. Put(Row(cells, c - (i - 1)), BS) = Row(cells, (c - (i - 1)) - 1)
    BY <2>1, PutFacts DEF Cells
  <2> QED  BY <1>2, <2>1, <2>2, <2>3
<1>5. IsChain(g, Row(cells, c), b, k)
  BY <1>3, <1>4 DEF IsChain
<1> HIDE DEF g
<1>6. Emit(Row(cells, c), b) = g[k]
  BY <1>2, <1>5, RowIs
<1> QED  BY <1>1, <1>2, <1>3, <1>6

\* The cells after the text s is written from column c on.
Written(cells, c, s, n) ==
    [i \in 0 .. LINE_CAP |-> IF c <= i /\ i < c + n THEN s[i - c + 1] ELSE cells[i]]

\* A text fills the cells from the cursor on.
LEMMA EmitText ==
    ASSUME NEW cells \in Cells, NEW c \in Nat, NEW s \in Seq(Chars)
    PROVE  /\ s \in Seq(Out)
           /\ Written(cells, c, s, Len(s)) \in Cells
           /\ Emit(Row(cells, c), s) = Row(Written(cells, c, s, Len(s)), c + Len(s))
<1>1. PICK n \in Nat : Len(s) = n
  OBVIOUS
<1>2. /\ \A i \in 1 .. n : s[i] \in Chars
      /\ s \in Seq(Out)
  BY <1>1 DEF Out
<1>3. ASSUME NEW k \in 0 .. n PROVE Written(cells, c, s, k) \in Cells
  <2>1. \A i \in 0 .. LINE_CAP : cells[i] \in Chars
    BY DEF Cells
  <2>2. \A i \in 0 .. LINE_CAP : c <= i /\ i < c + k => i - c + 1 \in 1 .. n
    BY Caps
  <2> QED  BY <1>2, <2>1, <2>2 DEF Written, Cells
<1> DEFINE g == [i \in 0 .. n |-> Row(Written(cells, c, s, i), c + i)]
<1>4. g[0] = Row(cells, c) /\ g[n] = Row(Written(cells, c, s, n), c + n)
  <2>1. c + 0 = c /\ 0 \in 0 .. n /\ n \in 0 .. n
    OBVIOUS
  <2>2. Written(cells, c, s, 0) = cells
    <3>1. \A i \in 0 .. LINE_CAP : ~(c <= i /\ i < c + 0)
      BY Caps
    <3>2. cells = [i \in 0 .. LINE_CAP |-> cells[i]]
      BY DEF Cells
    <3> QED  BY <3>1, <3>2 DEF Written
  <2>3. g[0] = Row(Written(cells, c, s, 0), c + 0) /\ g[n] = Row(Written(cells, c, s, n), c + n)
    BY <2>1
  <2> QED  BY <2>1, <2>2, <2>3
<1>5. ASSUME NEW j \in 1 .. n PROVE g[j] = Put(g[j - 1], s[j])
  <2>1. j \in 0 .. n /\ j - 1 \in 0 .. n /\ c + (j - 1) \in Int /\ (c + (j - 1)) + 1 = c + j
    OBVIOUS
  <2>2. g[j] = Row(Written(cells, c, s, j), c + j)
        /\ g[j - 1] = Row(Written(cells, c, s, j - 1), c + (j - 1))
    BY <2>1
  <2>3. PICK w \in Cells : w = Written(cells, c, s, j - 1)
    BY <1>3, <2>1
  <2>4. Put(Row(w, c + (j - 1)), s[j])
          = Row([i \in 0 .. LINE_CAP |-> IF i = c + (j - 1) THEN s[j] ELSE w[i]], (c + (j - 1)) + 1)
    BY <1>2, <2>1, <2>3, PutFacts DEF Cells
  <2>5. ASSUME NEW i \in 0 .. LINE_CAP
        PROVE  (IF i = c + (j - 1) THEN s[j] ELSE w[i])
                 = IF c <= i /\ i < c + j THEN s[i - c + 1] ELSE cells[i]
    <3>1. w[i] = IF c <= i /\ i < c + (j - 1) THEN s[i - c + 1] ELSE cells[i]
      BY <2>3 DEF Written
    <3>2. CASE i = c + (j - 1)
      <4>1. c <= i /\ i < c + j /\ i - c + 1 = j
        BY <3>2
      <4> QED  BY <3>2, <4>1
    <3>3. CASE i # c + (j - 1)
      <4>1. (c <= i /\ i < c + j) <=> (c <= i /\ i < c + (j - 1))
        BY <3>3, Caps
      <4> QED  BY <3>1, <3>3, <4>1
    <3> QED  BY <3>2, <3>3
  <2>6. [i \in 0 .. LINE_CAP |-> IF i = c + (j - 1) THEN s[j] ELSE w[i]] = Written(cells, c, s, j)
    BY <2>5 DEF Written
  <2> QED  BY <2>1, <2>2, <2>3, <2>4, <2>6
<1>6. IsChain(g, Row(cells, c), s, n)
  BY <1>4, <1>5 DEF IsChain
<1> HIDE DEF g
<1>7. Emit(Row(cells, c), s) = g[n]
  BY <1>1, <1>6, RowIs
<1>8. n \in 0 .. n
  OBVIOUS
<1> QED  BY <1>1, <1>2, <1>3, <1>4, <1>7, <1>8

\* The cells after k characters before column c are erased.
Erased(cells, c, k) == [i \in 0 .. LINE_CAP |-> IF c - k <= i /\ i < c THEN " " ELSE cells[i]]

\* erase_n blanks the cells before the cursor one by one.
LEMMA EmitErase ==
    ASSUME NEW cells \in Cells, NEW c \in Nat, NEW k \in Nat
    PROVE  /\ erase_n(k) \in Seq(Out) /\ Erased(cells, c, k) \in Cells
           /\ Emit(Row(cells, c), erase_n(k)) = Row(Erased(cells, c, k), c - k)
<1>0. PICK sp \in Chars : sp = " "
  BY Blanks
<1>1. PICK e : e = erase_n(k)
  OBVIOUS
<1>20. PICK m \in Nat : m = 3 * k
  OBVIOUS
<1>21. PICK E : E = [x \in Int |-> Erased(cells, c, x)]
  OBVIOUS
<1>2. /\ e \in Seq(Out) /\ Len(e) = m
      /\ \A i \in 1 .. m : e[i] = IF i % 3 = 2 THEN sp ELSE BS
  <2>1. e = [i \in 1 .. m |-> IF i % 3 = 2 THEN sp ELSE BS]
    BY <1>0, <1>1, <1>20 DEF erase_n
  <2>2. BS \in Out /\ sp \in Out
    BY DEF Out
  <2> QED  BY <2>1, <2>2
<1>30. ASSUME NEW x \in Int
       PROVE  E[x] = [i \in 0 .. LINE_CAP |-> IF c - x <= i /\ i < c THEN sp ELSE cells[i]]
  BY <1>0, <1>21 DEF Erased
<1>3. ASSUME NEW x \in Int PROVE E[x] \in Cells
  BY <1>30, Caps DEF Cells
\* After i bytes, i \div 3 characters are gone, and one more after a blank.
<1> DEFINE At(i) == (i + 1) \div 3
           Col(i) == IF i % 3 = 1 THEN c - i \div 3 - 1 ELSE c - i \div 3
           g == [i \in 0 .. m |-> Row(E[At(i)], Col(i))]
<1>4. g[0] = Row(cells, c) /\ g[m] = Row(E[k], c - k)
  <2>1. /\ 0 \in 0 .. m /\ At(0) = 0 /\ Col(0) = c
        /\ m \in 0 .. m /\ At(m) = k /\ Col(m) = c - k
    BY <1>20
  <2>2. E[0] = cells
    <3>1. \A i \in 0 .. LINE_CAP : ~(c - 0 <= i /\ i < c)
      BY Caps
    <3>2. cells = [i \in 0 .. LINE_CAP |-> cells[i]]
      BY DEF Cells
    <3> QED  BY <1>30, <3>1, <3>2
  <2>3. g[0] = Row(E[At(0)], Col(0)) /\ g[m] = Row(E[At(m)], Col(m))
    BY <2>1
  <2> HIDE DEF At, Col, g
  <2> QED  BY <2>1, <2>2, <2>3
<1>5. ASSUME NEW i \in 1 .. m PROVE g[i] = Put(g[i - 1], e[i])
  <2>1. i \in 0 .. m /\ i - 1 \in 0 .. m /\ At(i) \in Nat /\ At(i - 1) \in Nat /\ Col(i - 1) \in Int
    OBVIOUS
  <2>2. g[i] = Row(E[At(i)], Col(i)) /\ g[i - 1] = Row(E[At(i - 1)], Col(i - 1))
    BY <2>1
  <2>3. CASE i % 3 = 2
    <3>1. At(i - 1) = At(i) - 1 /\ Col(i - 1) = c - At(i) /\ Col(i) = (c - At(i)) + 1 /\ At(i) >= 1
      BY <2>3
    <3>2. e[i] = sp
      BY <1>2, <2>3
    <3>3. PICK a \in Nat : a = At(i)
      BY <2>1
    <3>4. PICK w \in Cells : w = E[a - 1]
      BY <1>3
    <3> HIDE DEF At, Col, g
    <3>50. PICK d \in Int : d = c - a
      OBVIOUS
    <3>51. Put(Row(w, d), sp) = Row([j \in 0 .. LINE_CAP |-> IF j = d THEN sp ELSE w[j]], d + 1)
      BY PutFacts DEF Cells
    <3>5. Put(Row(w, c - a), sp) = Row([j \in 0 .. LINE_CAP |-> IF j = c - a THEN sp ELSE w[j]], (c - a) + 1)
      BY <3>50, <3>51
    <3>6. ASSUME NEW j \in 0 .. LINE_CAP
          PROVE  (IF j = c - a THEN sp ELSE w[j]) = IF c - a <= j /\ j < c THEN sp ELSE cells[j]
      <4>1. w[j] = IF c - (a - 1) <= j /\ j < c THEN sp ELSE cells[j]
        <5>1. PICK y \in Int : y = a - 1
          OBVIOUS
        <5>2. E[y] = [i2 \in 0 .. LINE_CAP |-> IF c - y <= i2 /\ i2 < c THEN sp ELSE cells[i2]]
          BY <1>30
        <5>3. E[y][j] = IF c - y <= j /\ j < c THEN sp ELSE cells[j]
          BY <5>2
        <5> QED  BY <3>4, <5>1, <5>3
      <4>2. a >= 1
        BY <2>1, <3>1, <3>3
      <4>5. PICK z \in Int : z = j
        BY Caps
      <4>3. CASE j = c - a
        <5>1. c - a <= z /\ z < c
          BY <4>2, <4>3, <4>5
        <5> QED  BY <4>3, <4>5, <5>1
      <4>4. CASE j # c - a
        <5>0. (c - a <= z) <=> (c - (a - 1) <= z)
          BY <4>4, <4>5
        <5>1. (c - a <= j /\ j < c) <=> (c - (a - 1) <= j /\ j < c)
          BY <4>5, <5>0
        <5> QED  BY <4>1, <4>4, <5>1
      <4> QED  BY <4>3, <4>4
    <3>7. [j \in 0 .. LINE_CAP |-> IF j = c - a THEN sp ELSE w[j]] = E[a]
      BY <1>30, <3>6
    <3> QED  BY <2>1, <2>2, <3>1, <3>2, <3>3, <3>4, <3>5, <3>7
  <2>4. CASE i % 3 # 2
    <3>1. At(i - 1) = At(i) /\ Col(i) = Col(i - 1) - 1
      BY <2>4
    <3>2. e[i] = BS
      BY <1>2, <2>4
    <3>3. PICK w \in Cells : w = E[At(i - 1)]
      BY <1>3, <2>1
    <3> HIDE DEF At, Col, g
    <3>4. Put(Row(w, Col(i - 1)), BS) = Row(w, Col(i - 1) - 1)
      BY <2>1, <3>3, PutFacts DEF Cells
    <3> QED  BY <2>2, <3>1, <3>2, <3>3, <3>4
  <2> QED  BY <2>3, <2>4
<1>6. IsChain(g, Row(cells, c), e, m)
  BY <1>4, <1>5 DEF IsChain
<1> HIDE DEF g, At, Col
<1>7. Emit(Row(cells, c), e) = g[m]
  BY <1>2, <1>6, RowIs
<1>8. E[k] = Erased(cells, c, k)
  BY <1>21
<1> QED  BY <1>1, <1>2, <1>3, <1>4, <1>7, <1>8

----------------------------------------------------------------------------
(* The row that shows a line.                                              *)

Lines == {l \in Seq(Chars) : Len(l) <= LINE_CAP}

\* The blank of a cell, as a value the arithmetic need not look into.
Blank == " "

LEMMA BlankChar == Blank \in Chars
BY Blanks DEF Blank

CellsOf(l) == [i \in 0 .. LINE_CAP |-> IF i < Len(l) THEN l[i + 1] ELSE Blank]
Shown(l, c) == Row(CellsOf(l), c)

LEMMA LineFacts ==
    ASSUME NEW l \in Lines
    PROVE  /\ l \in Seq(Chars) /\ Len(l) \in Nat /\ Len(l) <= LINE_CAP
           /\ \A i \in 1 .. Len(l) : l[i] \in Chars
           /\ CellsOf(l) \in Cells
           /\ \A i \in 0 .. LINE_CAP : CellsOf(l)[i] = IF i < Len(l) THEN l[i + 1] ELSE Blank
<1>1. /\ l \in Seq(Chars) /\ Len(l) \in Nat /\ Len(l) <= LINE_CAP
      /\ \A i \in 1 .. Len(l) : l[i] \in Chars
  BY DEF Lines
<1>2. PICK n \in Nat : n = Len(l)
  BY <1>1
<1>3. \A i \in 0 .. LINE_CAP : (IF i < n THEN l[i + 1] ELSE Blank) \in Chars
  BY <1>1, <1>2, BlankChar, Caps
<1> QED  BY <1>1, <1>2, <1>3 DEF CellsOf, Cells

\* A part of a line.
LEMMA PartFacts ==
    ASSUME NEW l \in Seq(Chars), NEW a \in Nat, NEW b \in Nat, a <= b, b <= Len(l)
    PROVE  /\ SubSeq(l, a + 1, b) \in Seq(Chars) /\ Len(SubSeq(l, a + 1, b)) = b - a
           /\ \A i \in 1 .. b - a : SubSeq(l, a + 1, b)[i] = l[a + i]
<1>1. \A i \in a + 1 .. b : l[i] \in Chars
  OBVIOUS
<1>2. PICK x \in Int : x = a + 1
  OBVIOUS
<1>3. /\ SubSeq(l, x, b) \in Seq(Chars)
      /\ Len(SubSeq(l, x, b)) = IF x <= b THEN b - x + 1 ELSE 0
      /\ \A i \in 1 .. b - x + 1 : SubSeq(l, x, b)[i] = l[x + i - 1]
  BY <1>1, <1>2, SubSeqProperties
<1>4. b - x + 1 = b - a /\ \A i \in 1 .. b - a : x + i - 1 = a + i
  BY <1>2
<1> QED  BY <1>2, <1>3, <1>4

LEMMA FromFacts ==
    ASSUME NEW l \in Seq(Chars), NEW c \in 0 .. Len(l)
    PROVE  /\ From(l, c) \in Seq(Chars) /\ Len(From(l, c)) = Len(l) - c
           /\ \A i \in 1 .. Len(l) - c : From(l, c)[i] = l[c + i]
<1>1. PICK n \in Nat : n = Len(l)
  OBVIOUS
<1>2. c \in Nat /\ c <= n /\ n <= Len(l)
  BY <1>1
<1> QED  BY <1>1, <1>2, PartFacts DEF From

LEMMA TextIsOut == \A s \in Seq(Chars) : s \in Seq(Out)
BY DEF Out

\* A text written into a row that shows l leaves one that shows m.
LEMMA Repaint ==
    ASSUME NEW l \in Lines, NEW m \in Lines, NEW c \in Nat, NEW s \in Seq(Chars),
           NEW n \in Nat, n = Len(s),
           \A i \in 0 .. LINE_CAP :
              (IF c <= i /\ i < c + n THEN s[i - c + 1] ELSE CellsOf(l)[i]) = CellsOf(m)[i]
    PROVE  Emit(Shown(l, c), s) = Shown(m, c + n)
<1>1. CellsOf(l) \in Cells /\ CellsOf(m) \in Cells
  BY LineFacts
<1>2. Emit(Row(CellsOf(l), c), s) = Row(Written(CellsOf(l), c, s, n), c + n)
  BY <1>1, EmitText
<1>3. Written(CellsOf(l), c, s, n) = CellsOf(m)
  <2>1. CellsOf(m) = [i \in 0 .. LINE_CAP |-> CellsOf(m)[i]]
    BY <1>1 DEF Cells
  <2> QED  BY <2>1 DEF Written
<1> QED  BY <1>2, <1>3 DEF Shown

\* Backspaces move the cursor.
LEMMA GoBack ==
    ASSUME NEW l \in Lines, NEW c \in Int, NEW k \in Nat
    PROVE  Emit(Shown(l, c), Back(k)) = Shown(l, c - k)
BY LineFacts, EmitBack DEF Shown

\* Writing a part of the line that is there already moves the cursor over it.
LEMMA GoOver ==
    ASSUME NEW l \in Lines, NEW a \in Nat, NEW b \in Nat, a <= b, b <= Len(l)
    PROVE  Emit(Shown(l, a), SubSeq(l, a + 1, b)) = Shown(l, b)
<1>1. PICK s : s = SubSeq(l, a + 1, b)
  OBVIOUS
<1>2. PICK n \in Nat : n = b - a
  OBVIOUS
<1>3. s \in Seq(Chars) /\ n = Len(s) /\ \A i \in 1 .. n : s[i] = l[a + i]
  BY <1>1, <1>2, LineFacts, PartFacts
<1>4. ASSUME NEW i \in 0 .. LINE_CAP
      PROVE  (IF a <= i /\ i < a + n THEN s[i - a + 1] ELSE CellsOf(l)[i]) = CellsOf(l)[i]
  <2>1. CASE a <= i /\ i < a + n
    <3>1. i - a + 1 \in 1 .. n /\ a + (i - a + 1) = i + 1 /\ i < Len(l)
      BY <1>2, <2>1, LineFacts, Caps
    <3>2. s[i - a + 1] = l[i + 1]
      BY <1>3, <3>1
    <3> QED  BY <2>1, <3>1, <3>2, LineFacts
  <2>2. CASE ~(a <= i /\ i < a + n)
    BY <2>2
  <2> QED  BY <2>1, <2>2
<1>5. a + n = b
  BY <1>2
<1>6. Emit(Shown(l, a), s) = Shown(l, a + n)
  BY <1>3, <1>4, Repaint
<1> QED  BY <1>1, <1>5, <1>6

LEMMA GoToEnd ==
    ASSUME NEW l \in Lines, NEW c \in 0 .. Len(l)
    PROVE  Emit(Shown(l, c), From(l, c)) = Shown(l, Len(l))
<1>1. Len(l) \in Nat /\ c \in Nat /\ c <= Len(l) /\ Len(l) <= Len(l)
  BY LineFacts
<1> QED  BY <1>1, GoOver DEF From

LEMMA NoLine == <<>> \in Lines /\ Len(<<>>) = 0 /\ FreshRow = Shown(<<>>, 0)
<1>1. <<>> \in Lines /\ Len(<<>>) = 0
  BY Caps DEF Lines
<1>2. CellsOf(<<>>) = [i \in 0 .. LINE_CAP |-> Blank]
  <2>1. \A i \in 0 .. LINE_CAP : ~(i < Len(<<>>))
    BY <1>1, Caps
  <2> QED  BY <2>1 DEF CellsOf
<1> QED  BY <1>1, <1>2 DEF FreshRow, Shown, Row, Blank

\* The line is erased from its end.
LEMMA EraseLine ==
    ASSUME NEW l \in Lines
    PROVE  Emit(Shown(l, Len(l)), erase_n(Len(l))) = Shown(<<>>, 0)
<1>1. PICK n \in Nat : n = Len(l)
  BY LineFacts
<1>2. CellsOf(l) \in Cells /\ CellsOf(<<>>) \in Cells
  BY LineFacts, NoLine
<1>3. Emit(Row(CellsOf(l), n), erase_n(n)) = Row(Erased(CellsOf(l), n, n), n - n)
  BY <1>2, EmitErase
<1>4. ASSUME NEW i \in 0 .. LINE_CAP
      PROVE  (IF n - n <= i /\ i < n THEN Blank ELSE CellsOf(l)[i]) = CellsOf(<<>>)[i]
  <2>1. CellsOf(<<>>)[i] = Blank
    <3>1. ~(i < 0)
      BY Caps
    <3> QED  BY <3>1, NoLine, LineFacts
  <2>2. CellsOf(l)[i] = IF i < n THEN l[i + 1] ELSE Blank
    BY <1>1, LineFacts
  <2>3. n - n <= i
    BY Caps
  <2> QED  BY <2>1, <2>2, <2>3
<1>5. Erased(CellsOf(l), n, n) = CellsOf(<<>>)
  <2>1. CellsOf(<<>>) = [i \in 0 .. LINE_CAP |-> CellsOf(<<>>)[i]]
    BY <1>2 DEF Cells
  <2> QED  BY <1>4, <2>1 DEF Erased, Blank
<1>6. n - n = 0
  OBVIOUS
<1> QED  BY <1>1, <1>3, <1>5, <1>6 DEF Shown

\* A line is written on an empty row.
LEMMA WriteLineOut ==
    ASSUME NEW l \in Lines
    PROVE  Emit(Shown(<<>>, 0), l) = Shown(l, Len(l))
<1>1. PICK n \in Nat : n = Len(l)
  BY LineFacts
<1>2. ASSUME NEW i \in 0 .. LINE_CAP
      PROVE  (IF 0 <= i /\ i < 0 + n THEN l[i - 0 + 1] ELSE CellsOf(<<>>)[i]) = CellsOf(l)[i]
  <2>1. CellsOf(<<>>)[i] = Blank
    <3>1. ~(i < 0)
      BY Caps
    <3> QED  BY <3>1, NoLine, LineFacts
  <2>2. CellsOf(l)[i] = IF i < n THEN l[i + 1] ELSE Blank
    BY <1>1, LineFacts
  <2>3. 0 <= i /\ 0 + n = n /\ i - 0 + 1 = i + 1
    BY Caps
  <2> QED  BY <2>1, <2>2, <2>3
<1>3. l \in Seq(Chars) /\ 0 \in Nat /\ 0 + n = n
  BY LineFacts
<1>4. Emit(Shown(<<>>, 0), l) = Shown(l, 0 + n)
  BY <1>1, <1>2, <1>3, NoLine, Repaint
<1> QED  BY <1>1, <1>3, <1>4


----------------------------------------------------------------------------
(* The edits: each leaves a line, a place in it, and a row that shows both. *)

\* What an edit e of the line l with the cursor at c has to be.
GoodEdit(l, c, e) ==
    /\ e.ln \in Lines /\ e.cur \in 0 .. Len(e.ln)
    /\ Emit(Shown(l, c), e.out) = Shown(e.ln, e.cur)

LEMMA EditIsGood ==
    ASSUME NEW l, NEW c, NEW m \in Lines, NEW d \in 0 .. Len(m), NEW out,
           Emit(Shown(l, c), out) = Shown(m, d)
    PROVE  GoodEdit(l, c, Edit(m, d, out))
BY DEF GoodEdit, Edit

LEMMA EmitThree ==
    ASSUME NEW t, NEW a \in Seq(Out), NEW b \in Seq(Out), NEW d \in Seq(Out)
    PROVE  Emit(t, a \o b \o d) = Emit(Emit(Emit(t, a), b), d)
<1>1. a \o b \in Seq(Out)
  BY ConcatProperties
<1>2. Emit(t, a \o b \o d) = Emit(Emit(t, a \o b), d)
  BY <1>1, EmitConcat
<1>3. Emit(t, a \o b) = Emit(Emit(t, a), b)
  BY EmitConcat
<1> QED  BY <1>2, <1>3

LEMMA EmitFour ==
    ASSUME NEW t, NEW a \in Seq(Out), NEW b \in Seq(Out), NEW d \in Seq(Out), NEW e \in Seq(Out)
    PROVE  Emit(t, a \o b \o d \o e) = Emit(Emit(Emit(Emit(t, a), b), d), e)
<1>1. a \o b \in Seq(Out) /\ a \o b \o d \in Seq(Out)
  BY ConcatProperties
<1>2. Emit(t, a \o b \o d \o e) = Emit(Emit(t, a \o b \o d), e)
  BY <1>1, EmitConcat
<1>3. Emit(t, a \o b \o d) = Emit(Emit(Emit(t, a), b), d)
  BY EmitThree
<1> QED  BY <1>2, <1>3

\* Two bytes.
LEMMA EmitPair == \A t, a, b : Emit(t, <<a, b>>) = Put(Put(t, a), b)
<1> TAKE t, a, b
<1>1. PICK s : s = <<a, b>>
  OBVIOUS
<1>2. Len(s) = 2 /\ s[1] = a /\ s[2] = b
  BY <1>1
<1> DEFINE g == [i \in 0 .. 2 |-> IF i = 0 THEN t ELSE IF i = 1 THEN Put(t, a) ELSE Put(Put(t, a), b)]
<1>3. g[0] = t /\ g[1] = Put(t, a) /\ g[2] = Put(Put(t, a), b)
  OBVIOUS
<1> HIDE DEF g
<1>4. \A i \in 1 .. 2 : (i = 1 \/ i = 2) /\ (i = 1 => i - 1 = 0) /\ (i = 2 => i - 1 = 1)
  OBVIOUS
<1>5. IsChain(g, t, s, 2)
  <2>1. \A i \in 1 .. 2 : g[i] = Put(g[i - 1], s[i])
    BY <1>2, <1>3, <1>4
  <2> QED  BY <1>3, <2>1 DEF IsChain
<1>6. Emit(t, s) = g[2]
  BY <1>2, <1>5, RowIs
<1> QED  BY <1>1, <1>3, <1>6

\* One byte.
LEMMA EmitOne == \A t, a : Emit(t, <<a>>) = Put(t, a)
<1> TAKE t, a
<1>1. PICK s : s = <<a>>
  OBVIOUS
<1>2. Len(s) = 1 /\ s[1] = a
  BY <1>1
<1> DEFINE g == [i \in 0 .. 1 |-> IF i = 0 THEN t ELSE Put(t, a)]
<1>3. g[0] = t /\ g[1] = Put(t, a)
  OBVIOUS
<1> HIDE DEF g
<1>4. \A i \in 1 .. 1 : i = 1 /\ i - 1 = 0
  OBVIOUS
<1>5. IsChain(g, t, s, 1)
  <2>1. \A i \in 1 .. 1 : g[i] = Put(g[i - 1], s[i])
    BY <1>2, <1>3, <1>4
  <2> QED  BY <1>3, <2>1 DEF IsChain
<1>6. Emit(t, s) = g[1]
  BY <1>2, <1>5, RowIs
<1> QED  BY <1>1, <1>3, <1>6

LEMMA GoBackOne ==
    ASSUME NEW l \in Lines, NEW c \in Int
    PROVE  Emit(Shown(l, c), <<BS>>) = Shown(l, c - 1)
<1>1. Put(Row(CellsOf(l), c), BS) = Row(CellsOf(l), c - 1)
  BY LineFacts, PutFacts DEF Cells
<1> QED  BY <1>1, EmitOne DEF Shown

\* One character, where m differs from l at most in that place.
LEMMA PutOne ==
    ASSUME NEW l \in Lines, NEW m \in Lines, NEW c \in Int, NEW b \in Chars,
           \A i \in 0 .. LINE_CAP : (IF i = c THEN b ELSE CellsOf(l)[i]) = CellsOf(m)[i]
    PROVE  Put(Shown(l, c), b) = Shown(m, c + 1)
<1>1. CellsOf(l) \in Cells /\ CellsOf(m) \in Cells
  BY LineFacts
<1>2. Put(Row(CellsOf(l), c), b)
        = Row([i \in 0 .. LINE_CAP |-> IF i = c THEN b ELSE CellsOf(l)[i]], c + 1)
  BY <1>1, PutFacts DEF Cells
<1>3. [i \in 0 .. LINE_CAP |-> IF i = c THEN b ELSE CellsOf(l)[i]] = CellsOf(m)
  BY <1>1 DEF Cells
<1> QED  BY <1>2, <1>3 DEF Shown

\* The beginning of a line.
LEMMA HeadFacts ==
    ASSUME NEW l \in Seq(Chars), NEW c \in 0 .. Len(l)
    PROVE  /\ SubSeq(l, 1, c) \in Seq(Chars) /\ Len(SubSeq(l, 1, c)) = c
           /\ \A i \in 1 .. c : SubSeq(l, 1, c)[i] = l[i]
<1>1. c \in Nat /\ 0 \in Nat /\ 0 <= c /\ c <= Len(l) /\ 0 + 1 = 1 /\ c - 0 = c
  OBVIOUS
<1>2. \A i \in 1 .. c : 0 + i = i
  BY <1>1
<1>3. /\ SubSeq(l, 0 + 1, c) \in Seq(Chars) /\ Len(SubSeq(l, 0 + 1, c)) = c - 0
      /\ \A i \in 1 .. c - 0 : SubSeq(l, 0 + 1, c)[i] = l[0 + i]
  BY <1>1, PartFacts
<1> QED  BY <1>1, <1>2, <1>3

\* m is a text of p characters and another of q in a row.
IsJoin(m, a, b, p, q) ==
    /\ m \in Seq(Chars) /\ Len(m) = p + q
    /\ \A i \in 1 .. p + q : m[i] = IF i <= p THEN a[i] ELSE b[i - p]

LEMMA JoinTwo ==
    ASSUME NEW a \in Seq(Chars), NEW b \in Seq(Chars), NEW p \in Nat, NEW q \in Nat,
           Len(a) = p, Len(b) = q
    PROVE  IsJoin(a \o b, a, b, p, q)
<1>1. /\ a \o b \in Seq(Chars) /\ Len(a \o b) = Len(a) + Len(b)
      /\ \A i \in 1 .. Len(a) + Len(b) : (a \o b)[i] = IF i <= Len(a) THEN a[i] ELSE b[i - Len(a)]
  BY ConcatProperties
<1> QED  BY <1>1 DEF IsJoin


\* insert: the rest of the line is written again behind the character.
LEMMA InsertGood ==
    ASSUME NEW l \in Lines, NEW c \in 0 .. Len(l), NEW b \in Chars, Len(l) < LINE_CAP
    PROVE  LET m == SubSeq(l, 1, c) \o <<b>> \o From(l, c)
           IN  /\ m \in Lines /\ c + 1 \in 0 .. Len(m)
               /\ Emit(Shown(l, c), <<b>> \o From(l, c) \o Back(Len(l) - c)) = Shown(m, c + 1)
<1>1. PICK n \in Nat : n = Len(l)
  BY LineFacts
<1>2. c \in Nat /\ c <= n /\ n < LINE_CAP /\ l \in Seq(Chars) /\ n - c \in Nat
  BY <1>1, LineFacts
<1>3. PICK h : h = SubSeq(l, 1, c)
  OBVIOUS
<1>4. h \in Seq(Chars) /\ Len(h) = c /\ \A i \in 1 .. c : h[i] = l[i]
  BY <1>2, <1>3, HeadFacts
<1>5. PICK t : t = From(l, c)
  OBVIOUS
<1>6. t \in Seq(Chars) /\ Len(t) = n - c /\ \A i \in 1 .. n - c : t[i] = l[c + i]
  BY <1>1, <1>2, <1>5, FromFacts
<1>7. PICK u : u = <<b>>
  OBVIOUS
<1>8. u \in Seq(Chars) /\ Len(u) = 1 /\ u[1] = b
  BY <1>7
<1>9. PICK s : s = u \o t
  OBVIOUS
<1>10. s \in Seq(Chars) /\ Len(s) = (n - c) + 1
       /\ \A i \in 1 .. (n - c) + 1 : s[i] = IF i <= 1 THEN u[i] ELSE t[i - 1]
  <2>1. PICK r \in Nat : r = n - c
    BY <1>2
  <2>2. 1 \in Nat /\ 1 + r = (n - c) + 1 /\ Len(t) = r
    BY <1>2, <1>6, <2>1
  <2>3. s \in Seq(Chars) /\ Len(s) = 1 + r /\ \A i \in 1 .. 1 + r : s[i] = IF i <= 1 THEN u[i] ELSE t[i - 1]
    <3>1. IsJoin(u \o t, u, t, 1, r)
      BY <1>6, <1>8, <2>2, JoinTwo
    <3> QED  BY <1>9, <3>1 DEF IsJoin
  <2> QED  BY <2>2, <2>3
<1>11. PICK m : m = h \o u \o t
  OBVIOUS
<1>12. m \in Seq(Chars) /\ Len(m) = n + 1
       /\ \A i \in 1 .. n + 1 : m[i] = IF i <= c THEN l[i] ELSE IF i = c + 1 THEN b ELSE l[i - 1]
  <2>1. PICK hu : hu = h \o u
    OBVIOUS
  <2>2. hu \in Seq(Chars) /\ Len(hu) = c + 1
        /\ \A i \in 1 .. c + 1 : hu[i] = IF i <= c THEN h[i] ELSE u[i - c]
    <3>1. 1 \in Nat
      OBVIOUS
    <3>2. IsJoin(h \o u, h, u, c, 1)
      BY <1>2, <1>4, <1>8, <3>1, JoinTwo
    <3> QED  BY <2>1, <3>2 DEF IsJoin
  <2>3. m = hu \o t /\ (c + 1) + (n - c) = n + 1
    BY <1>2, <1>11, <2>1
  <2>4. m \in Seq(Chars) /\ Len(m) = n + 1
        /\ \A i \in 1 .. n + 1 : m[i] = IF i <= c + 1 THEN hu[i] ELSE t[i - (c + 1)]
    <3>1. PICK r \in Nat : r = n - c
      BY <1>2
    <3>2. PICK p \in Nat : p = c + 1
      BY <1>2
    <3>3. IsJoin(hu \o t, hu, t, p, r)
      BY <1>6, <2>2, <3>1, <3>2, JoinTwo
    <3>4. p + r = n + 1
      BY <1>2, <3>1, <3>2
    <3> QED  BY <2>3, <3>2, <3>3, <3>4 DEF IsJoin
  <2>5. ASSUME NEW i \in 1 .. n + 1
        PROVE  m[i] = IF i <= c THEN l[i] ELSE IF i = c + 1 THEN b ELSE l[i - 1]
    <3>1. CASE i <= c
      <4>1. i \in 1 .. c /\ i \in 1 .. c + 1 /\ i <= c + 1
        BY <1>2, <3>1
      <4> QED  BY <1>4, <2>2, <2>4, <3>1, <4>1
    <3>2. CASE i = c + 1
      <4>1. ~(i <= c) /\ i \in 1 .. c + 1 /\ i <= c + 1 /\ i - c = 1
        BY <1>2, <3>2
      <4> QED  BY <1>8, <2>2, <2>4, <3>2, <4>1
    <3>3. CASE i > c + 1
      <4>1. ~(i <= c) /\ ~(i <= c + 1) /\ i # c + 1 /\ i - (c + 1) \in 1 .. n - c /\ c + (i - (c + 1)) = i - 1
        BY <1>2, <3>3
      <4> QED  BY <1>6, <2>4, <4>1
    <3> QED  BY <1>2, <3>1, <3>2, <3>3
  <2> QED  BY <2>4, <2>5
<1>13. m \in Lines /\ c + 1 \in 0 .. Len(m)
  <2>1. n + 1 <= LINE_CAP /\ c + 1 \in 0 .. n + 1
    BY <1>2, Caps
  <2> QED  BY <1>12, <2>1 DEF Lines
<1>14. PICK k \in Nat : k = (n - c) + 1
  BY <1>2
<1>15. ASSUME NEW i \in 0 .. LINE_CAP
       PROVE  (IF c <= i /\ i < c + k THEN s[i - c + 1] ELSE CellsOf(l)[i]) = CellsOf(m)[i]
  <2>1. CellsOf(l)[i] = IF i < n THEN l[i + 1] ELSE Blank
    BY <1>1, LineFacts
  <2>2. CellsOf(m)[i] = IF i < n + 1 THEN m[i + 1] ELSE Blank
    BY <1>12, <1>13, LineFacts
  <2>3. CASE i < c
    <3>1. i < n /\ i < n + 1 /\ i + 1 \in 1 .. n + 1 /\ i + 1 <= c /\ ~(c <= i)
      BY <1>2, <2>3, Caps
    <3> QED  BY <1>12, <2>1, <2>2, <3>1
  <2>4. CASE i = c
    <3>1. /\ i < n + 1 /\ i + 1 \in 1 .. n + 1 /\ ~(i + 1 <= c) /\ i + 1 = c + 1
          /\ c <= i /\ i < c + k /\ i - c + 1 = 1 /\ 1 \in 1 .. (n - c) + 1 /\ 1 <= 1
      BY <1>2, <1>14, <2>4, Caps
    <3>2. s[i - c + 1] = b
      BY <1>8, <1>10, <3>1
    <3>3. m[i + 1] = b
      BY <1>12, <3>1
    <3> QED  BY <2>2, <3>1, <3>2, <3>3
  <2>5. CASE c < i /\ i < n + 1
    <3>1. /\ i + 1 \in 1 .. n + 1 /\ ~(i + 1 <= c) /\ i + 1 # c + 1 /\ (i + 1) - 1 = i
          /\ c <= i /\ i < c + k /\ i - c + 1 \in 1 .. (n - c) + 1 /\ ~(i - c + 1 <= 1)
          /\ (i - c + 1) - 1 = i - c /\ i - c \in 1 .. n - c /\ c + (i - c) = i
      BY <1>2, <1>14, <2>5, Caps
    <3>20. PICK j \in Int : j = i - c
      BY <3>1
    <3>2. s[i - c + 1] = l[i]
      <4>1. s[j + 1] = t[(j + 1) - 1]
        BY <1>10, <3>1, <3>20
      <4>2. (j + 1) - 1 = j /\ t[j] = l[c + j]
        BY <1>6, <3>1, <3>20
      <4> QED  BY <3>1, <3>20, <4>1, <4>2
    <3>3. m[i + 1] = l[i]
      BY <1>12, <3>1
    <3> QED  BY <2>2, <2>5, <3>1, <3>2, <3>3
  <2>6. CASE ~(i < n + 1)
    <3>1. ~(i < n) /\ ~(i < c + k)
      BY <1>2, <1>14, <2>6, Caps
    <3> QED  BY <2>1, <2>2, <2>6, <3>1
  <2>7. i < c \/ i = c \/ (c < i /\ i < n + 1) \/ ~(i < n + 1)
    BY <1>2, Caps
  <2> QED  BY <2>3, <2>4, <2>5, <2>6, <2>7
<1>16. Emit(Shown(l, c), s) = Shown(m, c + k)
  BY <1>2, <1>10, <1>13, <1>14, <1>15, Repaint
<1>17. Emit(Shown(m, c + k), Back(n - c)) = Shown(m, c + 1)
  <2>1. PICK p \in Nat : p = n - c
    BY <1>2
  <2>2. c + k \in Int /\ (c + k) - p = c + 1
    BY <1>2, <1>14, <2>1
  <2>3. Emit(Shown(m, c + k), Back(p)) = Shown(m, (c + k) - p)
    BY <1>13, <2>2, GoBack
  <2> QED  BY <2>1, <2>2, <2>3
<1>18. Emit(Shown(l, c), s \o Back(n - c)) = Emit(Emit(Shown(l, c), s), Back(n - c))
  <2>1. s \in Seq(Out) /\ Back(n - c) \in Seq(Out)
    <3>1. CellsOf(l) \in Cells /\ 0 \in Int
      BY LineFacts
    <3> QED  BY <1>2, <1>10, <3>1, TextIsOut, EmitBack
  <2> QED  BY <2>1, EmitConcat
<1> QED  BY <1>1, <1>3, <1>5, <1>7, <1>9, <1>11, <1>13, <1>16, <1>17, <1>18


\* A line without its k-th character.
LEMMA RemoveFacts ==
    ASSUME NEW l \in Lines, NEW k \in 1 .. Len(l)
    PROVE  /\ RemoveAt(l, k) \in Lines /\ Len(RemoveAt(l, k)) = Len(l) - 1
           /\ \A i \in 1 .. Len(l) - 1 : RemoveAt(l, k)[i] = IF i < k THEN l[i] ELSE l[i + 1]
<1>1. PICK n \in Nat : n = Len(l)
  BY LineFacts
<1>2. k \in Nat /\ k >= 1 /\ k <= n /\ n <= LINE_CAP /\ l \in Seq(Chars) /\ k - 1 \in 0 .. n
  BY <1>1, LineFacts
<1>3. PICK p \in Nat : p = k - 1
  BY <1>2
<1>4. PICK q \in Nat : q = n - k
  BY <1>2
<1>5. PICK a : a = SubSeq(l, 1, p)
  OBVIOUS
<1>6. a \in Seq(Chars) /\ Len(a) = p /\ \A i \in 1 .. p : a[i] = l[i]
  BY <1>1, <1>2, <1>3, <1>5, HeadFacts
<1>7. PICK b : b = SubSeq(l, k + 1, n)
  OBVIOUS
<1>8. b \in Seq(Chars) /\ Len(b) = q /\ \A i \in 1 .. q : b[i] = l[k + i]
  <2>1. n <= Len(l)
    BY <1>1
  <2> QED  BY <1>2, <1>4, <1>7, <2>1, PartFacts
<1>9. PICK m : m = a \o b
  OBVIOUS
<1>10. IsJoin(m, a, b, p, q)
  BY <1>6, <1>8, <1>9, JoinTwo
<1>11. p + q = n - 1
  BY <1>2, <1>3, <1>4
<1>12. m \in Seq(Chars) /\ Len(m) = n - 1
       /\ \A i \in 1 .. n - 1 : m[i] = IF i <= p THEN a[i] ELSE b[i - p]
  BY <1>10, <1>11 DEF IsJoin
<1>13. ASSUME NEW i \in 1 .. n - 1 PROVE m[i] = IF i < k THEN l[i] ELSE l[i + 1]
  <2>1. CASE i < k
    <3>1. i <= p /\ i \in 1 .. p
      BY <1>2, <1>3, <2>1
    <3> QED  BY <1>6, <1>12, <2>1, <3>1
  <2>2. CASE ~(i < k)
    <3>1. ~(i <= p) /\ i - p \in 1 .. q /\ k + (i - p) = i + 1
      BY <1>2, <1>3, <1>4, <2>2
    <3> QED  BY <1>8, <1>12, <2>2, <3>1
  <2> QED  BY <2>1, <2>2
<1>14. m = RemoveAt(l, k)
  BY <1>1, <1>3, <1>5, <1>7, <1>9 DEF RemoveAt
<1>15. n - 1 <= LINE_CAP
  BY <1>2, Caps
<1> QED  BY <1>1, <1>12, <1>13, <1>14, <1>15 DEF Lines

\* The k-th character goes: the rest is written over it, and a blank over the last.
LEMMA RemoveGood ==
    ASSUME NEW l \in Lines, NEW k \in 1 .. Len(l), NEW m, m = RemoveAt(l, k),
           NEW c \in Nat, c = k - 1
    PROVE  /\ m \in Lines /\ c \in 0 .. Len(m)
           /\ From(m, c) \in Seq(Out) /\ <<Blank, BS>> \in Seq(Out) /\ Back(Len(m) - c) \in Seq(Out)
           /\ Emit(Emit(Emit(Shown(l, c), From(m, c)), <<Blank, BS>>), Back(Len(m) - c)) = Shown(m, c)
<1>1. PICK n \in Nat : n = Len(l)
  BY LineFacts
<1>2. k \in Nat /\ k >= 1 /\ k <= n /\ n <= LINE_CAP /\ c <= n - 1 /\ n - 1 \in Nat
  BY <1>1, LineFacts
<1>3. m \in Lines /\ Len(m) = n - 1
      /\ \A i \in 1 .. n - 1 : m[i] = IF i < k THEN l[i] ELSE l[i + 1]
  BY <1>1, RemoveFacts
<1>4. c \in 0 .. Len(m) /\ m \in Seq(Chars)
  BY <1>2, <1>3, LineFacts
<1>5. PICK s : s = From(m, c)
  OBVIOUS
<1>6. PICK r \in Nat : r = (n - 1) - c
  BY <1>2
<1>7. s \in Seq(Chars) /\ Len(s) = r /\ \A i \in 1 .. r : s[i] = m[c + i]
  BY <1>3, <1>4, <1>5, <1>6, FromFacts
\* What the row shows before the blank: the new line and the old last character.
<1> DEFINE q == [i \in 1 .. n |-> IF i < n THEN m[i] ELSE l[n]]
<1>8. q \in Lines /\ Len(q) = n /\ \A i \in 1 .. n : q[i] = IF i < n THEN m[i] ELSE l[n]
  <2>1. \A i \in 1 .. n : (IF i < n THEN m[i] ELSE l[n]) \in Chars
    <3>1. l[n] \in Chars
      BY <1>1, <1>2, LineFacts
    <3>2. \A i \in 1 .. n - 1 : m[i] \in Chars
      BY <1>3, LineFacts
    <3> QED  BY <1>2, <3>1, <3>2
  <2>2. q \in Seq(Chars) /\ Len(q) = n
    BY <2>1
  <2> QED  BY <1>2, <2>2 DEF Lines
<1> HIDE DEF q
<1>9. ASSUME NEW i \in 0 .. LINE_CAP
      PROVE  /\ CellsOf(l)[i] = IF i < n THEN l[i + 1] ELSE Blank
             /\ CellsOf(q)[i] = IF i < n THEN q[i + 1] ELSE Blank
             /\ CellsOf(m)[i] = IF i < n - 1 THEN m[i + 1] ELSE Blank
             /\ i < n => q[i + 1] = IF i < n - 1 THEN m[i + 1] ELSE l[n]
  <2>1. /\ CellsOf(l)[i] = IF i < n THEN l[i + 1] ELSE Blank
        /\ CellsOf(q)[i] = IF i < n THEN q[i + 1] ELSE Blank
        /\ CellsOf(m)[i] = IF i < n - 1 THEN m[i + 1] ELSE Blank
    BY <1>1, <1>3, <1>8, LineFacts
  <2>2. i < n => q[i + 1] = IF i < n - 1 THEN m[i + 1] ELSE l[n]
    <3> SUFFICES ASSUME i < n PROVE q[i + 1] = IF i < n - 1 THEN m[i + 1] ELSE l[n]
      OBVIOUS
    <3>1. i + 1 \in 1 .. n /\ (i + 1 < n <=> i < n - 1)
      BY Caps
    <3> QED  BY <1>8, <3>1
  <2> QED  BY <2>1, <2>2
<1>10. ASSUME NEW i \in 0 .. LINE_CAP
       PROVE  (IF c <= i /\ i < c + r THEN s[i - c + 1] ELSE CellsOf(l)[i]) = CellsOf(q)[i]
  <2>1. CASE c <= i /\ i < c + r
    <3>1. i < n - 1 /\ i < n /\ i - c + 1 \in 1 .. r /\ c + (i - c + 1) = i + 1
      BY <1>2, <1>6, <2>1, Caps
    <3>2. s[i - c + 1] = m[i + 1]
      BY <1>7, <3>1
    <3> QED  BY <1>9, <2>1, <3>1, <3>2
  <2>2. CASE i < c
    <3>1. ~(c <= i) /\ i < n - 1 /\ i < n /\ i + 1 \in 1 .. n - 1 /\ i + 1 < k
      BY <1>2, <2>2, Caps
    <3>2. m[i + 1] = l[i + 1]
      BY <1>3, <3>1
    <3> QED  BY <1>9, <3>1, <3>2
  <2>3. CASE ~(i < c) /\ ~(c <= i /\ i < c + r)
    <3>1. ~(i < n - 1) /\ (i < n => i + 1 = n)
      BY <1>2, <1>6, <2>3, Caps
    <3> QED  BY <1>9, <2>3, <3>1
  <2> QED  BY <2>1, <2>2, <2>3
<1>11. Emit(Shown(l, c), s) = Shown(q, c + r)
  BY <1>7, <1>8, <1>10, Repaint
<1>12. PICK p \in Int : p = c + r
  OBVIOUS
<1>13. p = n - 1
  BY <1>2, <1>6, <1>12
<1>14. Put(Shown(q, p), Blank) = Shown(m, p + 1)
  <2>1. ASSUME NEW i \in 0 .. LINE_CAP PROVE (IF i = p THEN Blank ELSE CellsOf(q)[i]) = CellsOf(m)[i]
    <3>1. CASE i = p
      <4>1. ~(i < n - 1)
        BY <1>13, <3>1
      <4> QED  BY <1>9, <3>1, <4>1
    <3>2. CASE i # p
      <4>1. i < n <=> i < n - 1
        BY <1>2, <1>13, <3>2, Caps
      <4> QED  BY <1>9, <3>2, <4>1
    <3> QED  BY <3>1, <3>2
  <2> QED  BY <1>3, <1>8, <2>1, BlankChar, PutOne
<1>15. Put(Shown(m, p + 1), BS) = Shown(m, p)
  <2>1. p + 1 \in Int /\ (p + 1) - 1 = p
    OBVIOUS
  <2>2. Put(Row(CellsOf(m), p + 1), BS) = Row(CellsOf(m), (p + 1) - 1)
    BY <1>3, <2>1, LineFacts, PutFacts DEF Cells
  <2> QED  BY <2>1, <2>2 DEF Shown
<1>16. Emit(Shown(q, p), <<Blank, BS>>) = Shown(m, p)
  BY <1>14, <1>15, EmitPair
<1>17. Emit(Shown(m, p), Back(r)) = Shown(m, c)
  <2>1. p - r = c
    BY <1>12
  <2> QED  BY <1>3, <2>1, GoBack
<1>18. <<Blank, BS>> \in Seq(Out)
  <2>1. Blank \in Out /\ BS \in Out
    BY BlankChar DEF Out
  <2> QED  BY <2>1
<1>19. s \in Seq(Out) /\ Back(r) \in Seq(Out)
  <2>1. CellsOf(l) \in Cells /\ 0 \in Int
    BY LineFacts
  <2> QED  BY <1>7, <2>1, TextIsOut, EmitBack
<1>20. Len(m) - c = r
  BY <1>3, <1>6
<1>21. Emit(Emit(Emit(Shown(l, c), s), <<Blank, BS>>), Back(r)) = Shown(m, c)
  BY <1>11, <1>12, <1>16, <1>17
<1> QED  BY <1>3, <1>4, <1>5, <1>18, <1>19, <1>20, <1>21


\* Where the words begin and end.
LEMMA WordPlaces ==
    ASSUME NEW l \in Lines, NEW c \in 0 .. Len(l)
    PROVE  WordStart(l, c) \in 0 .. c /\ WordEnd(l, c) \in c .. Len(l)
<1>1. PICK n \in Nat : n = Len(l)
  BY LineFacts
<1>2. c \in Nat /\ c <= n
  BY <1>1
<1> DEFINE A == {k \in 0 .. c : k = 0 \/ l[k] # Blank}
           i == LargestIn(A)
           B == {k \in 0 .. i : k = 0 \/ l[k] = Blank}
           C == {k \in c .. n : k = n \/ l[k + 1] # Blank}
           j == LeastIn(C)
           D == {k \in j .. n : k = n \/ l[k + 1] = Blank}
<1>3. i \in 0 .. c
  <2>1. A \in SUBSET (0 .. c) /\ 0 \in A
    BY <1>2
  <2> HIDE DEF A
  <2> QED  BY <1>2, <2>1, LargestFacts
<1>4. LargestIn(B) \in 0 .. c
  <2> HIDE DEF i
  <2>1. i \in Nat /\ i <= c
    BY <1>2, <1>3
  <2>2. B \in SUBSET (0 .. i) /\ 0 \in B
    BY <2>1
  <2> HIDE DEF B
  <2>3. LargestIn(B) \in 0 .. i
    BY <2>1, <2>2, LargestFacts
  <2> QED  BY <1>2, <2>1, <2>3
<1>5. j \in c .. n
  <2>1. C \in SUBSET (c .. n) /\ n \in C
    BY <1>2
  <2>2. C \in SUBSET Nat
    BY <1>2, <2>1
  <2> HIDE DEF C
  <2> QED  BY <2>1, <2>2, LeastFacts
<1>6. LeastIn(D) \in c .. n
  <2> HIDE DEF j
  <2>1. D \in SUBSET (j .. n) /\ n \in D /\ j \in Nat /\ c <= j
    BY <1>2, <1>5
  <2>2. D \in SUBSET Nat
    BY <2>1
  <2> HIDE DEF D
  <2>3. LeastIn(D) \in j .. n
    BY <2>1, <2>2, LeastFacts
  <2> QED  BY <1>2, <2>1, <2>3
<1>7. WordStart(l, c) = LargestIn(B)
  BY Zenon DEF WordStart, Blank
<1>8. WordEnd(l, c) = LeastIn({k \in LeastIn({k \in c .. Len(l) : k = Len(l) \/ l[k + 1] # Blank}) .. Len(l) :
                                 k = Len(l) \/ l[k + 1] = Blank})
  BY Zenon DEF WordEnd, Blank
<1> HIDE DEF A, i, B
<1>9. WordEnd(l, c) = LeastIn(D)
  BY <1>1, <1>8, Zenon
<1> HIDE DEF C, j, D
<1> QED  BY <1>1, <1>4, <1>6, <1>7, <1>9

LEMMA BackIsOut == \A k \in Nat : Back(k) \in Seq(Out)
<1> TAKE k \in Nat
<1>1. CellsOf(<<>>) \in Cells /\ 0 \in Int
  BY NoLine, LineFacts
<1> QED  BY <1>1, EmitBack

LEMMA EraseIsOut == \A k \in Nat : erase_n(k) \in Seq(Out)
<1> TAKE k \in Nat
<1>1. CellsOf(<<>>) \in Cells /\ 0 \in Nat
  BY NoLine, LineFacts
<1> QED  BY <1>1, EmitErase

\* The keys that only move the cursor.
LEMMA MovesGood ==
    ASSUME ln \in Lines, cur \in 0 .. Len(ln)
    PROVE  \A e \in {Same, go_home, go_to_end, move_left, move_right, word_left, word_right} :
              GoodEdit(ln, cur, e)
<1>1. PICK n \in Nat : n = Len(ln)
  BY LineFacts
<1>2. cur \in Nat /\ cur <= n /\ cur \in Int
  BY <1>1
<1>3. GoodEdit(ln, cur, Same)
  BY <1>2, EmitNone, EditIsGood DEF Same
<1>4. ASSUME NEW i \in 0 .. cur PROVE GoodEdit(ln, cur, Edit(ln, i, Back(cur - i)))
  <2>1. PICK k \in Nat : k = cur - i
    BY <1>2
  <2>2. cur - k = i /\ i \in 0 .. Len(ln)
    BY <1>1, <1>2, <2>1
  <2>3. Emit(Shown(ln, cur), Back(k)) = Shown(ln, i)
    BY <1>2, <2>2, GoBack
  <2> QED  BY <2>1, <2>2, <2>3, EditIsGood
<1>5. ASSUME NEW i \in cur .. n PROVE GoodEdit(ln, cur, Edit(ln, i, SubSeq(ln, cur + 1, i)))
  <2>1. i \in Nat /\ cur <= i /\ i <= Len(ln) /\ i \in 0 .. Len(ln)
    BY <1>1, <1>2
  <2>2. Emit(Shown(ln, cur), SubSeq(ln, cur + 1, i)) = Shown(ln, i)
    BY <1>2, <2>1, GoOver
  <2> QED  BY <2>1, <2>2, EditIsGood
<1>6. GoodEdit(ln, cur, go_home)
  <2>1. cur - 0 = cur /\ 0 \in 0 .. cur
    BY <1>2
  <2>2. GoodEdit(ln, cur, Edit(ln, 0, Back(cur - 0)))
    BY <1>4, <2>1
  <2> QED  BY <2>1, <2>2 DEF go_home
<1>7. GoodEdit(ln, cur, go_to_end)
  <2>1. n \in cur .. n
    BY <1>2
  <2>2. GoodEdit(ln, cur, Edit(ln, n, SubSeq(ln, cur + 1, n)))
    BY <1>5, <2>1
  <2> QED  BY <1>1, <2>2 DEF go_to_end, From
<1>8. GoodEdit(ln, cur, move_left)
  <2>1. CASE cur = 0
    BY <1>3, <2>1 DEF move_left
  <2>2. CASE cur # 0
    <3>1. cur - 1 \in 0 .. Len(ln)
      BY <1>1, <1>2, <2>2
    <3>2. Emit(Shown(ln, cur), <<BS>>) = Shown(ln, cur - 1)
      BY <1>2, GoBackOne
    <3>3. GoodEdit(ln, cur, Edit(ln, cur - 1, <<BS>>))
      BY <3>1, <3>2, EditIsGood
    <3> QED  BY <2>2, <3>3 DEF move_left
  <2> QED  BY <2>1, <2>2
<1>9. GoodEdit(ln, cur, move_right)
  <2>1. CASE cur >= Len(ln)
    BY <1>3, <2>1 DEF move_right
  <2>2. CASE ~(cur >= Len(ln))
    <3>1. cur + 1 \in cur .. n /\ cur + 1 \in 1 .. Len(ln)
      BY <1>1, <1>2, <2>2
    <3>2. SubSeq(ln, cur + 1, cur + 1) = <<ln[cur + 1]>>
      <4>1. PICK x \in Nat : x = cur + 1
        BY <1>2
      <4>2. ln \in Seq(Chars) /\ x \in 1 .. Len(ln) /\ x >= 1 /\ x <= Len(ln)
        BY <3>1, <4>1, LineFacts
      <4>3. SubSeq(ln, x, x) = <<ln[x]>>
        <5>1. PICK s : s = SubSeq(ln, x, x)
          OBVIOUS
        <5>2. s \in Seq(Chars) /\ Len(s) = 1 /\ s[1] = ln[x]
          <6>1. \A y \in x .. x : ln[y] \in Chars
            BY <4>2, LineFacts
          <6>2. x - x + 1 = 1 /\ 1 \in 1 .. 1 /\ x + 1 - 1 = x /\ x \in Int /\ x <= x
            BY <4>1
          <6>3. /\ SubSeq(ln, x, x) \in Seq(Chars)
                /\ Len(SubSeq(ln, x, x)) = IF x <= x THEN x - x + 1 ELSE 0
                /\ \A y \in 1 .. x - x + 1 : SubSeq(ln, x, x)[y] = ln[x + y - 1]
            BY <6>1, <6>2, SubSeqProperties
          <6> QED  BY <5>1, <6>2, <6>3
        <5>3. s = <<s[1]>>
          BY <5>2
        <5> QED  BY <5>1, <5>2, <5>3
      <4> QED  BY <4>1, <4>3
    <3>3. GoodEdit(ln, cur, Edit(ln, cur + 1, SubSeq(ln, cur + 1, cur + 1)))
      BY <1>5, <3>1
    <3> QED  BY <2>2, <3>2, <3>3 DEF move_right
  <2> QED  BY <2>1, <2>2
<1>10. GoodEdit(ln, cur, word_left) /\ GoodEdit(ln, cur, word_right)
  <2>1. WordStart(ln, cur) \in 0 .. cur /\ WordEnd(ln, cur) \in cur .. n
    BY <1>1, WordPlaces
  <2> QED  BY <1>4, <1>5, <2>1 DEF word_left, word_right
<1> QED  BY <1>3, <1>6, <1>7, <1>8, <1>9, <1>10

\* insert, backspace and forward_delete.
LEMMA InsertEdit ==
    ASSUME ln \in Lines, cur \in 0 .. Len(ln), NEW b \in Chars, Len(ln) < LINE_CAP
    PROVE  GoodEdit(ln, cur, insert(b))
<1>1. PICK m, o : /\ m = SubSeq(ln, 1, cur) \o <<b>> \o From(ln, cur)
                  /\ o = <<b>> \o From(ln, cur) \o Back(Len(ln) - cur)
  OBVIOUS
<1>2. m \in Lines /\ cur + 1 \in 0 .. Len(m) /\ Emit(Shown(ln, cur), o) = Shown(m, cur + 1)
  BY <1>1, InsertGood
<1>3. GoodEdit(ln, cur, Edit(m, cur + 1, o))
  BY <1>2, EditIsGood
<1> QED  BY <1>1, <1>3 DEF insert

LEMMA DeletesGood ==
    ASSUME ln \in Lines, cur \in 0 .. Len(ln)
    PROVE  GoodEdit(ln, cur, backspace) /\ GoodEdit(ln, cur, forward_delete)
<1>1. PICK n \in Nat : n = Len(ln)
  BY LineFacts
<1>2. cur \in Nat /\ cur <= n /\ cur \in Int
  BY <1>1
<1>3. GoodEdit(ln, cur, Same)
  BY MovesGood
<1>4. GoodEdit(ln, cur, backspace)
  <2>1. CASE cur = 0
    BY <1>3, <2>1 DEF backspace
  <2>2. CASE cur # 0
    <3>1. PICK c \in Nat : c = cur - 1
      BY <1>2, <2>2
    <3>2. cur \in 1 .. Len(ln)
      BY <1>1, <1>2, <2>2
    <3>3. PICK m : m = RemoveAt(ln, cur)
      OBVIOUS
    <3>4. /\ m \in Lines /\ c \in 0 .. Len(m)
          /\ From(m, c) \in Seq(Out) /\ <<Blank, BS>> \in Seq(Out) /\ Back(Len(m) - c) \in Seq(Out)
          /\ Emit(Emit(Emit(Shown(ln, c), From(m, c)), <<Blank, BS>>), Back(Len(m) - c)) = Shown(m, c)
      BY <3>1, <3>2, <3>3, RemoveGood
    <3>5. Emit(Shown(ln, cur), <<BS>>) = Shown(ln, c)
      BY <1>2, <3>1, GoBackOne
    <3>6. <<BS>> \in Seq(Out)
      BY DEF Out
    <3>7. Emit(Shown(ln, cur), <<BS>> \o From(m, c) \o <<Blank, BS>> \o Back(Len(m) - c))
            = Emit(Emit(Emit(Emit(Shown(ln, cur), <<BS>>), From(m, c)), <<Blank, BS>>), Back(Len(m) - c))
      <4>1. PICK a, b, d, e : a = <<BS>> /\ b = From(m, c) /\ d = <<Blank, BS>> /\ e = Back(Len(m) - c)
        OBVIOUS
      <4>2. a \in Seq(Out) /\ b \in Seq(Out) /\ d \in Seq(Out) /\ e \in Seq(Out)
        BY <3>4, <3>6, <4>1, Zenon
      <4>3. \A t : Emit(t, a \o b \o d \o e) = Emit(Emit(Emit(Emit(t, a), b), d), e)
        BY <4>2, EmitFour
      <4> QED  BY <4>1, <4>3, Zenon
    <3>8. GoodEdit(ln, cur, Edit(m, c, <<BS>> \o From(m, c) \o <<Blank, BS>> \o Back(Len(m) - c)))
      BY <3>4, <3>5, <3>7, EditIsGood
    <3>9. backspace = Edit(RemoveAt(ln, cur), cur - 1, <<BS>> \o From(RemoveAt(ln, cur), cur - 1) \o <<Blank, BS>>
                               \o Back(Len(RemoveAt(ln, cur)) - (cur - 1)))
      BY <2>2, Zenon DEF backspace, Blank
    <3>10. backspace = Edit(m, c, <<BS>> \o From(m, c) \o <<Blank, BS>> \o Back(Len(m) - c))
      BY <3>1, <3>3, <3>9, Zenon
    <3> QED  BY <3>8, <3>10
  <2> QED  BY <2>1, <2>2
<1>5. GoodEdit(ln, cur, forward_delete)
  <2>1. CASE cur >= Len(ln)
    BY <1>3, <2>1 DEF forward_delete
  <2>2. CASE ~(cur >= Len(ln))
    <3>1. cur + 1 \in 1 .. Len(ln) /\ cur = (cur + 1) - 1
      BY <1>1, <1>2, <2>2
    <3>2. PICK k : k = cur + 1
      OBVIOUS
    <3>3. PICK m : m = RemoveAt(ln, k)
      OBVIOUS
    <3>4. /\ m \in Lines /\ cur \in 0 .. Len(m)
          /\ From(m, cur) \in Seq(Out) /\ <<Blank, BS>> \in Seq(Out) /\ Back(Len(m) - cur) \in Seq(Out)
          /\ Emit(Emit(Emit(Shown(ln, cur), From(m, cur)), <<Blank, BS>>), Back(Len(m) - cur)) = Shown(m, cur)
      BY <1>2, <3>1, <3>2, <3>3, RemoveGood
    <3>5. Emit(Shown(ln, cur), From(m, cur) \o <<Blank, BS>> \o Back(Len(m) - cur))
            = Emit(Emit(Emit(Shown(ln, cur), From(m, cur)), <<Blank, BS>>), Back(Len(m) - cur))
      <4>1. PICK a, b, d : a = From(m, cur) /\ b = <<Blank, BS>> /\ d = Back(Len(m) - cur)
        OBVIOUS
      <4>2. a \in Seq(Out) /\ b \in Seq(Out) /\ d \in Seq(Out)
        BY <3>4, <4>1, Zenon
      <4>3. \A t : Emit(t, a \o b \o d) = Emit(Emit(Emit(t, a), b), d)
        BY <4>2, EmitThree
      <4> QED  BY <4>1, <4>3, Zenon
    <3>6. GoodEdit(ln, cur, Edit(m, cur, From(m, cur) \o <<Blank, BS>> \o Back(Len(m) - cur)))
      BY <3>4, <3>5, EditIsGood
    <3>7. forward_delete = Edit(RemoveAt(ln, cur + 1), cur, From(RemoveAt(ln, cur + 1), cur) \o <<Blank, BS>>
                               \o Back(Len(RemoveAt(ln, cur + 1)) - cur))
      BY <2>2, Zenon DEF forward_delete, Blank
    <3>8. forward_delete = Edit(m, cur, From(m, cur) \o <<Blank, BS>> \o Back(Len(m) - cur))
      BY <3>2, <3>3, <3>7, Zenon
    <3> QED  BY <3>6, <3>8
  <2> QED  BY <2>1, <2>2
<1> QED  BY <1>4, <1>5

----------------------------------------------------------------------------
(* The edits that write the line anew.                                     *)

\* The line is gone over, erased and another written.
LEMMA ReplaceGood ==
    ASSUME NEW l \in Lines, NEW c \in 0 .. Len(l), NEW m \in Lines, NEW d \in 0 .. Len(m)
    PROVE  /\ Emit(Shown(l, c), From(l, c) \o erase_n(Len(l))) = Shown(<<>>, 0)
           /\ Emit(Shown(l, c), From(l, c) \o erase_n(Len(l)) \o m) = Shown(m, Len(m))
           /\ Emit(Shown(l, c), From(l, c) \o erase_n(Len(l)) \o m \o Back(Len(m) - d)) = Shown(m, d)
<1>1. PICK n \in Nat : n = Len(l)
  BY LineFacts
<1>2. PICK k \in Nat : k = Len(m)
  BY LineFacts
<1>3. PICK r \in Nat : r = k - d /\ k - r = d
  <2>1. d \in Nat /\ k - d \in Nat /\ k - (k - d) = d
    BY <1>2
  <2> QED  BY <2>1
<1>4. PICK f, e, b : f = From(l, c) /\ e = erase_n(n) /\ b = Back(r)
  OBVIOUS
<1>5. f \in Seq(Out) /\ e \in Seq(Out) /\ b \in Seq(Out) /\ m \in Seq(Out)
  BY <1>1, <1>4, LineFacts, FromFacts, TextIsOut, EraseIsOut, BackIsOut
<1>6. Emit(Shown(l, c), f) = Shown(l, n)
  BY <1>1, <1>4, GoToEnd
<1>7. Emit(Shown(l, n), e) = Shown(<<>>, 0)
  BY <1>1, <1>4, EraseLine
<1>8. Emit(Shown(<<>>, 0), m) = Shown(m, k)
  BY <1>2, WriteLineOut
<1>9. Emit(Shown(m, k), b) = Shown(m, d)
  <2>1. k \in Int
    OBVIOUS
  <2>2. Emit(Shown(m, k), Back(r)) = Shown(m, k - r)
    BY <2>1, GoBack
  <2> QED  BY <1>3, <1>4, <2>2
<1>10. PICK t : t = Shown(l, c)
  OBVIOUS
<1>11. Emit(t, f \o e) = Shown(<<>>, 0)
  BY <1>5, <1>6, <1>7, <1>10, EmitConcat
<1>12. Emit(t, f \o e \o m) = Shown(m, k)
  BY <1>5, <1>6, <1>7, <1>8, <1>10, EmitThree
<1>13. Emit(t, f \o e \o m \o b) = Shown(m, d)
  BY <1>5, <1>6, <1>7, <1>8, <1>9, <1>10, EmitFour
<1> QED  BY <1>1, <1>2, <1>3, <1>4, <1>10, <1>11, <1>12, <1>13

\* redraw: a line is written on a row wiped clean.
LEMMA RedrawGood ==
    ASSUME NEW m \in Lines, NEW d \in 0 .. Len(m)
    PROVE  Emit(FreshRow, m \o Back(Len(m) - d)) = Shown(m, d)
<1>1. PICK k \in Nat : k = Len(m)
  BY LineFacts
<1>2. PICK r \in Nat : r = k - d /\ k - r = d
  <2>1. d \in Nat /\ k - d \in Nat /\ k - (k - d) = d
    BY <1>1
  <2> QED  BY <2>1
<1>3. PICK b : b = Back(r)
  OBVIOUS
<1>4. b \in Seq(Out) /\ m \in Seq(Out)
  BY <1>3, LineFacts, TextIsOut, BackIsOut
<1>5. Emit(FreshRow, m) = Shown(m, k)
  BY <1>1, WriteLineOut, NoLine
<1>6. Emit(Shown(m, k), b) = Shown(m, d)
  <2>1. k \in Int
    OBVIOUS
  <2>2. Emit(Shown(m, k), Back(r)) = Shown(m, k - r)
    BY <2>1, GoBack
  <2> QED  BY <1>2, <1>3, <2>2
<1>7. Emit(FreshRow, m \o b) = Shown(m, d)
  BY <1>4, <1>5, <1>6, EmitConcat
<1> QED  BY <1>1, <1>2, <1>3, <1>7

\* A line whose middle is cut out or replaced.
LEMMA JoinLines ==
    ASSUME NEW l \in Lines, NEW c \in 0 .. Len(l), NEW i \in 0 .. c
    PROVE  /\ SubSeq(l, 1, i) \in Lines /\ Len(SubSeq(l, 1, i)) = i
           /\ From(l, c) \in Lines
           /\ SubSeq(l, 1, i) \o From(l, c) \in Lines
           /\ Len(SubSeq(l, 1, i) \o From(l, c)) = i + (Len(l) - c)
<1>1. PICK n \in Nat : n = Len(l)
  BY LineFacts
<1>2. l \in Seq(Chars) /\ n <= LINE_CAP /\ c \in Nat /\ i \in Nat /\ i <= c /\ c <= n /\ 0 \in Nat /\ 0 <= i
  BY <1>1, LineFacts
<1>3. PICK h, f : h = SubSeq(l, 1, i) /\ f = From(l, c)
  OBVIOUS
<1>4. h \in Seq(Chars) /\ Len(h) = i
  <2>1. 0 + 1 = 1 /\ i - 0 = i /\ i <= Len(l)
    BY <1>1, <1>2
  <2>2. SubSeq(l, 0 + 1, i) \in Seq(Chars) /\ Len(SubSeq(l, 0 + 1, i)) = i - 0
    BY <1>2, <2>1, PartFacts
  <2> QED  BY <1>3, <2>1, <2>2
<1>5. f \in Seq(Chars) /\ Len(f) = n - c
  BY <1>1, <1>2, <1>3, FromFacts
<1>6. h \o f \in Seq(Chars) /\ Len(h \o f) = i + (n - c)
  BY <1>4, <1>5, ConcatProperties
<1>7. i <= LINE_CAP /\ n - c <= LINE_CAP /\ i + (n - c) <= LINE_CAP
  BY <1>2, Caps
<1> QED  BY <1>1, <1>3, <1>4, <1>5, <1>6, <1>7 DEF Lines

\* The clipboard's bytes go in at the cursor, as many as the line has room for.
LEMMA PasteLine ==
    ASSUME NEW l \in Lines, NEW c \in 0 .. Len(l), NEW clip \in Seq(Chars),
           NEW k, k = LeastIn({Len(clip), LINE_CAP - Len(l)}), k > 0
    PROVE  LET m == SubSeq(l, 1, c) \o SubSeq(clip, 1, k) \o From(l, c)
           IN  m \in Lines /\ c + k \in 0 .. Len(m)
<1>1. PICK n \in Nat : n = Len(l)
  BY LineFacts
<1>2. l \in Seq(Chars) /\ n <= LINE_CAP /\ c \in Nat /\ c <= n /\ c \in 0 .. c /\ LINE_CAP - n \in Nat
  BY <1>1, LineFacts, Caps
<1>3. k \in {Len(clip), LINE_CAP - n} /\ k <= Len(clip) /\ k <= LINE_CAP - n /\ k \in Nat
  <2> DEFINE S == {Len(clip), LINE_CAP - n}
  <2>1. S \in SUBSET Nat /\ S # {} /\ Len(clip) \in S /\ LINE_CAP - n \in S
    BY <1>2
  <2>2. k = LeastIn(S)
    BY <1>1
  <2> HIDE DEF S
  <2>3. LeastIn(S) \in S /\ \A y \in S : LeastIn(S) <= y
    BY <2>1, LeastFacts
  <2>4. k \in S /\ k <= Len(clip) /\ k <= LINE_CAP - n /\ k \in Nat
    BY <2>1, <2>2, <2>3
  <2> QED  BY <2>4 DEF S
<1>4. PICK h, s, f : h = SubSeq(l, 1, c) /\ s = SubSeq(clip, 1, k) /\ f = From(l, c)
  OBVIOUS
<1>5. h \in Seq(Chars) /\ Len(h) = c
  BY <1>2, <1>4, JoinLines DEF Lines
<1>6. f \in Seq(Chars) /\ Len(f) = n - c
  BY <1>1, <1>2, <1>4, FromFacts
<1>7. s \in Seq(Chars) /\ Len(s) = k
  <2>1. 0 + 1 = 1 /\ k - 0 = k /\ k <= Len(clip) /\ 0 \in Nat /\ 0 <= k
    BY <1>3
  <2>2. SubSeq(clip, 0 + 1, k) \in Seq(Chars) /\ Len(SubSeq(clip, 0 + 1, k)) = k - 0
    BY <1>3, <2>1, PartFacts
  <2> QED  BY <1>4, <2>1, <2>2
<1>8. h \o s \in Seq(Chars) /\ Len(h \o s) = c + k
  BY <1>5, <1>7, ConcatProperties
<1>9. h \o s \o f \in Seq(Chars) /\ Len(h \o s \o f) = (c + k) + (n - c)
  <2>1. PICK g : g = h \o s
    OBVIOUS
  <2>2. g \in Seq(Chars) /\ Len(g) = c + k
    BY <1>8, <2>1
  <2>3. g \o f \in Seq(Chars) /\ Len(g \o f) = (c + k) + (n - c)
    BY <1>6, <2>2, ConcatProperties
  <2> QED  BY <2>1, <2>3
<1>10. (c + k) + (n - c) <= LINE_CAP /\ c + k \in 0 .. (c + k) + (n - c)
  BY <1>2, <1>3, Caps
<1> QED  BY <1>4, <1>9, <1>10 DEF Lines

\* Blanks over the end of the line.
LEMMA BlankEnd ==
    ASSUME NEW l \in Lines, NEW c \in 0 .. Len(l), NEW r \in Nat, r = Len(l) - c
    PROVE  LET w == [i \in 1 .. r |-> Blank]
           IN  w \in Seq(Chars) /\ Emit(Shown(l, c), w) = Shown(SubSeq(l, 1, c), c + r)
<1>1. PICK n \in Nat : n = Len(l)
  BY LineFacts
<1>2. l \in Seq(Chars) /\ n <= LINE_CAP /\ c \in Nat /\ c <= n /\ c \in 0 .. c
  BY <1>1, LineFacts
<1>3. PICK m : m = SubSeq(l, 1, c)
  OBVIOUS
<1>4. m \in Lines /\ Len(m) = c
  BY <1>2, <1>3, JoinLines
<1>5. \A i \in 1 .. c : m[i] = l[i]
  <2>1. 0 + 1 = 1 /\ c - 0 = c /\ c <= Len(l) /\ 0 \in Nat /\ 0 <= c
    BY <1>1, <1>2
  <2>2. \A i \in 1 .. c - 0 : SubSeq(l, 0 + 1, c)[i] = l[0 + i]
    BY <1>2, <2>1, PartFacts
  <2>3. \A i \in 1 .. c : SubSeq(l, 1, c)[i] = l[0 + i] /\ 0 + i = i
    BY <1>2, <2>1, <2>2
  <2> QED  BY <1>3, <2>3
<1>6. PICK w : w = [i \in 1 .. r |-> Blank]
  OBVIOUS
<1>7. w \in Seq(Chars) /\ Len(w) = r /\ \A i \in 1 .. r : w[i] = Blank
  BY <1>6, BlankChar
<1>8. ASSUME NEW i \in 0 .. LINE_CAP
      PROVE  (IF c <= i /\ i < c + r THEN w[i - c + 1] ELSE CellsOf(l)[i]) = CellsOf(m)[i]
  <2>1. CellsOf(l)[i] = (IF i < n THEN l[i + 1] ELSE Blank) /\ i \in Nat
    BY <1>1, LineFacts, Caps
  <2>2. CellsOf(m)[i] = IF i < c THEN m[i + 1] ELSE Blank
    BY <1>4, LineFacts
  <2>3. CASE i < c
    <3>1. i + 1 \in 1 .. c /\ i < n /\ ~(c <= i)
      BY <1>2, <2>1, <2>3
    <3> QED  BY <1>5, <2>1, <2>2, <2>3, <3>1
  <2>4. CASE c <= i /\ i < c + r
    <3>1. i - c + 1 \in 1 .. r /\ ~(i < c)
      BY <1>2, <2>1, <2>4
    <3> QED  BY <1>7, <2>2, <2>4, <3>1
  <2>5. CASE ~(i < c + r)
    <3>1. ~(i < n) /\ ~(i < c)
      BY <1>1, <1>2, <2>1, <2>5
    <3> QED  BY <2>1, <2>2, <2>5, <3>1
  <2>6. i < c \/ c <= i
    BY <1>2, <2>1
  <2> QED  BY <2>3, <2>4, <2>5, <2>6
<1>9. Emit(Shown(l, c), w) = Shown(m, c + r)
  BY <1>2, <1>4, <1>7, <1>8, Repaint
<1> QED  BY <1>3, <1>6, <1>7, <1>9

\* kill_to_end, kill_to_start and kill_word.
LEMMA KillsGood ==
    ASSUME ln \in Lines, cur \in 0 .. Len(ln)
    PROVE  \A e \in {kill_to_end, kill_to_start, kill_word} : GoodEdit(ln, cur, e)
<1>1. PICK n \in Nat : n = Len(ln)
  BY LineFacts
<1>2. cur \in Nat /\ cur <= n /\ cur \in Int
  BY <1>1
<1>3. GoodEdit(ln, cur, Same)
  BY MovesGood
<1>4. GoodEdit(ln, cur, kill_to_end)
  <2>1. PICK r \in Nat : r = Len(ln) - cur
    <3>1. n - cur \in Nat
      BY <1>2
    <3> QED  BY <1>1, <3>1
  <2>2. PICK m, w, b : m = SubSeq(ln, 1, cur) /\ w = [i \in 1 .. r |-> Blank] /\ b = Back(r)
    OBVIOUS
  <2>3. w \in Seq(Chars) /\ Emit(Shown(ln, cur), w) = Shown(m, cur + r)
    BY <2>1, <2>2, BlankEnd
  <2>4. m \in Lines /\ Len(m) = cur
    <3>1. cur \in 0 .. cur
      BY <1>2
    <3> QED  BY <2>2, <3>1, JoinLines
  <2>5. Emit(Shown(m, cur + r), b) = Shown(m, cur)
    <3>1. cur + r \in Int /\ (cur + r) - r = cur
      BY <1>2
    <3>2. Emit(Shown(m, cur + r), Back(r)) = Shown(m, (cur + r) - r)
      BY <2>4, <3>1, GoBack
    <3> QED  BY <2>2, <3>1, <3>2
  <2>6. w \in Seq(Out) /\ b \in Seq(Out)
    BY <2>2, <2>3, TextIsOut, BackIsOut
  <2>7. Emit(Shown(ln, cur), w \o b) = Shown(m, cur)
    BY <2>3, <2>5, <2>6, EmitConcat
  <2>8. cur \in 0 .. Len(m)
    BY <1>2, <2>4
  <2>9. GoodEdit(ln, cur, Edit(m, cur, w \o b))
    BY <2>4, <2>7, <2>8, EditIsGood
  <2>10. kill_to_end = Edit(SubSeq(ln, 1, cur), cur, [i \in 1 .. Len(ln) - cur |-> Blank] \o Back(Len(ln) - cur))
    BY Zenon DEF kill_to_end, Blank
  <2> QED  BY <2>1, <2>2, <2>9, <2>10, Zenon
<1>5. GoodEdit(ln, cur, kill_to_start)
  <2>1. CASE cur = 0
    BY <1>3, <2>1 DEF kill_to_start
  <2>2. CASE cur # 0
    <3>1. PICK m : m = From(ln, cur)
      OBVIOUS
    <3>2. m \in Lines
      <4>1. cur \in 0 .. cur
        BY <1>2
      <4> QED  BY <3>1, <4>1, JoinLines
    <3>3. Len(m) \in Nat /\ 0 \in 0 .. Len(m) /\ Len(m) - 0 = Len(m)
      BY <3>2, LineFacts
    <3>4. Emit(Shown(ln, cur), From(ln, cur) \o erase_n(Len(ln)) \o m \o Back(Len(m) - 0)) = Shown(m, 0)
      BY <3>2, <3>3, ReplaceGood
    <3>5. GoodEdit(ln, cur, Edit(m, 0, m \o erase_n(Len(ln)) \o m \o Back(Len(m))))
      BY <3>1, <3>2, <3>3, <3>4, EditIsGood
    <3> QED  BY <2>2, <3>1, <3>5, Zenon DEF kill_to_start
  <2> QED  BY <2>1, <2>2
<1>6. GoodEdit(ln, cur, kill_word)
  <2>1. CASE cur = 0
    BY <1>3, <2>1 DEF kill_word
  <2>2. CASE cur # 0
    <3>1. PICK i : i = WordStart(ln, cur)
      OBVIOUS
    <3>2. i \in 0 .. cur
      BY <3>1, WordPlaces
    <3>3. PICK m : m = SubSeq(ln, 1, i) \o From(ln, cur)
      OBVIOUS
    <3>4. m \in Lines /\ Len(m) = i + (Len(ln) - cur)
      BY <3>2, <3>3, JoinLines
    <3>5. i \in 0 .. Len(m)
      BY <1>1, <1>2, <3>2, <3>4
    <3>6. Emit(Shown(ln, cur), From(ln, cur) \o erase_n(Len(ln)) \o m \o Back(Len(m) - i)) = Shown(m, i)
      BY <3>4, <3>5, ReplaceGood
    <3>7. GoodEdit(ln, cur, Edit(m, i, From(ln, cur) \o erase_n(Len(ln)) \o m \o Back(Len(m) - i)))
      BY <3>4, <3>5, <3>6, EditIsGood
    <3> QED  BY <2>2, <3>1, <3>3, <3>7, Zenon DEF kill_word
  <2> QED  BY <2>1, <2>2
<1> QED  BY <1>4, <1>5, <1>6

\* paint_replace, and the line wiped by Ctrl+C.
LEMMA ReplacesGood ==
    ASSUME ln \in Lines, cur \in 0 .. Len(ln)
    PROVE  /\ \A src \in Lines : GoodEdit(ln, cur, paint_replace(src))
           /\ GoodEdit(ln, cur, Edit(<<>>, 0, From(ln, cur) \o erase_n(Len(ln))))
<1>1. ASSUME NEW src \in Lines PROVE GoodEdit(ln, cur, paint_replace(src))
  <2>1. Len(src) \in 0 .. Len(src)
    BY LineFacts
  <2>2. Emit(Shown(ln, cur), From(ln, cur) \o erase_n(Len(ln)) \o src) = Shown(src, Len(src))
    BY <2>1, ReplaceGood
  <2> QED  BY <2>1, <2>2, EditIsGood DEF paint_replace
<1>2. 0 \in 0 .. Len(<<>>)
  BY NoLine
<1>3. Emit(Shown(ln, cur), From(ln, cur) \o erase_n(Len(ln))) = Shown(<<>>, 0)
  BY <1>2, NoLine, ReplaceGood
<1>4. GoodEdit(ln, cur, Edit(<<>>, 0, From(ln, cur) \o erase_n(Len(ln))))
  BY <1>2, <1>3, NoLine, EditIsGood
<1> QED  BY <1>1, <1>4

\* transpose.
LEMMA TransposeGood ==
    ASSUME ln \in Lines, cur \in 0 .. Len(ln)
    PROVE  GoodEdit(ln, cur, transpose)
<1>1. PICK n \in Nat : n = Len(ln)
  BY LineFacts
<1>2. cur \in Nat /\ cur <= n /\ cur \in Int /\ ln \in Seq(Chars) /\ n <= LINE_CAP
  BY <1>1, LineFacts
<1>3. GoodEdit(ln, cur, Same)
  BY MovesGood
<1>4. CASE cur < 2
  BY <1>3, <1>4 DEF transpose
<1>5. CASE ~(cur < 2)
  <2>1. PICK c \in Nat : cur = c + 2
    <3>1. cur - 2 \in Nat /\ cur = (cur - 2) + 2
      BY <1>2, <1>5
    <3> QED  BY <3>1
  <2>2. cur - 1 = c + 1 /\ c + 1 \in 1 .. n /\ c + 2 \in 1 .. n
    BY <1>2, <2>1
  <2>3. PICK x, y : x = ln[c + 2] /\ y = ln[c + 1]
    OBVIOUS
  <2>4. x \in Chars /\ y \in Chars
    BY <1>1, <2>2, <2>3, LineFacts
  <2>5. PICK m : m = [ln EXCEPT ![c + 1] = x, ![c + 2] = y]
    OBVIOUS
  <2>6. /\ m \in Seq(Chars) /\ Len(m) = n
        /\ \A i \in 1 .. n : m[i] = IF i = c + 2 THEN y ELSE IF i = c + 1 THEN x ELSE ln[i]
    <3>1. ln = [i \in 1 .. n |-> ln[i]] /\ \A i \in 1 .. n : ln[i] \in Chars
      BY <1>1, <1>2
    <3>2. m = [i \in 1 .. n |-> IF i = c + 2 THEN y ELSE IF i = c + 1 THEN x ELSE ln[i]]
      BY <2>5, <3>1
    <3>3. \A i \in 1 .. n : (IF i = c + 2 THEN y ELSE IF i = c + 1 THEN x ELSE ln[i]) \in Chars
      BY <2>4, <3>1
    <3>4. m \in [1 .. n -> Chars]
      BY <3>2, <3>3
    <3>5. m \in Seq(Chars) /\ Len(m) = n
      BY <3>4
    <3> QED  BY <3>2, <3>5
  <2>7. m \in Lines
    BY <1>2, <2>6 DEF Lines
  <2>8. PICK s : s = <<x, y>>
    OBVIOUS
  <2>9. s \in Seq(Chars) /\ Len(s) = 2 /\ s[1] = x /\ s[2] = y
    BY <2>4, <2>8
  <2>10. ASSUME NEW i \in 0 .. LINE_CAP
         PROVE  (IF c <= i /\ i < c + 2 THEN s[i - c + 1] ELSE CellsOf(ln)[i]) = CellsOf(m)[i]
    <3>1. CellsOf(ln)[i] = (IF i < n THEN ln[i + 1] ELSE Blank) /\ i \in Nat
      BY <1>1, LineFacts, Caps
    <3>2. CellsOf(m)[i] = IF i < n THEN m[i + 1] ELSE Blank
      BY <2>6, <2>7, LineFacts
    <3>3. CASE i = c
      <4>1. c <= i /\ i < c + 2 /\ i - c + 1 = 1 /\ i < n /\ i + 1 \in 1 .. n /\ i + 1 # c + 2 /\ i + 1 = c + 1
        BY <2>2, <3>3
      <4>2. m[i + 1] = x
        BY <2>6, <4>1
      <4> QED  BY <2>9, <3>2, <4>1, <4>2
    <3>4. CASE i = c + 1
      <4>1. c <= i /\ i < c + 2 /\ i - c + 1 = 2 /\ i < n /\ i + 1 \in 1 .. n /\ i + 1 = c + 2
        BY <2>2, <3>4
      <4>2. m[i + 1] = y
        BY <2>6, <4>1
      <4> QED  BY <2>9, <3>2, <4>1, <4>2
    <3>5. CASE i # c /\ i # c + 1
      <4>1. ~(c <= i /\ i < c + 2) /\ i + 1 # c + 1 /\ i + 1 # c + 2 /\ (i < n => i + 1 \in 1 .. n)
        BY <3>1, <3>5
      <4>2. i < n => m[i + 1] = ln[i + 1]
        BY <2>6, <4>1
      <4> QED  BY <3>1, <3>2, <4>1, <4>2
    <3> QED  BY <3>3, <3>4, <3>5
  <2>11. Emit(Shown(ln, c), s) = Shown(m, c + 2)
    <3>1. 2 \in Nat
      OBVIOUS
    <3> QED  BY <2>7, <2>9, <2>10, <3>1, Repaint
  <2>12. Emit(Shown(ln, cur), Back(2)) = Shown(ln, c)
    <3>1. 2 \in Nat /\ cur - 2 = c
      BY <2>1
    <3>2. Emit(Shown(ln, cur), Back(2)) = Shown(ln, cur - 2)
      BY <1>2, <3>1, GoBack
    <3> QED  BY <3>1, <3>2
  <2>13. <<BS, BS, x, y>> = Back(2) \o s
    <3>1. Back(2) = <<BS, BS>>
      BY DEF Back
    <3>2. PICK q, p : q = <<BS, BS, x, y>> /\ p = <<BS, BS>> \o <<x, y>>
      OBVIOUS
    <3>3. q \in Seq(Out) /\ Len(q) = 4 /\ q[1] = BS /\ q[2] = BS /\ q[3] = x /\ q[4] = y
      BY <2>4, <3>2 DEF Out
    <3>4. p \in Seq(Out) /\ Len(p) = 4 /\ p[1] = BS /\ p[2] = BS /\ p[3] = x /\ p[4] = y
      BY <2>4, <3>2 DEF Out
    <3>5. \A i \in 1 .. 4 : p[i] = q[i]
      BY <3>3, <3>4
    <3>6. q = [i \in 1 .. 4 |-> q[i]] /\ p = [i \in 1 .. 4 |-> p[i]]
      BY <3>3, <3>4
    <3>7. p = q
      BY <3>5, <3>6
    <3> QED  BY <2>8, <3>1, <3>2, <3>7
  <2>14. Back(2) \in Seq(Out) /\ s \in Seq(Out)
    BY <2>9, TextIsOut, BackIsOut
  <2>15. Emit(Shown(ln, cur), <<BS, BS, x, y>>) = Shown(m, cur)
    <3>1. Emit(Shown(ln, cur), Back(2) \o s) = Emit(Emit(Shown(ln, cur), Back(2)), s)
      BY <2>14, EmitConcat
    <3> QED  BY <2>1, <2>11, <2>12, <2>13, <3>1
  <2>16. cur \in 0 .. Len(m)
    BY <1>2, <2>6
  <2>17. GoodEdit(ln, cur, Edit(m, cur, <<BS, BS, x, y>>))
    BY <2>7, <2>15, <2>16, EditIsGood
  <2>18. transpose = Edit([ln EXCEPT ![cur - 1] = ln[cur], ![cur] = ln[cur - 1]], cur,
                          <<BS, BS, ln[cur], ln[cur - 1]>>)
    BY <1>5, Zenon DEF transpose
  <2> QED  BY <2>1, <2>2, <2>3, <2>5, <2>17, <2>18, Zenon
<1> QED  BY <1>4, <1>5

----------------------------------------------------------------------------
(* Completion.                                                             *)

\* The names a token may grow to.
Grown(tok) == {name \in Seq(Chars) : IsPrefix(tok, name)}

IsFound(f, tok, names, n) ==
    f = [i \in 0 .. n |-> IF i = 0 THEN <<>> ELSE AddCand(f[i - 1], tok, names[i])]

\* The recursion of collect has a solution.
LEMMA FoundExists ==
    ASSUME NEW tok, NEW names
    PROVE  \A n \in Nat : \E f : IsFound(f, tok, names, n)
<1> DEFINE S == {n \in Nat : \E f : IsFound(f, tok, names, n)}
<1>1. 0 \in S
  <2> DEFINE f == [i \in 0 .. 0 |-> <<>>]
  <2>1. IsFound(f, tok, names, 0)
    BY DEF IsFound
  <2> QED  BY <2>1
<1>2. ASSUME NEW n \in Nat, n \in S PROVE n + 1 \in S
  <2>1. PICK f : IsFound(f, tok, names, n)
    BY <1>2
  <2> DEFINE g == [i \in 0 .. n + 1 |-> IF i = n + 1 THEN AddCand(f[n], tok, names[n + 1]) ELSE f[i]]
  <2>2. \A i \in 0 .. n + 1 : g[i] = IF i = 0 THEN <<>> ELSE AddCand(g[i - 1], tok, names[i])
    <3> TAKE i \in 0 .. n + 1
    <3>1. CASE i = n + 1
      <4>1. i # 0 /\ i - 1 = n /\ n \in 0 .. n + 1 /\ n # n + 1
        BY <3>1
      <4>2. g[i - 1] = f[n]
        BY <4>1
      <4>3. g[i] = AddCand(f[n], tok, names[n + 1])
        BY <3>1
      <4> QED  BY <3>1, <4>1, <4>2, <4>3
    <3>2. CASE i # n + 1
      <4>1. i \in 0 .. n /\ (i # 0 => i - 1 \in 0 .. n + 1 /\ i - 1 # n + 1)
        BY <3>2
      <4>2. g[i] = f[i] /\ (i # 0 => g[i - 1] = f[i - 1])
        BY <3>2, <4>1
      <4>3. f[i] = IF i = 0 THEN <<>> ELSE AddCand(f[i - 1], tok, names[i])
        BY <2>1, <4>1 DEF IsFound
      <4> QED  BY <4>2, <4>3
    <3> QED  BY <3>1, <3>2
  <2>3. IsFound(g, tok, names, n + 1)
    BY <2>2 DEF IsFound
  <2> QED  BY <2>3
<1>3. \A n \in Nat : n \in S
  <2> HIDE DEF S
  <2> QED  BY <1>1, <1>2, AllNumbers
<1> QED  BY <1>3

\* Every candidate is a name that the token begins.
LEMMA CollectFacts ==
    ASSUME NEW tok, NEW first
    PROVE  collect(tok, first) \in Seq(Grown(tok))
<1>1. PICK names : names = IF first THEN Builtins \o Bin \o Files ELSE Files \o Bin
  OBVIOUS
<1>2. names \in Seq(Seq(Chars))
  <2>1. Builtins \in Seq(Seq(Chars)) /\ Bin \in Seq(Seq(Chars)) /\ Files \in Seq(Seq(Chars))
    BY LineConstants, Zenon
  <2>2. Builtins \o Bin \in Seq(Seq(Chars)) /\ Files \o Bin \in Seq(Seq(Chars))
    BY <2>1, ConcatProperties
  <2>3. PICK g : g = Builtins \o Bin
    OBVIOUS
  <2>4. g \o Files \in Seq(Seq(Chars))
    BY <2>1, <2>2, <2>3, ConcatProperties
  <2>5. Builtins \o Bin \o Files \in Seq(Seq(Chars))
    BY <2>3, <2>4
  <2>6. names = Builtins \o Bin \o Files \/ names = Files \o Bin
    BY <1>1, Zenon
  <2> QED  BY <2>2, <2>5, <2>6, Zenon
<1>3. PICK n \in Nat : n = Len(names)
  BY <1>2
<1>4. PICK f : f = CHOOSE h : IsFound(h, tok, names, n)
  OBVIOUS
<1>5. IsFound(f, tok, names, n)
  BY <1>4, FoundExists
<1>6. collect(tok, first) = f[n]
  BY <1>1, <1>3, <1>4, Zenon DEF collect, IsFound
<1> DEFINE S == {i \in Nat : i <= n => f[i] \in Seq(Grown(tok))}
<1>7. 0 \in S
  <2>1. 0 \in 0 .. n
    OBVIOUS
  <2>2. f[0] = <<>>
    BY <1>5, <2>1 DEF IsFound
  <2>3. \A T : <<>> \in Seq(T)
    OBVIOUS
  <2>4. f[0] \in Seq(Grown(tok))
    BY <2>2, <2>3, Zenon
  <2> QED  BY <2>4
<1>8. ASSUME NEW i \in Nat, i \in S PROVE i + 1 \in S
  <2> SUFFICES ASSUME i + 1 <= n PROVE f[i + 1] \in Seq(Grown(tok))
    OBVIOUS
  <2>1. i + 1 \in 0 .. n /\ i + 1 \in 1 .. n /\ i + 1 # 0 /\ (i + 1) - 1 = i /\ i <= n
    OBVIOUS
  <2>2. f[i + 1] = AddCand(f[i], tok, names[i + 1])
    BY <1>5, <2>1 DEF IsFound
  <2>3. PICK acc : acc = f[i]
    OBVIOUS
  <2>4. PICK name : name = names[i + 1]
    OBVIOUS
  <2>5. acc \in Seq(Grown(tok)) /\ name \in Seq(Chars)
    BY <1>2, <1>3, <1>8, <2>1, <2>3, <2>4
  <2>6. AddCand(acc, tok, name) = acc \/ (IsPrefix(tok, name) /\ AddCand(acc, tok, name) = Append(acc, name))
    BY DEF AddCand
  <2>7. IsPrefix(tok, name) => name \in Grown(tok)
    BY <2>5 DEF Grown
  <2>8. name \in Grown(tok) => Append(acc, name) \in Seq(Grown(tok))
    BY <2>5, AppendProperties
  <2> QED  BY <2>2, <2>3, <2>4, <2>5, <2>6, <2>7, <2>8
<1>9. \A i \in Nat : i \in S
  <2> HIDE DEF S
  <2> QED  BY <1>7, <1>8, AllNumbers
<1>10. f[n] \in Seq(Grown(tok))
  BY <1>9
<1> QED  BY <1>6, <1>10

\* What the candidates have in common is a part of the first.
LEMMA CommonPart ==
    ASSUME NEW cands \in Seq(Seq(Chars)), Len(cands) >= 1
    PROVE  common_prefix_len(cands) \in 0 .. Len(cands[1])
<1>1. PICK n \in Nat : n = Len(cands[1])
  <2>1. cands[1] \in Seq(Chars)
    OBVIOUS
  <2> QED  BY <2>1
<1> DEFINE S == {k \in 0 .. Len(cands[1]) : \A i \in DOMAIN cands :
                     IsPrefix(SubSeq(cands[1], 1, k), cands[i])}
<1>2. S \in SUBSET (0 .. n)
  BY <1>1
<1>3. 0 \in S
  <2>1. ASSUME NEW i \in DOMAIN cands PROVE IsPrefix(SubSeq(cands[1], 1, 0), cands[i])
    <3>1. cands[1] \in Seq(Chars) /\ cands[i] \in Seq(Chars)
      BY <2>1
    <3>2. \A w \in Seq(Chars) : SubSeq(w, 1, 0) = <<>>
      OBVIOUS
    <3>3. SubSeq(<<>>, 1, 0) = <<>> /\ Len(<<>>) = 0
      OBVIOUS
    <3>4. Len(cands[i]) \in Nat /\ 0 <= Len(cands[i])
      BY <3>1
    <3> QED  BY <3>1, <3>2, <3>3, <3>4 DEF IsPrefix
  <2>2. 0 \in 0 .. n
    OBVIOUS
  <2> QED  BY <1>1, <2>1, <2>2
<1>4. common_prefix_len(cands) = LargestIn(S)
  BY Zenon DEF common_prefix_len
<1> HIDE DEF S
<1>5. LargestIn(S) \in S
  BY <1>2, <1>3, LargestFacts
<1> QED  BY <1>1, <1>2, <1>4, <1>5

\* replace_token leaves a line; when the token begins the name, what it writes behind the
\* line shows it.
LEMMA TokenGood ==
    ASSUME NEW l \in Lines, NEW at \in 0 .. Len(l), NEW name \in Seq(Chars)
    PROVE  LET r == replace_token(l, at, name)
           IN  /\ r.ln \in Lines
               /\ IsPrefix(From(l, at), name)
                    => Emit(Shown(l, Len(l)), r.out) = Shown(r.ln, Len(r.ln))
<1>1. PICK n \in Nat : n = Len(l)
  BY LineFacts
<1>2. PICK k \in Nat : k = Len(name)
  OBVIOUS
<1>3. at \in Nat /\ at <= n /\ n - at \in Nat /\ n <= LINE_CAP /\ l \in Seq(Chars)
  BY <1>1, LineFacts
<1>4. PICK r : r = replace_token(l, at, name)
  OBVIOUS
<1>5. CASE at + k > LINE_CAP \/ k < n - at
  <2>1. r = [ln |-> l, out |-> <<>>]
    BY <1>1, <1>2, <1>4, <1>5 DEF replace_token
  <2>2. r.ln = l /\ r.out = <<>>
    BY <2>1
  <2> QED  BY <1>4, <2>2, EmitNone
<1>6. CASE ~(at + k > LINE_CAP \/ k < n - at)
  <2>1. PICK h, x : h = SubSeq(l, 1, at) /\ x = n - at
    OBVIOUS
  <2>2. PICK m, s : m = h \o name /\ s = From(name, x)
    OBVIOUS
  <2>3. r = [ln |-> m, out |-> s]
    BY <1>1, <1>2, <1>4, <1>6, <2>1, <2>2 DEF replace_token
  <2>4. r.ln = m /\ r.out = s
    BY <2>3
  <2>5. x \in Nat /\ x <= k /\ at + k <= LINE_CAP /\ at + x = n
    BY <1>3, <1>6, <2>1, Caps
  <2>6. h \in Seq(Chars) /\ Len(h) = at /\ \A i \in 1 .. at : h[i] = l[i]
    <3>1. 0 + 1 = 1 /\ at - 0 = at /\ at <= Len(l) /\ 0 \in Nat /\ 0 <= at
      BY <1>1, <1>3
    <3>2. /\ SubSeq(l, 0 + 1, at) \in Seq(Chars) /\ Len(SubSeq(l, 0 + 1, at)) = at - 0
          /\ \A i \in 1 .. at - 0 : SubSeq(l, 0 + 1, at)[i] = l[0 + i]
      BY <1>3, <3>1, PartFacts
    <3>3. \A i \in 1 .. at : SubSeq(l, 1, at)[i] = l[0 + i] /\ 0 + i = i
      BY <1>3, <3>1, <3>2
    <3> QED  BY <2>1, <3>1, <3>2, <3>3
  <2>7. /\ m \in Seq(Chars) /\ Len(m) = at + k
        /\ \A i \in 1 .. at + k : m[i] = IF i <= at THEN h[i] ELSE name[i - at]
    BY <1>2, <2>2, <2>6, ConcatProperties
  <2>8. m \in Lines
    BY <2>5, <2>7 DEF Lines
  <2>9. s \in Seq(Chars) /\ Len(s) = k - x /\ \A i \in 1 .. k - x : s[i] = name[x + i]
    <3>1. x \in 0 .. Len(name)
      BY <1>2, <2>5
    <3> QED  BY <1>2, <2>2, <3>1, FromFacts
  <2>10. ASSUME IsPrefix(From(l, at), name)
         PROVE  Emit(Shown(l, Len(l)), s) = Shown(m, Len(m))
    <3>1. PICK tok : tok = From(l, at)
      OBVIOUS
    <3>2. tok \in Seq(Chars) /\ Len(tok) = x /\ \A i \in 1 .. x : tok[i] = l[at + i]
      BY <1>1, <1>3, <2>1, <3>1, FromFacts
    <3>3. SubSeq(tok, 1, x) = SubSeq(name, 1, x)
      BY <2>10, <3>1, <3>2 DEF IsPrefix
    <3>4. \A i \in 1 .. x : tok[i] = name[i]
      <4>1. 0 + 1 = 1 /\ x - 0 = x /\ x <= Len(tok) /\ x <= Len(name) /\ 0 \in Nat /\ 0 <= x
        BY <1>2, <2>5, <3>2
      <4>2. \A i \in 1 .. x - 0 : SubSeq(tok, 0 + 1, x)[i] = tok[0 + i]
        BY <2>5, <3>2, <4>1, PartFacts
      <4>3. \A i \in 1 .. x - 0 : SubSeq(name, 0 + 1, x)[i] = name[0 + i]
        BY <2>5, <4>1, PartFacts
      <4>4. \A i \in 1 .. x : 0 + i = i
        BY <2>5
      <4> QED  BY <3>3, <4>1, <4>2, <4>3, <4>4
    <3>5. \A i \in 1 .. n : m[i] = l[i]
      <4> TAKE i \in 1 .. n
      <4>0. i \in Nat /\ i \in 1 .. at + k
        BY <1>3, <2>5
      <4>1. CASE i <= at
        <5>1. i \in 1 .. at
          BY <4>1
        <5> QED  BY <2>6, <2>7, <4>0, <4>1, <5>1
      <4>2. CASE ~(i <= at)
        <5>1. i - at \in 1 .. x /\ at + (i - at) = i
          BY <1>3, <2>5, <4>2
        <5>2. name[i - at] = l[i]
          BY <3>2, <3>4, <5>1
        <5> QED  BY <2>7, <4>0, <4>2, <5>2
      <4> QED  BY <4>1, <4>2
    <3>6. PICK j \in Nat : j = k - x /\ n + j = at + k
      <4>1. k - x \in Nat /\ n + (k - x) = at + k
        BY <1>3, <2>5
      <4> QED  BY <4>1
    <3>7. ASSUME NEW i \in 0 .. LINE_CAP
          PROVE  (IF n <= i /\ i < n + j THEN s[i - n + 1] ELSE CellsOf(l)[i]) = CellsOf(m)[i]
      <4>1. CellsOf(l)[i] = (IF i < n THEN l[i + 1] ELSE Blank) /\ i \in Nat
        BY <1>1, LineFacts, Caps
      <4>2. CellsOf(m)[i] = IF i < n + j THEN m[i + 1] ELSE Blank
        BY <2>7, <2>8, <3>6, LineFacts
      <4>3. CASE i < n
        <5>1. i + 1 \in 1 .. n /\ i < n + j /\ ~(n <= i)
          BY <4>1, <4>3
        <5> QED  BY <3>5, <4>1, <4>2, <4>3, <5>1
      <4>4. CASE n <= i /\ i < n + j
        <5>1. i - n + 1 \in 1 .. j /\ i + 1 \in 1 .. at + k /\ ~(i + 1 <= at)
          <6>1. i - n + 1 \in 1 .. j
            BY <4>1, <4>4
          <6>2. i + 1 <= n + j /\ i + 1 >= 1 /\ i + 1 > at
            BY <1>3, <4>1, <4>4
          <6>3. i + 1 \in 1 .. n + j /\ ~(i + 1 <= at)
            BY <1>3, <4>1, <6>2
          <6> QED  BY <3>6, <6>1, <6>3
        <5>2. x + (i - n + 1) = (i + 1) - at
          BY <1>3, <2>5, <4>1
        <5>3. s[i - n + 1] = name[(i + 1) - at]
          BY <2>9, <3>6, <5>1, <5>2
        <5>4. m[i + 1] = name[(i + 1) - at]
          BY <2>7, <5>1
        <5> QED  BY <4>2, <4>4, <5>3, <5>4
      <4>5. CASE ~(i < n + j)
        <5>1. ~(i < n)
          BY <4>1, <4>5
        <5> QED  BY <4>1, <4>2, <4>5, <5>1
      <4>6. i < n \/ n <= i
        BY <4>1
      <4> QED  BY <4>3, <4>4, <4>5, <4>6
    <3>8. Emit(Shown(l, n), s) = Shown(m, n + j)
      <4>1. j = Len(s)
        BY <2>9, <3>6
      <4> QED  BY <2>8, <2>9, <3>7, <4>1, Repaint
    <3> QED  BY <1>1, <2>7, <3>6, <3>8
  <2> QED  BY <1>4, <2>4, <2>8, <2>10
<1> QED  BY <1>5, <1>6

----------------------------------------------------------------------------
(* The history ring.                                                       *)

\* The place k entries after another, around the ring's end.
LEMMA HistPos ==
    ASSUME NEW h \in 0 .. HIST_CAP - 1, NEW k \in 0 .. HIST_CAP
    PROVE  /\ (h + k) % HIST_CAP = IF h + k < HIST_CAP THEN h + k ELSE h + k - HIST_CAP
           /\ (h + k) % HIST_CAP \in 0 .. HIST_CAP - 1
<1>1. HIST_CAP \in Nat \ {0}
  BY Caps
<1>2. \A b \in Nat \ {0} : \A a \in 0 .. b - 1 : a % b = a /\ (a + b) % b = a
  OBVIOUS
<1>3. CASE h + k < HIST_CAP
  <2>1. h + k \in 0 .. HIST_CAP - 1
    BY <1>1, <1>3
  <2> QED  BY <1>1, <1>2, <1>3, <2>1
<1>4. CASE ~(h + k < HIST_CAP)
  <2>1. h + k - HIST_CAP \in 0 .. HIST_CAP - 1
    BY <1>1, <1>4
  <2>2. ((h + k - HIST_CAP) + HIST_CAP) % HIST_CAP = h + k - HIST_CAP
    BY <1>1, <1>2, <2>1
  <2>3. (h + k - HIST_CAP) + HIST_CAP = h + k
    BY <1>1
  <2> QED  BY <1>4, <2>1, <2>2, <2>3
<1> QED  BY <1>3, <1>4

Hists == [lines : [0 .. HIST_CAP - 1 -> Lines], start : 0 .. HIST_CAP - 1, count : 0 .. HIST_CAP,
          view : -1 .. HIST_CAP - 1, draft : Lines]

\* The ring h holds the lines p, oldest first.
Kept(h, p) ==
    /\ h \in Hists /\ p \in Seq(Lines)
    /\ h.count = Len(p) /\ h.view < h.count
    /\ \A i \in 1 .. Len(p) : get_at(h, i - 1) = p[i]

\* What a line t behind p leaves of both.
Entered(p, t) ==
    IF t = <<>> \/ (p # <<>> /\ Last(p) = t) THEN p
    ELSE IF Len(p) < HIST_CAP THEN Append(p, t) ELSE Append(Tail(p), t)

LEMMA TrimLine == \A s \in Lines : trim_bytes(s) \in Lines
<1> TAKE s \in Lines
<1>1. PICK n \in Nat : n = Len(s)
  BY LineFacts
<1>2. PICK black : black = {i \in DOMAIN s : s[i] # Blank}
  OBVIOUS
<1>3. trim_bytes(s) = IF black = {} THEN <<>> ELSE SubSeq(s, LeastIn(black), LargestIn(black))
  BY <1>2, Zenon DEF trim_bytes, Blank
<1>4. s \in Seq(Chars) /\ n <= LINE_CAP /\ DOMAIN s = 1 .. n
  BY <1>1, LineFacts
<1>5. black \in SUBSET (1 .. n)
  BY <1>2, <1>4
<1>6. CASE black = {}
  BY <1>3, <1>6, NoLine
<1>7. CASE black # {}
  <2>1. black \in SUBSET Nat /\ black \in SUBSET (0 .. n)
    BY <1>5
  <2>2. PICK a, b : a = LeastIn(black) /\ b = LargestIn(black)
    OBVIOUS
  <2>3. a \in black /\ \A y \in black : a <= y
    BY <1>7, <2>1, <2>2, LeastFacts
  <2>4. b \in black
    BY <1>7, <2>1, <2>2, LargestFacts
  <2>5. a \in 1 .. n /\ b \in 1 .. n /\ a <= b
    BY <1>5, <2>3, <2>4
  <2>6. PICK x \in Nat : a = x + 1
    <3>1. a - 1 \in Nat /\ a = (a - 1) + 1
      BY <2>5
    <3> QED  BY <3>1
  <2>7. b \in Nat /\ x <= b /\ b <= Len(s) /\ b - x <= LINE_CAP
    BY <1>1, <1>4, <2>5, <2>6, Caps
  <2>8. SubSeq(s, x + 1, b) \in Seq(Chars) /\ Len(SubSeq(s, x + 1, b)) = b - x
    BY <1>4, <2>7, PartFacts
  <2>9. SubSeq(s, x + 1, b) \in Lines
    BY <2>7, <2>8 DEF Lines
  <2> QED  BY <1>3, <1>7, <2>2, <2>6, <2>9
<1> QED  BY <1>6, <1>7

LEMMA HistFacts ==
    ASSUME NEW h, NEW p, Kept(h, p)
    PROVE  /\ h \in Hists /\ h.lines \in [0 .. HIST_CAP - 1 -> Lines] /\ h.start \in 0 .. HIST_CAP - 1
           /\ h.count \in 0 .. HIST_CAP /\ h.view \in -1 .. HIST_CAP - 1 /\ h.draft \in Lines
           /\ p \in Seq(Lines) /\ h.count = Len(p) /\ h.view < h.count
           /\ \A i \in 1 .. Len(p) : get_at(h, i - 1) = p[i]
BY DEF Kept, Hists

\* The entries are lines, and the newest is the last one entered.
LEMMA EntryFacts ==
    ASSUME NEW h, NEW p, Kept(h, p)
    PROVE  /\ \A i \in 0 .. HIST_CAP : get_at(h, i) \in Lines
           /\ \A age \in 0 .. h.count - 1 : Newest(h, age) \in Lines
           /\ h.count > 0 => Newest(h, 0) = Last(p)
<1>1. /\ h.lines \in [0 .. HIST_CAP - 1 -> Lines] /\ h.start \in 0 .. HIST_CAP - 1
      /\ h.count \in 0 .. HIST_CAP /\ HIST_CAP \in Nat \ {0}
  BY HistFacts, Caps
<1>2. \A i \in 0 .. HIST_CAP : get_at(h, i) \in Lines
  BY <1>1, HistPos DEF get_at
<1>3. ASSUME NEW age \in 0 .. h.count - 1 PROVE Newest(h, age) \in Lines
  <2>1. PICK k \in 0 .. HIST_CAP : k = h.count - 1 - age
    BY <1>1
  <2>2. (h.start + k) % HIST_CAP \in 0 .. HIST_CAP - 1
    BY <1>1, HistPos
  <2> QED  BY <1>1, <2>1, <2>2 DEF Newest
<1>4. ASSUME h.count > 0 PROVE Newest(h, 0) = Last(p)
  <2>1. h.count - 1 - 0 = h.count - 1 /\ h.count \in 1 .. Len(p)
    BY <1>1, <1>4, HistFacts
  <2>2. Newest(h, 0) = get_at(h, h.count - 1)
    BY <2>1 DEF Newest, get_at
  <2>3. get_at(h, h.count - 1) = p[h.count]
    BY <2>1, HistFacts
  <2> QED  BY <2>2, <2>3, HistFacts DEF Last
<1> QED  BY <1>2, <1>3, <1>4

\* The line goes behind the others, or takes the oldest's place.
Behind(h, t) ==
    [h EXCEPT !.view = NoAge, !.lines[(h.start + h.count) % HIST_CAP] = t, !.count = @ + 1]
Instead(h, t) ==
    [h EXCEPT !.view = NoAge, !.lines[h.start] = t, !.start = (@ + 1) % HIST_CAP]

\* Room: the line goes behind the others.
LEMMA PushRoom ==
    ASSUME NEW h, NEW p, Kept(h, p), NEW t \in Lines, Len(p) < HIST_CAP,
           NEW g, g = Behind(h, t)
    PROVE  Kept(g, Append(p, t))
<1>1. /\ h.lines \in [0 .. HIST_CAP - 1 -> Lines] /\ h.start \in 0 .. HIST_CAP - 1 /\ h \in Hists
      /\ h.count \in 0 .. HIST_CAP /\ HIST_CAP \in Nat \ {0} /\ h.count = Len(p) /\ p \in Seq(Lines)
      /\ h.draft \in Lines
  BY HistFacts, Caps
<1>2. PICK s \in 0 .. HIST_CAP - 1, c \in Nat : s = h.start /\ c = h.count
  BY <1>1
<1>3. c < HIST_CAP /\ c \in 0 .. HIST_CAP
  BY <1>1, <1>2
<1>4. PICK w : w = (s + c) % HIST_CAP
  OBVIOUS
<1>5. w = (IF s + c < HIST_CAP THEN s + c ELSE s + c - HIST_CAP) /\ w \in 0 .. HIST_CAP - 1
  BY <1>3, <1>4, HistPos
<1>6. /\ g.start = s /\ g.count = c + 1 /\ g.view = -1 /\ g.draft = h.draft
      /\ g.lines = [h.lines EXCEPT ![w] = t] /\ g \in Hists
  <2>1. PICK L : L = [h.lines EXCEPT ![w] = t]
    OBVIOUS
  <2>2. L \in [0 .. HIST_CAP - 1 -> Lines]
    BY <1>1, <1>5, <2>1
  <2>3. g = [h EXCEPT !.view = -1, !.lines = L, !.count = c + 1]
    BY <1>1, <1>2, <1>4, <2>1 DEF NoAge, Hists, Behind
  <2>4. c + 1 \in 0 .. HIST_CAP /\ -1 \in -1 .. HIST_CAP - 1
    BY <1>1, <1>3
  <2> QED  BY <1>1, <1>2, <2>1, <2>2, <2>3, <2>4 DEF Hists
<1>7. PICK q : q = Append(p, t)
  OBVIOUS
<1>8. /\ q \in Seq(Lines) /\ Len(q) = c + 1 /\ q[c + 1] = t
      /\ \A i \in 1 .. c : q[i] = p[i]
  BY <1>1, <1>2, <1>7, AppendProperties
<1>9. ASSUME NEW i \in 1 .. c + 1 PROVE get_at(g, i - 1) = q[i]
  <2>1. PICK k \in 0 .. HIST_CAP : k = i - 1
    <3>1. i - 1 \in 0 .. HIST_CAP
      BY <1>1, <1>3
    <3> QED  BY <3>1
  <2>2. PICK y : y = (s + k) % HIST_CAP
    OBVIOUS
  <2>3. y = (IF s + k < HIST_CAP THEN s + k ELSE s + k - HIST_CAP) /\ y \in 0 .. HIST_CAP - 1
    BY <2>2, HistPos
  <2>4. get_at(g, i - 1) = g.lines[y]
    BY <1>6, <2>1, <2>2 DEF get_at
  <2>5. CASE i = c + 1
    <3>1. k = c
      BY <2>1, <2>5
    <3>2. g.lines[y] = t
      BY <1>1, <1>4, <1>5, <1>6, <2>2, <3>1
    <3> QED  BY <1>8, <2>4, <2>5, <3>2
  <2>6. CASE i # c + 1
    <3>1. i \in 1 .. c /\ k < c
      BY <1>2, <2>1, <2>6
    <3>2. y # w
      BY <1>1, <1>3, <1>5, <2>3, <3>1
    <3>3. g.lines[y] = h.lines[y]
      <4>1. y \in 0 .. HIST_CAP - 1 /\ g.lines = [h.lines EXCEPT ![w] = t]
        BY <1>6, <2>3
      <4> QED  BY <1>1, <3>2, <4>1
    <3>4. get_at(h, i - 1) = h.lines[y]
      BY <1>2, <2>1, <2>2 DEF get_at
    <3>5. get_at(h, i - 1) = p[i]
      BY <1>1, <1>2, <3>1, HistFacts
    <3> QED  BY <1>8, <2>4, <3>1, <3>3, <3>4, <3>5
  <2> QED  BY <2>5, <2>6
<1>10. g.view < g.count
  BY <1>6
<1> QED  BY <1>6, <1>7, <1>8, <1>9, <1>10 DEF Kept

\* A full ring: the line takes the oldest's place.
LEMMA PushFull ==
    ASSUME NEW h, NEW p, Kept(h, p), NEW t \in Lines, ~(Len(p) < HIST_CAP),
           NEW g, g = Instead(h, t)
    PROVE  Kept(g, Append(Tail(p), t))
<1>1. /\ h.lines \in [0 .. HIST_CAP - 1 -> Lines] /\ h.start \in 0 .. HIST_CAP - 1 /\ h \in Hists
      /\ h.count \in 0 .. HIST_CAP /\ HIST_CAP \in Nat \ {0} /\ h.count = Len(p) /\ p \in Seq(Lines)
      /\ h.draft \in Lines
  BY HistFacts, Caps
<1>2. PICK s \in 0 .. HIST_CAP - 1 : s = h.start
  BY <1>1
<1>3. PICK c \in Nat \ {0} : c = HIST_CAP
  BY <1>1
<1>4. h.count = c /\ Len(p) = c /\ 1 \in 0 .. HIST_CAP
  BY <1>1, <1>3
<1>5. PICK z : z = (s + 1) % HIST_CAP
  OBVIOUS
<1>6. z = (IF s + 1 < c THEN s + 1 ELSE s + 1 - c) /\ z \in 0 .. HIST_CAP - 1
  BY <1>3, <1>4, <1>5, HistPos
<1>7. /\ g.start = z /\ g.count = c /\ g.view = -1 /\ g.draft = h.draft
      /\ g.lines = [h.lines EXCEPT ![s] = t] /\ g \in Hists
  <2>1. PICK L : L = [h.lines EXCEPT ![s] = t]
    OBVIOUS
  <2>2. L \in [0 .. HIST_CAP - 1 -> Lines]
    BY <1>1, <1>2, <2>1
  <2>3. g = [h EXCEPT !.view = -1, !.lines = L, !.start = z]
    BY <1>1, <1>2, <1>5, <2>1 DEF NoAge, Hists, Instead
  <2>4. -1 \in -1 .. HIST_CAP - 1
    BY <1>1
  <2> QED  BY <1>1, <1>4, <1>6, <2>1, <2>2, <2>3, <2>4 DEF Hists
<1>8. PICK r : r = Tail(p)
  OBVIOUS
<1>9. r \in Seq(Lines) /\ Len(r) = c - 1 /\ \A i \in 1 .. c - 1 : r[i] = p[i + 1]
  <2>1. p # <<>>
    BY <1>3, <1>4
  <2> QED  BY <1>1, <1>3, <1>4, <1>8, <2>1
<1>10. PICK q : q = Append(r, t)
  OBVIOUS
<1>11. q \in Seq(Lines) /\ Len(q) = c /\ q[c] = t /\ \A i \in 1 .. c - 1 : q[i] = p[i + 1]
  <2>1. Len(r) + 1 = c
    BY <1>3, <1>9
  <2>2. /\ q \in Seq(Lines) /\ Len(q) = Len(r) + 1 /\ q[Len(r) + 1] = t
        /\ \A i \in 1 .. Len(r) : q[i] = r[i]
    BY <1>9, <1>10, AppendProperties
  <2> QED  BY <1>9, <2>1, <2>2
<1>12. ASSUME NEW i \in 1 .. c PROVE get_at(g, i - 1) = q[i]
  <2>1. PICK k \in 0 .. HIST_CAP : k = i - 1
    <3>1. i - 1 \in 0 .. HIST_CAP
      BY <1>1, <1>3
    <3> QED  BY <3>1
  <2>2. PICK y : y = (z + k) % HIST_CAP
    OBVIOUS
  <2>3. y = (IF z + k < c THEN z + k ELSE z + k - c) /\ y \in 0 .. HIST_CAP - 1
    BY <1>3, <1>6, <2>2, HistPos
  <2>4. get_at(g, i - 1) = g.lines[y]
    BY <1>7, <2>1, <2>2 DEF get_at
  <2>5. CASE i = c
    <3>1. y = s
      <4>1. s \in Nat /\ s < c /\ k = c - 1
        BY <1>3, <2>1, <2>5
      <4>2. z = (IF s + 1 < c THEN s + 1 ELSE s + 1 - c) /\ y = IF z + k < c THEN z + k ELSE z + k - c
        BY <1>6, <2>3
      <4>3. CASE s + 1 < c
        BY <4>1, <4>2, <4>3
      <4>4. CASE ~(s + 1 < c)
        <5>1. z = 0
          BY <4>1, <4>2, <4>4
        <5> QED  BY <4>1, <4>2, <4>4, <5>1
      <4> QED  BY <4>3, <4>4
    <3> QED  BY <1>1, <1>2, <1>7, <1>11, <2>4, <2>5, <3>1
  <2>6. CASE i # c
    <3>1. i \in 1 .. c - 1 /\ i + 1 \in 1 .. Len(p) /\ i \in 0 .. HIST_CAP /\ (i + 1) - 1 = i
      BY <1>3, <1>4, <2>6
    <3>2. (s + i) % HIST_CAP = IF s + i < c THEN s + i ELSE s + i - c
      BY <1>3, <3>1, HistPos
    <3>3. y = (s + i) % HIST_CAP /\ y # s
      <4>1. s \in Nat /\ s < c /\ k = i - 1 /\ i \in Nat /\ 0 < i /\ i < c
        BY <1>3, <2>1, <3>1
      <4>2. z = (IF s + 1 < c THEN s + 1 ELSE s + 1 - c) /\ y = IF z + k < c THEN z + k ELSE z + k - c
        BY <1>6, <2>3
      <4>3. CASE s + 1 < c
        <5>1. z + k = s + i
          BY <4>1, <4>2, <4>3
        <5>2. y = IF s + i < c THEN s + i ELSE s + i - c
          BY <4>2, <5>1
        <5>3. y # s
          BY <4>1, <5>2
        <5> QED  BY <3>2, <5>2, <5>3
      <4>4. CASE ~(s + 1 < c)
        <5>1. z = 0 /\ z + k = s + i - c /\ z + k < c /\ ~(s + i < c)
          BY <4>1, <4>2, <4>4
        <5> QED  BY <3>2, <4>1, <4>2, <5>1
      <4> QED  BY <4>3, <4>4
    <3>4. g.lines[y] = h.lines[y]
      BY <1>1, <1>2, <1>7, <2>3, <3>3
    <3>5. get_at(h, (i + 1) - 1) = p[i + 1]
      BY <3>1, HistFacts
    <3>6. get_at(h, i) = h.lines[y]
      BY <1>2, <3>3 DEF get_at
    <3> QED  BY <1>11, <2>4, <3>1, <3>4, <3>5, <3>6
  <2> QED  BY <2>5, <2>6
<1>13. g.view < g.count
  BY <1>3, <1>7
<1> QED  BY <1>7, <1>8, <1>10, <1>11, <1>12, <1>13 DEF Kept

\* The place the arrow keys reached is forgotten.
LEMMA ForgetKept ==
    ASSUME NEW h, NEW p, Kept(h, p), NEW g, g = [h EXCEPT !.view = NoAge]
    PROVE  Kept(g, p) /\ g.count = h.count
<1>1. /\ h \in Hists /\ h.count \in 0 .. HIST_CAP /\ HIST_CAP \in Nat \ {0}
      /\ h.count = Len(p) /\ p \in Seq(Lines)
  BY HistFacts, Caps
<1>2. -1 \in -1 .. HIST_CAP - 1
  BY <1>1
<1>3. g \in Hists /\ g.count = h.count /\ g.start = h.start /\ g.lines = h.lines /\ g.view = -1
  BY <1>1, <1>2 DEF NoAge, Hists
<1>4. \A i : get_at(g, i) = get_at(h, i)
  BY <1>3 DEF get_at
<1>5. \A i \in 1 .. Len(p) : get_at(g, i - 1) = p[i]
  BY <1>4, HistFacts
<1>6. g.view < g.count
  BY <1>1, <1>3
<1> QED  BY <1>1, <1>3, <1>5, <1>6 DEF Kept

\* push and the line it records.
LEMMA PushKept ==
    ASSUME NEW h, NEW p, Kept(h, p), NEW s \in Lines
    PROVE  Kept(push(h, s), Entered(p, trim_bytes(s)))
<1>1. PICK t \in Lines : t = trim_bytes(s)
  BY TrimLine
<1>2. h.count = Len(p) /\ p \in Seq(Lines) /\ h \in Hists
  BY HistFacts
<1>3. (h.count > 0 /\ Newest(h, 0) = t) <=> (p # <<>> /\ Last(p) = t)
  <2>1. h.count > 0 <=> p # <<>>
    BY <1>2
  <2> QED  BY <2>1, EntryFacts
<1>4. CASE t = <<>> \/ (h.count > 0 /\ Newest(h, 0) = t)
  <2>1. push(h, s) = [h EXCEPT !.view = NoAge]
    BY <1>1, <1>4, Zenon DEF push
  <2>2. Entered(p, trim_bytes(s)) = p
    BY <1>1, <1>3, <1>4, Zenon DEF Entered
  <2> QED  BY <2>1, <2>2, ForgetKept
<1>5. CASE ~(t = <<>> \/ (h.count > 0 /\ Newest(h, 0) = t))
  <2>0. PICK g : g = [h EXCEPT !.view = NoAge]
    OBVIOUS
  <2>1. Entered(p, trim_bytes(s)) = IF Len(p) < HIST_CAP THEN Append(p, t) ELSE Append(Tail(p), t)
    BY <1>1, <1>3, <1>5, Zenon DEF Entered
  <2>2. CASE Len(p) < HIST_CAP
    <3>1. push(h, s) = [g EXCEPT !.lines[(h.start + h.count) % HIST_CAP] = t, !.count = @ + 1]
      BY <1>1, <1>2, <1>5, <2>0, <2>2, Zenon DEF push
    <3>2. [g EXCEPT !.lines[(h.start + h.count) % HIST_CAP] = t, !.count = @ + 1]
            = Behind(h, t)
      BY <1>2, <2>0 DEF Hists, Behind
    <3>3. PICK f : f = push(h, s)
      OBVIOUS
    <3>4. f = Behind(h, t)
      BY <3>1, <3>2, <3>3, Zenon
    <3>5. Kept(f, Append(p, t))
      BY <2>2, <3>4, PushRoom
    <3> QED  BY <2>1, <2>2, <3>3, <3>5
  <2>3. CASE ~(Len(p) < HIST_CAP)
    <3>1. push(h, s) = [g EXCEPT !.lines[h.start] = t, !.start = (@ + 1) % HIST_CAP]
      BY <1>1, <1>2, <1>5, <2>0, <2>3, Zenon DEF push
    <3>2. [g EXCEPT !.lines[h.start] = t, !.start = (@ + 1) % HIST_CAP]
            = Instead(h, t)
      BY <1>2, <2>0 DEF Hists, Instead
    <3>3. PICK f : f = push(h, s)
      OBVIOUS
    <3>4. f = Instead(h, t)
      BY <3>1, <3>2, <3>3, Zenon
    <3>5. Kept(f, Append(Tail(p), t))
      BY <2>3, <3>4, PushFull
    <3> QED  BY <2>1, <2>3, <3>3, <3>5
  <2> QED  BY <2>2, <2>3
<1> QED  BY <1>4, <1>5

----------------------------------------------------------------------------
(* The invariant: the row shows the line even while a search is on, behind *)
(* the search's own prompt; a search that is not on has no match.          *)

ScreenInv ==
    /\ ln \in Lines /\ cur \in 0 .. Len(ln)
    /\ ~garbled => term = Shown(ln, cur)

Searches == [query : Seq(Chars), idx : -1 .. HIST_CAP - 1, on : BOOLEAN]

HistInv ==
    /\ Kept(hist, pushed)
    /\ search \in Searches /\ search.idx < hist.count
    /\ ~search.on => search.idx = -1

LineInv == ScreenInv /\ HistInv

\* What the bytes of an edit do.
LEMMA ShowStep ==
    ASSUME ScreenInv, NEW e, GoodEdit(ln, cur, e), Show(e)
    PROVE  ScreenInv'
<1>1. e.ln \in Lines /\ e.cur \in 0 .. Len(e.ln) /\ Emit(Shown(ln, cur), e.out) = Shown(e.ln, e.cur)
  BY DEF GoodEdit
<1>2. ln' = e.ln /\ cur' = e.cur /\ garbled' = garbled
  BY DEF Show
<1>3. ~garbled => term' = Emit(term, e.out)
  BY DEF Show
<1>4. ~garbled => term = Shown(ln, cur)
  BY DEF ScreenInv
<1>5. ~garbled' => term' = Shown(ln', cur')
  BY <1>1, <1>2, <1>3, <1>4
<1> QED  BY <1>1, <1>2, <1>5 DEF ScreenInv

LEMMA RedrawStep ==
    ASSUME NEW m \in Lines, NEW d \in 0 .. Len(m), redraw(m, d)
    PROVE  ScreenInv'
<1>1. ln' = m /\ cur' = d /\ term' = Shown(m, d)
  BY RedrawGood DEF redraw
<1> QED  BY <1>1 DEF ScreenInv

LEMMA NextLineStep ==
    ASSUME NextLine
    PROVE  ScreenInv'
<1>1. ln' = <<>> /\ cur' = 0 /\ term' = FreshRow
  BY DEF NextLine
<1>2. 0 \in 0 .. Len(<<>>)
  BY NoLine
<1> QED  BY <1>1, <1>2, NoLine DEF ScreenInv

\* A step that leaves the history alone, or only forgets the place in it.
LEMMA SameHist ==
    ASSUME HistInv, hist' = hist \/ hist' = Forget(hist), UNCHANGED <<search, pushed>>
    PROVE  HistInv'
<1>1. Kept(hist', pushed) /\ hist'.count = hist.count
  <2>1. CASE hist' = hist
    BY <2>1 DEF HistInv
  <2>2. CASE hist' = Forget(hist)
    BY <2>2, ForgetKept DEF HistInv, Forget
  <2> QED  BY <2>1, <2>2
<1> QED  BY <1>1 DEF HistInv

LEMMA FancyKeyStep ==
    ASSUME LineInv, FancyKey
    PROVE  LineInv'
<1>1. HistInv'
  BY SameHist DEF LineInv, FancyKey
<1>2. ln \in Lines /\ cur \in 0 .. Len(ln) /\ ScreenInv
  BY DEF LineInv, ScreenInv
<1>3. ASSUME NEW e \in {go_home, go_to_end, kill_to_end, kill_to_start, kill_word, transpose}, Show(e)
      PROVE  ScreenInv'
  <2>1. GoodEdit(ln, cur, e)
    BY <1>2, MovesGood, KillsGood, TransposeGood
  <2> QED  BY <1>2, <1>3, <2>1, ShowStep
<1>4. ASSUME Show(forward_delete) PROVE ScreenInv'
  <2>1. PICK e : e = forward_delete
    OBVIOUS
  <2>2. GoodEdit(ln, cur, e) /\ Show(e)
    BY <1>2, <1>4, <2>1, DeletesGood
  <2> QED  BY <1>2, <2>2, ShowStep
<1>5. ASSUME redraw(ln, cur) PROVE ScreenInv'
  BY <1>2, <1>5, RedrawStep
<1>6. ASSUME NEW clip \in Clips, NEW k, k = LeastIn({Len(clip), LINE_CAP - Len(ln)}), k > 0,
             redraw(SubSeq(ln, 1, cur) \o SubSeq(clip, 1, k) \o From(ln, cur), cur + k)
      PROVE  ScreenInv'
  <2>1. clip \in Seq(Chars)
    BY LineConstants, Zenon
  <2>2. PICK m : m = SubSeq(ln, 1, cur) \o SubSeq(clip, 1, k) \o From(ln, cur)
    OBVIOUS
  <2>3. m \in Lines /\ cur + k \in 0 .. Len(m)
    BY <1>2, <1>6, <2>1, <2>2, PasteLine
  <2>4. redraw(m, cur + k)
    BY <1>6, <2>2
  <2> QED  BY <2>3, <2>4, RedrawStep
<1>7. ScreenInv'
  BY <1>3, <1>4, <1>5, <1>6 DEF FancyKey
<1> QED  BY <1>1, <1>7 DEF LineInv

LEMMA TypeStep ==
    ASSUME LineInv, NEW b \in Chars, Type(b)
    PROVE  LineInv'
<1>1. HistInv'
  BY SameHist DEF LineInv, Type
<1>2. ln \in Lines /\ cur \in 0 .. Len(ln) /\ ScreenInv
  BY DEF LineInv, ScreenInv
<1>3. PICK e : e = insert(b)
  OBVIOUS
<1>4. GoodEdit(ln, cur, e) /\ Show(e)
  BY <1>2, <1>3, InsertEdit DEF Type
<1> QED  BY <1>1, <1>2, <1>4, ShowStep DEF LineInv

LEMMA BackspaceStep ==
    ASSUME LineInv, Backspace
    PROVE  LineInv'
<1>1. HistInv'
  BY SameHist DEF LineInv, Backspace
<1>2. ln \in Lines /\ cur \in 0 .. Len(ln) /\ ScreenInv
  BY DEF LineInv, ScreenInv
<1>3. PICK e : e = backspace
  OBVIOUS
<1>4. GoodEdit(ln, cur, e) /\ Show(e)
  BY <1>2, <1>3, DeletesGood DEF Backspace
<1> QED  BY <1>1, <1>2, <1>4, ShowStep DEF LineInv

LEMMA CtrlCStep ==
    ASSUME LineInv, CtrlCKey
    PROVE  LineInv'
<1>1. HistInv'
  BY SameHist DEF LineInv, CtrlCKey
<1>2. ln \in Lines /\ cur \in 0 .. Len(ln) /\ ScreenInv
  BY DEF LineInv, ScreenInv
<1>3. PICK e : e = Edit(<<>>, 0, From(ln, cur) \o erase_n(Len(ln)))
  OBVIOUS
<1>4. NextLine \/ Show(e)
  BY <1>3 DEF CtrlCKey
<1>5. GoodEdit(ln, cur, e)
  BY <1>2, <1>3, ReplacesGood
<1> QED  BY <1>1, <1>2, <1>4, <1>5, ShowStep, NextLineStep DEF LineInv

\* A cleared or new history.
LEMMA NoHistory ==
    ASSUME NEW h, h \in Hists, h.count = 0, h.view = -1
    PROVE  Kept(h, <<>>)
<1>1. <<>> \in Seq(Lines) /\ Len(<<>>) = 0 /\ \A i \in 1 .. 0 : get_at(h, i - 1) = <<>>[i]
  OBVIOUS
<1>2. h.view < h.count
  OBVIOUS
<1> QED  BY <1>1, <1>2 DEF Kept

LEMMA NewHistory ==
    ASSUME NEW h, h = [lines |-> [i \in 0 .. HIST_CAP - 1 |-> <<>>], start |-> 0, count |-> 0,
                       view |-> NoAge, draft |-> <<>>]
    PROVE  Kept(h, <<>>)
<1>1. 0 \in 0 .. HIST_CAP - 1 /\ 0 \in 0 .. HIST_CAP /\ -1 \in -1 .. HIST_CAP - 1
  BY Caps
<1>2. [i \in 0 .. HIST_CAP - 1 |-> <<>>] \in [0 .. HIST_CAP - 1 -> Lines]
  BY NoLine
<1>3. h \in Hists /\ h.count = 0 /\ h.view = -1
  BY <1>1, <1>2, NoLine DEF Hists, NoAge
<1> QED  BY <1>3, NoHistory

LEMMA ClearKept ==
    ASSUME NEW h, NEW p, Kept(h, p)
    PROVE  Kept(clear(h), <<>>)
<1>1. h \in Hists
  BY HistFacts
<1>2. 0 \in 0 .. HIST_CAP - 1 /\ 0 \in 0 .. HIST_CAP /\ -1 \in -1 .. HIST_CAP - 1
  BY Caps
<1>3. PICK g : g = clear(h)
  OBVIOUS
<1>4. g \in Hists /\ g.count = 0 /\ g.view = -1
  BY <1>1, <1>2, <1>3, NoLine DEF Hists, NoAge, clear
<1> QED  BY <1>3, <1>4, NoHistory

LEMMA EnterStep ==
    ASSUME LineInv, NEW cleared \in BOOLEAN, NEW writes \in BOOLEAN, Enter(cleared, writes)
    PROVE  LineInv'
<1>1. ScreenInv'
  BY NextLineStep DEF Enter
<1>2. ln \in Lines /\ Kept(hist, pushed)
  BY DEF LineInv, ScreenInv, HistInv
<1>3. PICK h : h = IF fancy THEN push(hist, ln) ELSE hist
  OBVIOUS
<1>4. PICK p : p = IF ~fancy \/ trim_bytes(ln) = <<>> \/ (pushed # <<>> /\ Last(pushed) = trim_bytes(ln)) THEN pushed
                   ELSE IF Len(pushed) < HIST_CAP THEN Append(pushed, trim_bytes(ln))
                        ELSE Append(Tail(pushed), trim_bytes(ln))
  OBVIOUS
<1>5. hist' = (IF cleared THEN clear(h) ELSE h) /\ pushed' = IF cleared THEN <<>> ELSE p
  BY <1>3, <1>4, Zenon DEF Enter
<1>6. Kept(h, p)
  <2>1. CASE fancy
    <3>1. h = push(hist, ln) /\ p = Entered(pushed, trim_bytes(ln))
      BY <1>3, <1>4, <2>1, Zenon DEF Entered
    <3> QED  BY <1>2, <3>1, PushKept
  <2>2. CASE ~fancy
    <3>1. h = hist /\ p = pushed
      BY <1>3, <1>4, <2>2, Zenon
    <3> QED  BY <1>2, <3>1
  <2> QED  BY <2>1, <2>2
<1>7. Kept(hist', pushed')
  <2>1. CASE cleared
    <3>1. hist' = clear(h) /\ pushed' = <<>>
      BY <1>5, <2>1, Zenon
    <3> QED  BY <1>6, <3>1, ClearKept
  <2>2. CASE ~cleared
    <3>1. hist' = h /\ pushed' = p
      BY <1>5, <2>2, Zenon
    <3> QED  BY <1>6, <3>1
  <2> QED  BY <2>1, <2>2
<1>8. search' = search /\ search \in Searches /\ search.idx = -1
  BY DEF Enter, Plain, LineInv, HistInv
<1>9. search.idx < hist'.count
  <2>1. hist'.count \in 0 .. HIST_CAP
    BY <1>7, HistFacts
  <2> QED  BY <1>8, <2>1, Caps
<1>10. HistInv'
  BY <1>7, <1>8, <1>9 DEF HistInv
<1> QED  BY <1>1, <1>10 DEF LineInv

LEMMA EofStep ==
    ASSUME LineInv, Eof
    PROVE  LineInv'
<1>1. ScreenInv'
  BY NextLineStep DEF Eof
<1>2. PICK h : h = hist'
  OBVIOUS
<1>3. h = [lines |-> [i \in 0 .. HIST_CAP - 1 |-> <<>>], start |-> 0, count |-> 0,
           view |-> NoAge, draft |-> <<>>]
  BY <1>2 DEF Eof
<1>4. Kept(h, <<>>)
  BY <1>3, NewHistory
<1>5. h.count = 0
  BY <1>3
<1>6. search' = search /\ search \in Searches /\ search.idx = -1 /\ pushed' = <<>>
  BY DEF Eof, LineInv, HistInv
<1>7. HistInv'
  BY <1>2, <1>4, <1>5, <1>6 DEF HistInv
<1> QED  BY <1>1, <1>7 DEF LineInv

LEMMA TabStep ==
    ASSUME LineInv, Tab
    PROVE  LineInv'
<1>1. HistInv'
  <2>1. hist' = Forget(hist) /\ UNCHANGED <<search, pushed>>
    BY Zenon DEF Tab
  <2> QED  BY <2>1, SameHist DEF LineInv
<1>2. ln \in Lines /\ cur \in 0 .. Len(ln) /\ ScreenInv
  BY DEF LineInv, ScreenInv
<1>3. PICK n \in Nat : n = Len(ln)
  BY <1>2, LineFacts
<1> DEFINE at == LargestIn({k \in 0 .. Len(ln) : k = 0 \/ ln[k] = " "})
           tok == From(ln, at)
           cands == IF tok = <<>> THEN <<>> ELSE collect(tok, at = 0)
           same == [ln |-> ln, out |-> <<>>]
           lcp == common_prefix_len(cands)
           r == CASE Len(cands) = 0 -> same
                  [] Len(cands) = 1 -> replace_token(ln, at, cands[1])
                  [] OTHER -> IF lcp > Len(tok) THEN replace_token(ln, at, SubSeq(cands[1], 1, lcp))
                              ELSE same
<1>4. IF Len(cands) > 1 THEN redraw(r.ln, Len(r.ln))
       ELSE /\ ln' = r.ln /\ cur' = Len(r.ln)
            /\ garbled' = (garbled \/ cur < Len(ln))
            /\ term' = IF garbled' THEN FreshRow ELSE Emit(term, r.out)
  BY Zenon DEF Tab
<1>5. at = LargestIn({k \in 0 .. Len(ln) : k = 0 \/ ln[k] = Blank})
  BY Zenon DEF Blank
<1> HIDE DEF r
<1>6. r = CASE Len(cands) = 0 -> same
             [] Len(cands) = 1 -> replace_token(ln, at, cands[1])
             [] OTHER -> IF lcp > Len(tok) THEN replace_token(ln, at, SubSeq(cands[1], 1, lcp))
                         ELSE same
  BY Zenon DEF r
<1>7. lcp = common_prefix_len(cands)
  BY Zenon
<1> HIDE DEF lcp
<1>8. same = [ln |-> ln, out |-> <<>>]
  BY Zenon
<1> HIDE DEF same
<1>9. cands = IF tok = <<>> THEN <<>> ELSE collect(tok, at = 0)
  BY Zenon
<1> HIDE DEF cands
<1>10. tok = From(ln, at)
  BY Zenon
<1> HIDE DEF tok, at
<1>11. at \in 0 .. Len(ln)
  <2> DEFINE S == {k \in 0 .. n : k = 0 \/ ln[k] = Blank}
  <2>1. S \in SUBSET (0 .. n) /\ 0 \in S
    OBVIOUS
  <2>2. at = LargestIn(S)
    BY <1>3, <1>5
  <2> HIDE DEF S
  <2>3. LargestIn(S) \in S
    BY <2>1, LargestFacts
  <2> QED  BY <1>3, <2>1, <2>2, <2>3
<1>12. cands \in Seq(Grown(tok)) /\ cands \in Seq(Seq(Chars))
  <2>1. \A T : <<>> \in Seq(T)
    OBVIOUS
  <2>2. collect(tok, at = 0) \in Seq(Grown(tok))
    BY CollectFacts
  <2>3. cands = <<>> \/ cands = collect(tok, at = 0)
    BY <1>9, Zenon
  <2>4. cands \in Seq(Grown(tok))
    BY <2>1, <2>2, <2>3, Zenon
  <2>5. Grown(tok) \subseteq Seq(Chars)
    BY DEF Grown
  <2> QED  BY <2>4, <2>5
<1>13. Len(cands) \in Nat
  BY <1>12
<1>14. same.ln = ln /\ same.out = <<>>
  BY <1>8
<1>15. CASE Len(cands) > 1
  <2>1. Len(cands) # 0 /\ Len(cands) # 1 /\ Len(cands) >= 1
    <3>1. PICK k \in Nat : k = Len(cands)
      BY <1>13
    <3>2. k > 1
      BY <1>15, <3>1
    <3>3. k # 0 /\ k # 1 /\ k >= 1
      BY <3>2
    <3> QED  BY <3>1, <3>3
  <2>2. r = same \/ r = replace_token(ln, at, SubSeq(cands[1], 1, lcp))
    BY <1>6, <2>1
  <2>3. lcp \in 0 .. Len(cands[1])
    BY <1>12, <1>7, <2>1, CommonPart
  <2>4. PICK w : w = cands[1]
    OBVIOUS
  <2>5. w \in Seq(Chars)
    BY <1>12, <2>1, <2>4
  <2>6. SubSeq(w, 1, lcp) \in Seq(Chars)
    <3>1. lcp \in Nat /\ lcp <= Len(w) /\ 0 \in Nat /\ 0 <= lcp /\ 0 + 1 = 1
      BY <2>3, <2>4, <2>5
    <3>2. SubSeq(w, 0 + 1, lcp) \in Seq(Chars)
      BY <2>5, <3>1, PartFacts
    <3> QED  BY <3>1, <3>2
  <2>7. r.ln \in Lines
    <3>1. CASE r = same
      BY <1>2, <1>14, <3>1
    <3>2. CASE r = replace_token(ln, at, SubSeq(cands[1], 1, lcp))
      BY <1>2, <1>11, <2>4, <2>6, <3>2, TokenGood
    <3> QED  BY <2>2, <3>1, <3>2
  <2>8. PICK m : m = r.ln
    OBVIOUS
  <2>9. m \in Lines /\ Len(m) \in 0 .. Len(m)
    BY <2>7, <2>8, LineFacts
  <2>10. redraw(m, Len(m))
    BY <1>4, <1>15, <2>8
  <2>11. ScreenInv'
    BY <2>9, <2>10, RedrawStep
  <2> QED  BY <1>1, <2>11 DEF LineInv
<1>16. CASE ~(Len(cands) > 1)
  <2>1. /\ ln' = r.ln /\ cur' = Len(r.ln)
        /\ garbled' = (garbled \/ cur < Len(ln))
        /\ term' = IF garbled' THEN FreshRow ELSE Emit(term, r.out)
    BY <1>4, <1>16, Zenon
  <2>2. r.ln \in Lines /\ Emit(Shown(ln, Len(ln)), r.out) = Shown(r.ln, Len(r.ln))
    <3>1. CASE Len(cands) = 0
      <4>1. r = same
        BY <1>6, <3>1
      <4> QED  BY <1>2, <1>14, <4>1, EmitNone
    <3>2. CASE Len(cands) = 1
      <4>1. PICK w : w = cands[1]
        OBVIOUS
      <4>2. r = replace_token(ln, at, w)
        BY <1>6, <3>2, <4>1
      <4>3. w \in Grown(tok)
        <5>1. PICK T : T = Grown(tok)
          OBVIOUS
        <5>2. cands \in Seq(T)
          BY <1>12, <5>1
        <5>3. cands[1] \in T
          BY <3>2, <5>2
        <5> QED  BY <4>1, <5>1, <5>3
      <4>4. w \in Seq(Chars) /\ IsPrefix(From(ln, at), w)
        BY <1>10, <4>3 DEF Grown
      <4> QED  BY <1>2, <1>11, <4>2, <4>4, TokenGood
    <3>3. PICK k \in Nat : k = Len(cands)
      BY <1>13
    <3>4. ~(k > 1)
      BY <1>16, <3>3
    <3>5. k = 0 \/ k = 1
      BY <3>4
    <3> QED  BY <3>1, <3>2, <3>3, <3>5
  <2>3. ~garbled' => ~garbled /\ ~(cur < Len(ln)) /\ term' = Emit(term, r.out)
    BY <2>1, Zenon
  <2>4. ~(cur < Len(ln)) => cur = Len(ln)
    BY <1>2, <1>3
  <2>5. ~garbled => term = Shown(ln, cur)
    BY <1>2 DEF ScreenInv
  <2>6. ~garbled' => term' = Shown(ln', cur')
    BY <2>1, <2>2, <2>3, <2>4, <2>5, Zenon
  <2>7. Len(r.ln) \in 0 .. Len(r.ln)
    BY <2>2, LineFacts
  <2>8. ScreenInv'
    BY <2>1, <2>2, <2>6, <2>7 DEF ScreenInv
  <2> QED  BY <1>1, <2>8 DEF LineInv
<1> QED  BY <1>15, <1>16

\* A step that only moves the arrow keys' place, or keeps the line entered in its stead.
Turned(h, v, d) == [h EXCEPT !.view = v, !.draft = d]

LEMMA ViewKept ==
    ASSUME NEW h, NEW p, Kept(h, p), NEW v \in -1 .. h.count - 1, NEW d \in Lines,
           NEW g, g = Turned(h, v, d)
    PROVE  Kept(g, p) /\ g.count = h.count
<1>1. /\ h \in Hists /\ h.count \in 0 .. HIST_CAP /\ HIST_CAP \in Nat \ {0}
      /\ h.count = Len(p) /\ p \in Seq(Lines)
  BY HistFacts, Caps
<1>2. v \in -1 .. HIST_CAP - 1 /\ v < h.count
  BY <1>1
<1>3. g \in Hists /\ g.count = h.count /\ g.start = h.start /\ g.lines = h.lines /\ g.view = v
  BY <1>1, <1>2 DEF Hists, Turned
<1>4. \A i : get_at(g, i) = get_at(h, i)
  BY <1>3 DEF get_at
<1>5. \A i \in 1 .. Len(p) : get_at(g, i - 1) = p[i]
  BY <1>4, HistFacts
<1> QED  BY <1>1, <1>2, <1>3, <1>5 DEF Kept

LEMMA EscStep ==
    ASSUME LineInv, Escape \/ EscByte \/ \E b \in Params : CsiParam(b)
    PROVE  LineInv'
<1>1. ln \in Lines /\ cur \in 0 .. Len(ln) /\ ScreenInv /\ HistInv
  BY DEF LineInv, ScreenInv
<1>2. hist' = hist /\ UNCHANGED <<search, pushed>>
  BY Zenon DEF Escape, EscByte, CsiParam
<1>3. HistInv'
  BY <1>1, <1>2, SameHist
<1>4. UNCHANGED <<ln, cur, term, garbled>> \/ \E e \in {Same, word_left, word_right} : Show(e)
  <2>1. CASE Escape \/ \E b \in Params : CsiParam(b)
    BY <2>1, Zenon DEF Escape, CsiParam
  <2>2. CASE EscByte
    <3>1. Show(Same) \/ \E e \in (IF fancy THEN {word_left, word_right} ELSE {}) \cup {Same} : Show(e)
      BY <2>2, Zenon DEF EscByte
    <3>2. (IF fancy THEN {word_left, word_right} ELSE {}) \cup {Same} \subseteq {Same, word_left, word_right}
      BY Zenon
    <3> QED  BY <3>1, <3>2, Zenon
  <2> QED  BY <2>1, <2>2
<1>5. ASSUME UNCHANGED <<ln, cur, term, garbled>> PROVE ScreenInv'
  BY <1>1, <1>5 DEF ScreenInv
<1>6. ASSUME NEW e \in {Same, word_left, word_right}, Show(e) PROVE ScreenInv'
  <2>1. GoodEdit(ln, cur, e)
    BY <1>1, MovesGood
  <2> QED  BY <1>1, <1>6, <2>1, ShowStep
<1> QED  BY <1>3, <1>4, <1>5, <1>6 DEF LineInv

LEMMA CsiMoveStep ==
    ASSUME LineInv, CsiMove
    PROVE  LineInv'
<1>1. ln \in Lines /\ cur \in 0 .. Len(ln) /\ ScreenInv /\ HistInv
  BY DEF LineInv, ScreenInv
<1>2. hist' = hist /\ UNCHANGED <<search, pushed>>
  BY Zenon DEF CsiMove
<1>3. HistInv'
  BY <1>1, <1>2, SameHist
<1>4. PICK e \in {move_left, move_right, go_home, go_to_end, Same, forward_delete} : Show(e)
  <2> DEFINE E == IF ~fancy THEN {Same}
                  ELSE {move_left, move_right, go_home, go_to_end, Same}
                       \cup (IF kseq = <<"ESC", "[", "3">> THEN {forward_delete} ELSE {})
  <2>1. \E e \in E : Show(e)
    BY Zenon DEF CsiMove
  <2>2. E \subseteq {move_left, move_right, go_home, go_to_end, Same, forward_delete}
    BY Zenon
  <2> HIDE DEF E
  <2> QED  BY <2>1, <2>2, Zenon
<1>5. GoodEdit(ln, cur, e)
  BY <1>1, MovesGood, DeletesGood
<1>6. ScreenInv'
  BY <1>1, <1>4, <1>5, ShowStep
<1> QED  BY <1>3, <1>6 DEF LineInv

LEMMA HistUpStep ==
    ASSUME LineInv, hist_up
    PROVE  LineInv'
<1>1. ln \in Lines /\ cur \in 0 .. Len(ln) /\ ScreenInv /\ HistInv /\ Kept(hist, pushed)
  BY DEF LineInv, ScreenInv, HistInv
<1>2. /\ hist \in Hists /\ hist.count \in 0 .. HIST_CAP /\ hist.view \in -1 .. HIST_CAP - 1
      /\ hist.draft \in Lines /\ hist.view < hist.count /\ HIST_CAP \in Nat \ {0}
  BY <1>1, HistFacts, Caps
<1>3. PICK age : age = hist.view + 1
  OBVIOUS
<1>4. age \in Nat
  BY <1>2, <1>3
<1>5. UNCHANGED <<search, pushed>>
  BY DEF hist_up
<1>6. CASE age >= hist.count
  <2>1. PICK e : e = Same
    OBVIOUS
  <2>2. Show(e) /\ hist' = hist
    BY <1>3, <1>6, <2>1 DEF hist_up
  <2>3. GoodEdit(ln, cur, e)
    BY <1>1, <2>1, MovesGood
  <2>4. HistInv'
    BY <1>1, <1>5, <2>2, SameHist
  <2> QED  BY <1>1, <2>2, <2>3, <2>4, ShowStep DEF LineInv
<1>7. CASE ~(age >= hist.count)
  <2>1. age \in 0 .. hist.count - 1 /\ age \in -1 .. hist.count - 1
    BY <1>2, <1>4, <1>7
  <2>2. PICK w : w = Newest(hist, age)
    OBVIOUS
  <2>3. w \in Lines
    BY <1>1, <2>1, <2>2, EntryFacts
  <2>4. PICK e : e = paint_replace(w)
    OBVIOUS
  <2>5. Show(e) /\ hist' = [hist EXCEPT !.view = age, !.draft = IF age = 0 THEN ln ELSE @]
    BY <1>3, <1>7, <2>2, <2>4 DEF hist_up
  <2>6. GoodEdit(ln, cur, e)
    BY <1>1, <2>3, <2>4, ReplacesGood
  <2>7. PICK d \in Lines : d = IF age = 0 THEN ln ELSE hist.draft
    BY <1>1, <1>2
  <2>8. hist' = Turned(hist, age, d)
    BY <1>2, <2>5, <2>7 DEF Hists, Turned
  <2>9. Kept(hist', pushed) /\ hist'.count = hist.count
    <3>1. PICK h, p, g : h = hist /\ p = pushed /\ g = hist'
      OBVIOUS
    <3>2. Kept(h, p) /\ age \in -1 .. h.count - 1 /\ g = Turned(h, age, d)
      BY <1>1, <2>1, <2>8, <3>1
    <3>3. Kept(g, p) /\ g.count = h.count
      BY <3>2, ViewKept
    <3> QED  BY <3>1, <3>3
  <2>10. HistInv'
    BY <1>1, <1>5, <2>9 DEF HistInv
  <2> QED  BY <1>1, <2>5, <2>6, <2>10, ShowStep DEF LineInv
<1> QED  BY <1>6, <1>7

LEMMA HistDownStep ==
    ASSUME LineInv, hist_down
    PROVE  LineInv'
<1>1. ln \in Lines /\ cur \in 0 .. Len(ln) /\ ScreenInv /\ HistInv /\ Kept(hist, pushed)
  BY DEF LineInv, ScreenInv, HistInv
<1>2. /\ hist \in Hists /\ hist.count \in 0 .. HIST_CAP /\ hist.view \in -1 .. HIST_CAP - 1
      /\ hist.draft \in Lines /\ hist.view < hist.count /\ HIST_CAP \in Nat \ {0}
  BY <1>1, HistFacts, Caps
<1>3. UNCHANGED <<search, pushed>>
  BY DEF hist_down
<1>4. CASE hist.view = -1
  <2>1. PICK e : e = Same
    OBVIOUS
  <2>2. Show(e) /\ hist' = hist
    BY <1>4, <2>1 DEF hist_down, NoAge
  <2>3. GoodEdit(ln, cur, e)
    BY <1>1, <2>1, MovesGood
  <2>4. HistInv'
    BY <1>1, <1>3, <2>2, SameHist
  <2> QED  BY <1>1, <2>2, <2>3, <2>4, ShowStep DEF LineInv
<1>5. CASE hist.view # -1
  <2>1. PICK v : v = hist.view - 1
    OBVIOUS
  <2>2. v \in -1 .. hist.count - 1 /\ (hist.view # 0 => v \in 0 .. hist.count - 1)
    BY <1>2, <1>5, <2>1
  <2>3. PICK w : w = IF hist.view = 0 THEN hist.draft ELSE Newest(hist, v)
    OBVIOUS
  <2>4. w \in Lines
    <3>1. CASE hist.view = 0
      BY <1>2, <2>3, <3>1
    <3>2. CASE hist.view # 0
      BY <1>1, <2>2, <2>3, <3>2, EntryFacts
    <3> QED  BY <3>1, <3>2
  <2>5. PICK e : e = paint_replace(w)
    OBVIOUS
  <2>6. Show(e) /\ hist' = [hist EXCEPT !.view = @ - 1]
    BY <1>5, <2>1, <2>3, <2>5 DEF hist_down, NoAge
  <2>7. GoodEdit(ln, cur, e)
    BY <1>1, <2>4, <2>5, ReplacesGood
  <2>8. PICK d \in Lines : d = hist.draft
    BY <1>2
  <2>9. hist' = Turned(hist, v, d)
    BY <1>2, <2>1, <2>6, <2>8 DEF Hists, Turned
  <2>10. Kept(hist', pushed) /\ hist'.count = hist.count
    <3>1. PICK h, p, g : h = hist /\ p = pushed /\ g = hist'
      OBVIOUS
    <3>2. Kept(h, p) /\ v \in -1 .. h.count - 1 /\ g = Turned(h, v, d)
      BY <1>1, <2>2, <2>9, <3>1
    <3>3. Kept(g, p) /\ g.count = h.count
      BY <3>2, ViewKept
    <3> QED  BY <3>1, <3>3
  <2>11. HistInv'
    BY <1>1, <1>3, <2>10 DEF HistInv
  <2> QED  BY <1>1, <2>6, <2>7, <2>11, ShowStep DEF LineInv
<1> QED  BY <1>4, <1>5

\* find_match finds an entry of the ring, or none.
LEMMA MatchFacts ==
    ASSUME Kept(hist, pushed), NEW q, NEW from \in Int
    PROVE  find_match(q, from) \in -1 .. HIST_CAP - 1 /\ find_match(q, from) < hist.count
<1>1. hist.count \in 0 .. HIST_CAP /\ HIST_CAP \in Nat \ {0}
  BY HistFacts, Caps
<1> DEFINE found == {i \in 0 .. from : i < hist.count
                        /\ \E k \in 0 .. LINE_CAP : k + Len(q) <= Len(get_at(hist, i))
                               /\ SubSeq(get_at(hist, i), k + 1, k + Len(q)) = q}
<1>2. find_match(q, from) = IF q = <<>> \/ found = {} THEN -1 ELSE LargestIn(found)
  BY Zenon DEF find_match, NoAge
<1>3. \A i \in found : i \in 0 .. from /\ i < hist.count
  OBVIOUS
<1> HIDE DEF found
<1>4. found \in SUBSET (0 .. HIST_CAP)
  BY <1>1, <1>3
<1>5. CASE q = <<>> \/ found = {}
  BY <1>1, <1>2, <1>5
<1>6. CASE ~(q = <<>> \/ found = {})
  <2>1. LargestIn(found) \in found
    BY <1>1, <1>4, <1>6, LargestFacts
  <2>2. PICK x : x = LargestIn(found)
    OBVIOUS
  <2>3. x \in 0 .. HIST_CAP /\ x < hist.count
    BY <1>3, <1>4, <2>1, <2>2
  <2>4. find_match(q, from) = x
    BY <1>2, <1>6, <2>2
  <2> QED  BY <1>1, <2>3, <2>4
<1> QED  BY <1>5, <1>6

\* The search with another query and match.
Sought(q, i) == [search EXCEPT !.query = q, !.idx = i]

LEMMA SearchStep ==
    ASSUME LineInv, SearchStart \/ (\E b \in Chars : SearchType(b)) \/ SearchBack \/ SearchAgain
    PROVE  LineInv'
<1>1. ScreenInv /\ HistInv /\ Kept(hist, pushed) /\ search \in Searches
  BY DEF LineInv, HistInv
<1>2. UNCHANGED <<ln, cur, hist, term, garbled, pushed>>
  BY Zenon DEF SearchStart, SearchType, SearchBack, SearchAgain
<1>3. ScreenInv'
  BY <1>1, <1>2 DEF ScreenInv
<1>4. hist.count \in 0 .. HIST_CAP /\ HIST_CAP \in Nat \ {0} /\ hist.count - 1 \in Int
  BY <1>1, HistFacts, Caps
<1>5. search.query \in Seq(Chars) /\ search.idx \in -1 .. HIST_CAP - 1
  BY <1>1 DEF Searches
<1>6. search' \in Searches /\ search'.idx < hist.count /\ (~search'.on => search'.idx = -1)
  <2>1. CASE SearchStart
    <3>1. search' = [query |-> <<>>, idx |-> -1, on |-> TRUE]
      BY <2>1 DEF SearchStart, NoSearch, NoAge
    <3>2. -1 \in -1 .. HIST_CAP - 1 /\ <<>> \in Seq(Chars) /\ -1 < hist.count
      BY <1>4
    <3> QED  BY <3>1, <3>2 DEF Searches
  <2>2. ASSUME NEW q \in Seq(Chars), NEW i \in -1 .. HIST_CAP - 1, i < hist.count,
               search.on, search' = Sought(q, i)
        PROVE  search' \in Searches /\ search'.idx < hist.count /\ (~search'.on => search'.idx = -1)
    BY <1>1, <2>2 DEF Searches, Sought
  <2>3. ASSUME NEW b \in Chars, SearchType(b)
        PROVE  search' \in Searches /\ search'.idx < hist.count /\ (~search'.on => search'.idx = -1)
    <3>1. PICK q : q = Append(search.query, b)
      OBVIOUS
    <3>2. q \in Seq(Chars)
      BY <1>5, <3>1
    <3>3. PICK i : i = find_match(q, hist.count - 1)
      OBVIOUS
    <3>4. i \in -1 .. HIST_CAP - 1 /\ i < hist.count
      BY <1>1, <1>4, <3>3, MatchFacts
    <3>5. search.on /\ search' = Sought(q, i)
      BY <2>3, <3>1, <3>3, Zenon DEF SearchType, Sought
    <3> QED  BY <2>2, <3>2, <3>4, <3>5
  <2>4. CASE SearchBack
    <3>1. PICK q : q = Front(search.query)
      OBVIOUS
    <3>2. q \in Seq(Chars)
      <4>1. search.query # <<>>
        BY <2>4 DEF SearchBack
      <4>2. PICK w \in Seq(Chars), n \in Nat : w = search.query /\ n = Len(w) /\ n > 0
        BY <1>5, <4>1
      <4>3. n - 1 \in Nat /\ n - 1 <= Len(w) /\ 0 \in Nat /\ 0 <= n - 1 /\ 0 + 1 = 1
        BY <4>2
      <4>4. SubSeq(w, 0 + 1, n - 1) \in Seq(Chars)
        BY <4>3, PartFacts
      <4> QED  BY <3>1, <4>2, <4>3, <4>4 DEF Front
    <3>3. PICK i : i = find_match(q, hist.count - 1)
      OBVIOUS
    <3>4. i \in -1 .. HIST_CAP - 1 /\ i < hist.count
      BY <1>1, <1>4, <3>3, MatchFacts
    <3>5. search.on /\ search' = Sought(q, i)
      BY <2>4, <3>1, <3>3, Zenon DEF SearchBack, Sought
    <3> QED  BY <2>2, <3>2, <3>4, <3>5
  <2>5. CASE SearchAgain
    <3>1. PICK q \in Seq(Chars) : q = search.query
      BY <1>5
    <3>2. PICK i : i = find_match(q, search.idx - 1)
      OBVIOUS
    <3>3. search.idx - 1 \in Int
      BY <1>4, <1>5
    <3>4. i \in -1 .. HIST_CAP - 1 /\ i < hist.count
      BY <1>1, <3>2, <3>3, MatchFacts
    <3>5. search.on /\ search' = [search EXCEPT !.idx = i]
      BY <2>5, <3>1, <3>2 DEF SearchAgain
    <3>6. search' = Sought(q, i)
      BY <1>1, <3>1, <3>5 DEF Searches, Sought
    <3> QED  BY <2>2, <3>4, <3>5, <3>6
  <2> QED  BY <2>1, <2>3, <2>4, <2>5
<1>7. HistInv'
  BY <1>1, <1>2, <1>6 DEF HistInv
<1> QED  BY <1>3, <1>7 DEF LineInv

LEMMA SearchEndStep ==
    ASSUME LineInv, SearchEnd
    PROVE  LineInv'
<1>1. ln \in Lines /\ cur \in 0 .. Len(ln) /\ ScreenInv /\ HistInv /\ Kept(hist, pushed) /\ search \in Searches
  BY DEF LineInv, ScreenInv, HistInv
<1>2. search' = NoSearch /\ hist' = hist /\ pushed' = pushed
  BY DEF SearchEnd
<1>3. hist.count \in 0 .. HIST_CAP /\ HIST_CAP \in Nat \ {0}
  BY <1>1, HistFacts, Caps
<1>4. HistInv'
  <2>1. NoSearch.idx = -1 /\ ~NoSearch.on /\ NoSearch \in Searches
    <3>1. -1 \in -1 .. HIST_CAP - 1 /\ <<>> \in Seq(Chars)
      BY <1>3
    <3> QED  BY <3>1 DEF NoSearch, NoAge, Searches
  <2>2. -1 < hist.count
    BY <1>3
  <2> QED  BY <1>1, <1>2, <2>1, <2>2 DEF HistInv
<1>5. ScreenInv'
  <2>1. ASSUME redraw(ln, Len(ln)) PROVE ScreenInv'
    <3>1. Len(ln) \in 0 .. Len(ln)
      BY <1>1, LineFacts
    <3> QED  BY <1>1, <2>1, <3>1, RedrawStep
  <2>2. ASSUME NEW l, search.idx # NoAge, l = get_at(hist, search.idx), redraw(l, Len(l)) PROVE ScreenInv'
    <3>1. search.idx \in 0 .. HIST_CAP
      BY <1>1, <1>3, <2>2 DEF NoAge, Searches
    <3>2. l \in Lines
      BY <1>1, <2>2, <3>1, EntryFacts
    <3>3. Len(l) \in 0 .. Len(l)
      BY <3>2, LineFacts
    <3> QED  BY <2>2, <3>2, <3>3, RedrawStep
  <2>3. ASSUME redraw(ln, cur) PROVE ScreenInv'
    BY <1>1, <2>3, RedrawStep
  <2>4. ASSUME garbled' = TRUE, UNCHANGED <<ln, cur>> PROVE ScreenInv'
    BY <1>1, <2>4 DEF ScreenInv
  <2> QED  BY <2>1, <2>2, <2>3, <2>4 DEF SearchEnd
<1> QED  BY <1>4, <1>5 DEF LineInv

LEMMA LineInitInv == LineInit => LineInv
<1> SUFFICES ASSUME LineInit PROVE LineInv
  OBVIOUS
<1>1. ScreenInv
  <2>1. ln = <<>> /\ cur = 0 /\ term = FreshRow
    BY DEF LineInit
  <2>2. 0 \in 0 .. Len(<<>>)
    BY NoLine
  <2> QED  BY <2>1, <2>2, NoLine DEF ScreenInv
<1>2. PICK h : h = hist
  OBVIOUS
<1>3. h = [lines |-> [i \in 0 .. HIST_CAP - 1 |-> <<>>], start |-> 0, count |-> 0,
           view |-> NoAge, draft |-> <<>>]
  BY <1>2 DEF LineInit
<1>4. Kept(h, <<>>) /\ h.count = 0
  BY <1>3, NewHistory
<1>5. NoSearch.idx = -1 /\ ~NoSearch.on /\ NoSearch \in Searches
  <2>1. -1 \in -1 .. HIST_CAP - 1 /\ <<>> \in Seq(Chars)
    BY Caps
  <2> QED  BY <2>1 DEF NoSearch, NoAge, Searches
<1>6. HistInv
  BY <1>2, <1>4, <1>5 DEF LineInit, HistInv
<1> QED  BY <1>1, <1>6 DEF LineInv

LEMMA LineStep == LineInv /\ [LineNext]_lineVars => LineInv'
<1> SUFFICES ASSUME LineInv, [LineNext]_lineVars PROVE LineInv'
  OBVIOUS
<1>1. CASE UNCHANGED lineVars
  BY <1>1 DEF lineVars, LineInv, ScreenInv, HistInv
<1>2. CASE LineNext
  BY <1>2, TypeStep, SearchStep, EscStep, EnterStep, FancyKeyStep, BackspaceStep, CtrlCStep, EofStep,
     TabStep, CsiMoveStep, HistUpStep, HistDownStep, SearchEndStep DEF LineNext
<1> QED  BY <1>1, <1>2

\* line.rs: after any keys the ring of HIST_CAP lines holds the lines entered, oldest first
\* and none lost but the oldest, and neither the arrow keys nor a search point outside it.
THEOREM HistoryRing == LineSpec => []HistoryKept
<1>1. LineInv => HistoryKept
  BY HistFacts DEF LineInv, HistInv, HistoryKept
<1> QED  BY <1>1, LineInitInv, LineStep, PTL DEF LineSpec

\* line.rs: what the editor writes for a key leaves on the row the line it keeps, and the
\* terminal's cursor where the editor's is.
THEOREM RowShowsLine == LineSpec => []ScreenShows
<1>1. LineInv => ScreenShows
  <2> SUFFICES ASSUME LineInv, ~garbled PROVE ScreenShows
    BY Zenon DEF ScreenShows
  <2>1. term = Row(CellsOf(ln), cur)
    BY DEF LineInv, ScreenInv, Shown
  <2>2. term.col = cur /\ term.cells = CellsOf(ln)
    BY <2>1 DEF Row
  <2> QED  BY <2>2, Zenon DEF ScreenShows, CellsOf, Blank
<1> QED  BY <1>1, LineInitInv, LineStep, PTL DEF LineSpec

----------------------------------------------------------------------------
(* The commands that work on files: what mv moves is kept, and what pkg    *)
(* leaves in /bin was signed.                                              *)

Paths == FilePaths \cup {BinPath}
Texts == Seq(Pieces)
Entries == [kind : {"file", "dir", "absent"}, data : Texts]
Ops == {"none", "cp", "mv", "show", "pkg", "edit", "write"}
Places == {"idle", "open", "create", "read", "write", "finish", "typing", "check", "edit"}
Commands == [op : Ops, pc : Places, src : Paths, dst : Paths, off : Nat, buf : Texts, kept : Texts]

\* A signature in c stands where one of the sources has it: nobody else signs.
Genuine(c) == \A k \in 1 .. Len(c) : c[k] = "signed" => SubSeq(c, 1, k) \in Sources

\* b is the payload of a package that was whole and signed.
Verified(b) == \E d \in Sources : pkg_parse(d) /\ pkg_verify(d) /\ b = Payload(d)

FileTypes == disk \in [Paths -> Entries] /\ fcmd \in Commands /\ ffds \subseteq {"in", "out"}

DiskGenuine == \A p \in FilePaths : Genuine(disk[p].data)

HoldsNone == fcmd.pc \in {"idle", "open", "typing", "check", "edit"} => ffds = {}

\* Which commands come to which place.
PlaceOps ==
    /\ fcmd.pc = "open" => fcmd.op \in {"cp", "mv", "show", "pkg", "edit"}
    /\ fcmd.pc = "read" => fcmd.op \in {"cp", "mv", "show", "pkg", "edit"}
    /\ fcmd.pc \in {"create", "write"} => fcmd.op \in {"cp", "mv", "pkg", "edit", "write"}
    /\ fcmd.pc = "finish" => fcmd.op \in {"cp", "mv", "pkg", "write"}
    /\ fcmd.pc = "typing" => fcmd.op = "write"
    /\ fcmd.pc = "check" => fcmd.op = "pkg"
    /\ fcmd.pc = "edit" => fcmd.op = "edit"

\* The paths of a command that runs.
CommandPaths ==
    fcmd.pc # "idle" =>
        /\ fcmd.op \in {"cp", "mv"} => fcmd.src \in FilePaths /\ fcmd.dst \in FilePaths
        /\ fcmd.op = "pkg" => fcmd.dst = BinPath
        /\ fcmd.op = "edit" => fcmd.src \in FilePaths /\ fcmd.dst \in FilePaths
        /\ fcmd.op = "write" => fcmd.dst \in FilePaths
        /\ fcmd.pc \in {"open", "read"} => fcmd.src \in FilePaths

\* What a command has in its buffer, and how far its output is.
BufferIs ==
    /\ fcmd.pc = "open" => fcmd.buf = <<>> /\ fcmd.off = 0 /\ fcmd.kept = <<>>
    /\ fcmd.pc \in {"typing", "check", "edit"} => Genuine(fcmd.buf)
    /\ fcmd.pc \in {"create", "write"} /\ fcmd.op \in {"edit", "write"} => Genuine(fcmd.buf)
    /\ fcmd.pc \in {"create", "write"} /\ fcmd.op = "pkg" => Verified(fcmd.buf)
    /\ fcmd.pc \in {"create", "read"} /\ fcmd.op \in {"cp", "mv"} => fcmd.buf = <<>>

Reading ==
    fcmd.pc = "read" /\ fcmd.op \in {"pkg", "edit"} =>
        fcmd.off <= Len(disk[fcmd.src].data) /\ fcmd.buf = SubSeq(disk[fcmd.src].data, 1, fcmd.off)

Copying ==
    fcmd.op \in {"cp", "mv"} =>
        /\ fcmd.pc = "read" =>
              /\ disk[fcmd.dst].kind = "file" /\ fcmd.off <= Len(disk[fcmd.src].data)
              /\ disk[fcmd.dst].data = SubSeq(disk[fcmd.src].data, 1, fcmd.off)
        /\ fcmd.pc = "write" =>
              /\ fcmd.src # fcmd.dst
              /\ disk[fcmd.dst].kind = "file" /\ fcmd.off \in 1 .. Len(disk[fcmd.src].data)
              /\ disk[fcmd.dst].data = SubSeq(disk[fcmd.src].data, 1, fcmd.off - 1)
              /\ fcmd.buf = <<disk[fcmd.src].data[fcmd.off]>>
        /\ fcmd.pc = "finish" =>
              disk[fcmd.dst].kind = "file" /\ disk[fcmd.dst].data = disk[fcmd.src].data

Writing ==
    fcmd.pc = "write" /\ fcmd.op \in {"pkg", "edit", "write"} =>
        /\ fcmd.off <= Len(fcmd.buf)
        /\ disk[fcmd.dst].kind = "file" /\ disk[fcmd.dst].data = SubSeq(fcmd.buf, 1, fcmd.off)

Moving ==
    fcmd.op = "mv" /\ fcmd.src # fcmd.dst =>
        /\ fcmd.pc \in {"create", "read", "write", "finish"} => disk[fcmd.src] = File(fcmd.kept)
        /\ fcmd.pc = "idle" /\ fcmd.kept # <<>> =>
              disk[fcmd.src] = File(fcmd.kept) \/ disk[fcmd.dst] = File(fcmd.kept)

FileInv ==
    /\ FileTypes /\ DiskGenuine /\ HoldsNone /\ PlaceOps /\ CommandPaths
    /\ BufferIs /\ Reading /\ Copying /\ Writing /\ Moving /\ BinSigned

\* The beginning of a text.
LEMMA Beginning ==
    ASSUME NEW b \in Texts, NEW k \in 0 .. Len(b)
    PROVE  /\ SubSeq(b, 1, k) \in Texts /\ Len(SubSeq(b, 1, k)) = k
           /\ \A i \in 1 .. k : SubSeq(b, 1, k)[i] = b[i]
<1>1. \A i \in 1 .. k : b[i] \in Pieces
  BY LenProperties DEF Texts
<1>2. Len(b) \in Nat
  BY LenProperties DEF Texts
<1> QED  BY <1>1, <1>2, SubSeqProperties DEF Texts

\* Texts of the same length with the same pieces are the same.
LEMMA SameTexts ==
    ASSUME NEW a \in Texts, NEW b \in Texts, Len(a) = Len(b), \A i \in 1 .. Len(b) : a[i] = b[i]
    PROVE  a = b
BY SeqEqual DEF Texts

LEMMA NoText == <<>> \in Texts /\ Len(<<>>) = 0
<1>1. \A T : <<>> \in Seq(T)
  OBVIOUS
<1> QED  BY <1>1 DEF Texts

LEMMA BeginningNone ==
    ASSUME NEW b \in Texts
    PROVE  SubSeq(b, 1, 0) = <<>>
<1>1. Len(b) \in Nat
  BY LenProperties DEF Texts
<1>2. 0 \in 0 .. Len(b)
  BY <1>1
<1> QED  BY <1>2, Beginning, NoText, SameTexts

LEMMA BeginningAll ==
    ASSUME NEW b \in Texts
    PROVE  SubSeq(b, 1, Len(b)) = b
<1>1. Len(b) \in Nat
  BY LenProperties DEF Texts
<1>2. Len(b) \in 0 .. Len(b)
  BY <1>1
<1> QED  BY <1>2, Beginning, SameTexts

LEMMA BeginningTwice ==
    ASSUME NEW b \in Texts, NEW k \in 0 .. Len(b), NEW j \in 0 .. k
    PROVE  SubSeq(SubSeq(b, 1, k), 1, j) = SubSeq(b, 1, j)
<1>1. Len(b) \in Nat
  BY LenProperties DEF Texts
<1>2. PICK a \in Texts : a = SubSeq(b, 1, k)
  BY Beginning
<1>3. Len(a) = k /\ \A i \in 1 .. k : a[i] = b[i]
  BY <1>2, Beginning
<1>4. j \in 0 .. Len(a) /\ j \in 0 .. Len(b)
  BY <1>1, <1>3
<1>5. PICK c \in Texts : c = SubSeq(a, 1, j)
  BY <1>4, Beginning
<1>6. Len(c) = j /\ \A i \in 1 .. j : c[i] = a[i]
  BY <1>4, <1>5, Beginning
<1>7. PICK e \in Texts : e = SubSeq(b, 1, j)
  BY <1>4, Beginning
<1>8. Len(e) = j /\ \A i \in 1 .. j : e[i] = b[i]
  BY <1>4, <1>7, Beginning
<1>9. \A i \in 1 .. j : c[i] = e[i]
  BY <1>3, <1>6, <1>8
<1>10. c = e
  BY <1>6, <1>8, <1>9, SameTexts
<1> QED  BY <1>2, <1>5, <1>7, <1>10

\* Adding a piece.
LEMMA AppendText ==
    ASSUME NEW b \in Texts, NEW x \in Pieces
    PROVE  /\ Append(b, x) \in Texts /\ Len(Append(b, x)) = Len(b) + 1
           /\ Append(b, x)[Len(b) + 1] = x /\ \A i \in 1 .. Len(b) : Append(b, x)[i] = b[i]
BY AppendProperties DEF Texts

LEMMA BeginningGrows ==
    ASSUME NEW b \in Texts, NEW k \in 0 .. Len(b) - 1
    PROVE  Append(SubSeq(b, 1, k), b[k + 1]) = SubSeq(b, 1, k + 1)
<1>1. Len(b) \in Nat /\ \A i \in 1 .. Len(b) : b[i] \in Pieces
  BY LenProperties DEF Texts
<1>2. k \in 0 .. Len(b) /\ k + 1 \in 0 .. Len(b) /\ b[k + 1] \in Pieces
  BY <1>1
<1>3. PICK a \in Texts : a = SubSeq(b, 1, k)
  BY <1>2, Beginning
<1>4. Len(a) = k /\ \A i \in 1 .. k : a[i] = b[i]
  BY <1>2, <1>3, Beginning
<1>5. PICK c \in Texts : c = Append(a, b[k + 1])
  BY <1>2, AppendText
<1>6. Len(c) = k + 1 /\ c[k + 1] = b[k + 1] /\ \A i \in 1 .. k : c[i] = a[i]
  BY <1>2, <1>4, <1>5, AppendText
<1>7. PICK e \in Texts : e = SubSeq(b, 1, k + 1)
  BY <1>2, Beginning
<1>8. Len(e) = k + 1 /\ \A i \in 1 .. k + 1 : e[i] = b[i]
  BY <1>2, <1>7, Beginning
<1>9. \A i \in 1 .. k + 1 : c[i] = e[i]
  BY <1>4, <1>6, <1>8
<1>10. c = e
  BY <1>6, <1>8, <1>9, SameTexts
<1> QED  BY <1>3, <1>5, <1>7, <1>10

LEMMA BeginningIsPrefix ==
    ASSUME NEW b \in Texts, NEW k \in 0 .. Len(b)
    PROVE  IsPrefix(SubSeq(b, 1, k), b)
<1>1. Len(b) \in Nat
  BY LenProperties DEF Texts
<1>2. Len(SubSeq(b, 1, k)) = k /\ k \in 0 .. k
  BY <1>1, Beginning
<1>3. SubSeq(SubSeq(b, 1, k), 1, k) = SubSeq(b, 1, k)
  BY <1>2, BeginningTwice
<1> QED  BY <1>1, <1>2, <1>3 DEF IsPrefix

\* What is not signed by a source stays so.
LEMMA GenuineNone == Genuine(<<>>)
BY NoText DEF Genuine

LEMMA SourceTexts == \A d \in Sources : d \in Texts
<1>1. \A d \in Downloads : d \in Texts
  BY FileConstants DEF Texts
<1>2. ASSUME NEW f \in StartFiles, NEW p \in FilePaths PROVE f[p].data \in Texts
  BY FileConstants DEF Texts
<1> QED  BY <1>1, <1>2 DEF Sources

LEMMA GenuineSource ==
    ASSUME NEW d \in Sources
    PROVE  Genuine(d)
<1>1. d \in Texts
  BY SourceTexts
<1>2. SubSeq(d, 1, Len(d)) = d
  BY <1>1, BeginningAll
<1>3. \A i \in 1 .. Len(d) : d[i] = "signed" => i = Len(d)
  BY FileConstants
<1> QED  BY <1>2, <1>3 DEF Genuine

LEMMA GenuineBeginning ==
    ASSUME NEW b \in Texts, Genuine(b), NEW k \in 0 .. Len(b)
    PROVE  Genuine(SubSeq(b, 1, k))
<1>1. Len(b) \in Nat
  BY LenProperties DEF Texts
<1>2. PICK a \in Texts : a = SubSeq(b, 1, k)
  BY Beginning
<1>3. Len(a) = k /\ \A i \in 1 .. k : a[i] = b[i]
  BY <1>2, Beginning
<1>4. ASSUME NEW i \in 1 .. k, a[i] = "signed" PROVE SubSeq(a, 1, i) \in Sources
  <2>1. b[i] = "signed" /\ i \in 1 .. Len(b) /\ i \in 0 .. k
    BY <1>1, <1>3, <1>4
  <2>2. SubSeq(a, 1, i) = SubSeq(b, 1, i)
    BY <1>2, <2>1, BeginningTwice
  <2> QED  BY <2>1, <2>2 DEF Genuine
<1>5. Genuine(a)
  BY <1>3, <1>4 DEF Genuine
<1> QED  BY <1>2, <1>5

LEMMA GenuineTyped ==
    ASSUME NEW b \in Texts, Genuine(b)
    PROVE  Append(b, "x") \in Texts /\ Genuine(Append(b, "x"))
<1>1. Len(b) \in Nat
  BY LenProperties DEF Texts
<1>2. "x" \in Pieces
  BY FileConstants
<1>3. PICK a \in Texts : a = Append(b, "x")
  BY <1>2, AppendText
<1>4. Len(a) = Len(b) + 1 /\ a[Len(b) + 1] = "x" /\ \A i \in 1 .. Len(b) : a[i] = b[i]
  BY <1>2, <1>3, AppendText
<1>5. SubSeq(a, 1, Len(b)) = b
  <2>1. Len(b) \in 0 .. Len(a)
    BY <1>1, <1>4
  <2>2. PICK c \in Texts : c = SubSeq(a, 1, Len(b))
    BY <2>1, Beginning
  <2>3. Len(c) = Len(b) /\ \A i \in 1 .. Len(b) : c[i] = a[i]
    BY <2>1, <2>2, Beginning
  <2>4. c = b
    BY <1>4, <2>3, SameTexts
  <2> QED  BY <2>2, <2>4
<1>6. ASSUME NEW i \in 1 .. Len(a), a[i] = "signed" PROVE SubSeq(a, 1, i) \in Sources
  <2>1. i \in 1 .. Len(b) /\ b[i] = "signed"
    BY <1>1, <1>4, <1>6
  <2>2. Len(b) \in 0 .. Len(a) /\ i \in 0 .. Len(b)
    BY <1>1, <1>4, <2>1
  <2>3. SubSeq(SubSeq(a, 1, Len(b)), 1, i) = SubSeq(a, 1, i)
    BY <2>2, BeginningTwice
  <2>4. SubSeq(b, 1, i) = SubSeq(a, 1, i)
    BY <1>5, <2>3
  <2> QED  BY <2>1, <2>4 DEF Genuine
<1>7. Genuine(a)
  BY <1>6 DEF Genuine
<1> QED  BY <1>3, <1>7

\* A package that was verified holds a payload, and its beginnings are its prefixes.
LEMMA PayloadText ==
    ASSUME NEW d \in Texts, pkg_parse(d)
    PROVE  Payload(d) \in Texts
<1>1. Len(d) \in Nat /\ Len(d) >= 3
  BY LenProperties DEF Texts, pkg_parse
<1>2. \A i \in 2 .. Len(d) - 1 : d[i] \in Pieces
  BY <1>1, LenProperties DEF Texts
<1> QED  BY <1>1, <1>2, SubSeqProperties DEF Texts, Payload

LEMMA GenuinePackage ==
    ASSUME NEW b \in Texts, Genuine(b), pkg_parse(b), pkg_verify(b)
    PROVE  Verified(Payload(b)) /\ Payload(b) \in Texts
<1>1. Len(b) \in Nat /\ Len(b) >= 3
  BY LenProperties DEF Texts, pkg_parse
<1>2. SubSeq(b, 1, Len(b)) \in Sources
  BY <1>1 DEF Genuine, pkg_verify
<1>3. b \in Sources
  BY <1>2, BeginningAll
<1> QED  BY <1>3, PayloadText DEF Verified

LEMMA VerifiedBeginning ==
    ASSUME NEW b \in Texts, Verified(b), NEW k \in 0 .. Len(b)
    PROVE  \E d \in Sources : pkg_parse(d) /\ pkg_verify(d) /\ IsPrefix(SubSeq(b, 1, k), Payload(d))
<1>1. PICK d \in Sources : pkg_parse(d) /\ pkg_verify(d) /\ b = Payload(d)
  BY DEF Verified
<1>2. IsPrefix(SubSeq(b, 1, k), b)
  BY BeginningIsPrefix
<1> QED  BY <1>1, <1>2

\* What the types say of the command.
LEMMA CommandFacts ==
    ASSUME FileTypes
    PROVE  /\ fcmd.op \in Ops /\ fcmd.pc \in Places /\ fcmd.src \in Paths /\ fcmd.dst \in Paths
           /\ fcmd.off \in Nat /\ fcmd.buf \in Texts /\ fcmd.kept \in Texts
           /\ Len(fcmd.buf) \in Nat
           /\ \A p \in Paths : /\ disk[p] \in Entries /\ disk[p].data \in Texts /\ Len(disk[p].data) \in Nat
                               /\ disk[p].kind \in {"file", "dir", "absent"}
<1>1. fcmd \in Commands /\ disk \in [Paths -> Entries]
  BY DEF FileTypes
<1>2. \A b \in Texts : Len(b) \in Nat
  BY LenProperties DEF Texts
<1>3. fcmd.buf \in Texts /\ \A p \in Paths : disk[p] \in Entries /\ disk[p].data \in Texts
  BY <1>1 DEF Commands, Entries
<1> QED  BY <1>1, <1>2, <1>3 DEF Commands, Entries

LEMMA PathFacts == BinPath \notin FilePaths /\ BinPath \in Paths /\ \A p \in FilePaths : p \in Paths /\ p # BinPath
BY FileConstants DEF Paths

\* Files written.
LEMMA FileFacts ==
    /\ \A d \in Texts : File(d) \in Entries /\ File(d).kind = "file" /\ File(d).data = d
    /\ Dir \in Entries /\ Dir.kind = "dir" /\ Dir.data = <<>>
    /\ NoFile \in Entries /\ NoFile.kind = "absent" /\ NoFile.data = <<>>
BY NoText DEF Entries, File, Dir, NoFile

LEMMA DataReplaced == \A e \in Entries : \A a : e.kind = "file" => [e EXCEPT !.data = a] = File(a)
BY DEF Entries, File

\* A command that ends, with the disk as it was.
LEMMA EndStep ==
    ASSUME FileInv, EndCommand, UNCHANGED disk, fcmd.pc # "idle"
    PROVE  FileInv'
<1>1. FileTypes
  BY DEF FileInv
<1>2. fcmd' \in Commands /\ fcmd'.pc = "idle" /\ fcmd'.op = fcmd.op /\ fcmd'.src = fcmd.src /\ fcmd'.dst = fcmd.dst
      /\ fcmd'.kept = fcmd.kept /\ ffds' = {}
  BY <1>1 DEF FileTypes, EndCommand, Goto, Commands, Places
<1>3. FileTypes'
  BY <1>1, <1>2 DEF FileTypes
<1>4. HoldsNone' /\ PlaceOps' /\ CommandPaths' /\ BufferIs' /\ Reading' /\ Copying' /\ Writing'
  BY <1>2 DEF HoldsNone, PlaceOps, CommandPaths, BufferIs, Reading, Copying, Writing
<1>5. DiskGenuine' /\ BinSigned'
  BY DEF FileInv, DiskGenuine, BinSigned
<1>6. Moving'
  <2>1. Moving /\ PlaceOps /\ BufferIs
    BY DEF FileInv
  <2>2. fcmd.pc \in Places
    BY <1>1, CommandFacts
  <2>3. fcmd.op = "mv" /\ fcmd.kept # <<>> => fcmd.pc \in {"create", "read", "write", "finish"}
    BY <2>1, <2>2 DEF PlaceOps, BufferIs, Places
  <2> QED  BY <1>2, <2>1, <2>3 DEF Moving
<1> QED  BY <1>3, <1>4, <1>5, <1>6 DEF FileInv

\* A command begins.
LEMMA StartStep ==
    ASSUME FileInv, NEW op \in Ops, NEW pc \in {"open", "typing", "check"}, NEW src \in Paths, NEW dst \in Paths, NEW buf \in Texts,
           fcmd.pc = "idle", UNCHANGED <<disk, ffds>>,
           fcmd' = [op |-> op, pc |-> pc, src |-> src, dst |-> dst, off |-> 0, buf |-> buf, kept |-> <<>>],
           pc = "open" => op \in {"cp", "mv", "show", "pkg", "edit"} /\ buf = <<>> /\ src \in FilePaths,
           pc = "typing" => op = "write", pc = "check" => op = "pkg", Genuine(buf),
           op \in {"cp", "mv", "edit", "write"} => dst \in FilePaths,
           op = "pkg" => dst = BinPath
    PROVE  FileInv'
<1>1. FileTypes
  BY DEF FileInv
<1>2. FileTypes'
  BY <1>1, NoText DEF FileTypes, Commands, Places
<1>3. HoldsNone'
  BY DEF FileInv, HoldsNone
<1>4. PlaceOps' /\ Reading' /\ Copying' /\ Writing'
  BY DEF PlaceOps, Reading, Copying, Writing
<1>5. CommandPaths'
  BY DEF CommandPaths
<1>6. BufferIs' /\ Moving'
  BY DEF BufferIs, Moving
<1>7. DiskGenuine' /\ BinSigned'
  BY DEF FileInv, DiskGenuine, BinSigned
<1> QED  BY <1>2, <1>3, <1>4, <1>5, <1>6, <1>7 DEF FileInv

LEMMA StartCopyStep ==
    ASSUME FileInv, NEW op \in Copies, NEW src \in FilePaths, NEW dst \in FilePaths, StartCopy(op, src, dst)
    PROVE  FileInv'
<1>1. op \in {"cp", "mv"} /\ op \in Ops /\ src \in Paths /\ dst \in Paths
  BY DEF Copies, Ops, Paths
<1>2. fcmd' = [op |-> op, pc |-> "open", src |-> src, dst |-> dst, off |-> 0, buf |-> <<>>, kept |-> <<>>]
  BY DEF StartCopy, NoCommand
<1> QED  BY <1>1, <1>2, NoText, GenuineNone, StartStep DEF StartCopy

LEMMA StartReadStep ==
    ASSUME FileInv, NEW op \in Shows \cup {"pkg", "edit"}, NEW src \in FilePaths, StartRead(op, src)
    PROVE  FileInv'
<1> DEFINE dst == IF op = "edit" THEN src ELSE BinPath
<1>1. op \in {"show", "pkg", "edit"} /\ op \in Ops /\ src \in Paths /\ dst \in Paths
  BY DEF Shows, Ops, Paths
<1>2. fcmd' = [op |-> op, pc |-> "open", src |-> src, dst |-> dst, off |-> 0, buf |-> <<>>, kept |-> <<>>]
  BY DEF StartRead, NoCommand
<1>3. op = "edit" => dst \in FilePaths
  OBVIOUS
<1>4. op = "pkg" => dst = BinPath
  OBVIOUS
<1> HIDE DEF dst
<1> QED  BY <1>1, <1>2, <1>3, <1>4, NoText, GenuineNone, StartStep DEF StartRead

LEMMA StartWriteStep ==
    ASSUME FileInv, NEW dst \in FilePaths, cmd_write_enter(dst)
    PROVE  FileInv'
<1>1. "write" \in Ops /\ BinPath \in Paths /\ dst \in Paths
  BY DEF Ops, Paths
<1>2. fcmd' = [op |-> "write", pc |-> "typing", src |-> BinPath, dst |-> dst, off |-> 0, buf |-> <<>>, kept |-> <<>>]
  BY DEF cmd_write_enter, NoCommand
<1> QED  BY <1>1, <1>2, NoText, GenuineNone, StartStep DEF cmd_write_enter

LEMMA StartDownloadStep ==
    ASSUME FileInv, NEW blob \in Downloads, StartDownload(blob)
    PROVE  FileInv'
<1>1. "pkg" \in Ops /\ BinPath \in Paths
  BY DEF Ops, Paths
<1>2. fcmd' = [op |-> "pkg", pc |-> "check", src |-> BinPath, dst |-> BinPath, off |-> 0, buf |-> blob, kept |-> <<>>]
  BY DEF StartDownload, NoCommand
<1>3. blob \in Sources
  BY DEF Sources
<1>4. blob \in Texts /\ Genuine(blob)
  BY <1>3, SourceTexts, GenuineSource
<1> QED  BY <1>1, <1>2, <1>4, StartStep DEF StartDownload

\* touch, mkdir and rm: one entry changes and no command runs.
LEMMA EntryStep ==
    ASSUME FileInv, NEW p \in Paths, NEW e \in Entries, Genuine(e.data), p = BinPath => e.kind # "file",
           fcmd.pc = "idle", disk' = [disk EXCEPT ![p] = e], fcmd' = NoCommand, UNCHANGED ffds
    PROVE  FileInv'
<1>1. FileTypes
  BY DEF FileInv
<1>2. fcmd' \in Commands
  BY NoText DEF NoCommand, Commands, Places, Ops, Paths
<1>3. FileTypes'
  BY <1>1, <1>2 DEF FileTypes
<1>4. HoldsNone'
  BY DEF FileInv, HoldsNone
<1>5. PlaceOps' /\ Reading' /\ Copying' /\ Writing' /\ CommandPaths' /\ BufferIs' /\ Moving'
  BY DEF PlaceOps, Reading, Copying, Writing, CommandPaths, BufferIs, Moving, NoCommand
<1>6. DiskGenuine'
  BY <1>1, PathFacts DEF FileInv, DiskGenuine, FileTypes
<1>7. BinSigned'
  BY <1>1, PathFacts DEF FileInv, BinSigned, FileTypes
<1> QED  BY <1>3, <1>4, <1>5, <1>6, <1>7 DEF FileInv

LEMMA EntrySteps ==
    ASSUME FileInv, \/ \E p \in FilePaths : cmd_touch(p) \/ cmd_mkdir(p) \/ cmd_rm(p)
                    \/ cmd_rm(BinPath)
    PROVE  FileInv'
<1>1. ASSUME NEW p \in FilePaths, cmd_touch(p) PROVE FileInv'
  <2>1. File(<<>>) \in Entries /\ File(<<>>).data = <<>> /\ p \in Paths /\ p # BinPath
    BY FileFacts, NoText, PathFacts
  <2> QED  BY <1>1, <2>1, GenuineNone, EntryStep DEF cmd_touch
<1>2. ASSUME NEW p \in FilePaths, cmd_mkdir(p) PROVE FileInv'
  <2>1. Dir \in Entries /\ Dir.data = <<>> /\ p \in Paths /\ p # BinPath
    BY FileFacts, PathFacts
  <2> QED  BY <1>2, <2>1, GenuineNone, EntryStep DEF cmd_mkdir
<1>3. ASSUME NEW p \in Paths, cmd_rm(p) PROVE FileInv'
  <2>1. NoFile \in Entries /\ NoFile.data = <<>> /\ NoFile.kind # "file"
    BY FileFacts
  <2> QED  BY <1>3, <2>1, GenuineNone, EntryStep DEF cmd_rm
<1> QED  BY <1>1, <1>2, <1>3, PathFacts

\* The disk as it was: what is asked of the command's next state.
LEMMA QuietStep ==
    ASSUME FileInv, UNCHANGED disk, fcmd' \in Commands, ffds' \subseteq {"in", "out"},
           HoldsNone', PlaceOps', CommandPaths', BufferIs', Reading', Copying', Writing', Moving'
    PROVE  FileInv'
BY DEF FileInv, FileTypes, DiskGenuine, BinSigned

LEMMA OpenSourceStep ==
    ASSUME FileInv, OpenSource
    PROVE  FileInv'
<1>0. FileTypes /\ HoldsNone /\ PlaceOps /\ CommandPaths /\ BufferIs /\ DiskGenuine
  BY DEF FileInv
<1>1. /\ fcmd.pc = "open" /\ fcmd.op \in {"cp", "mv", "show", "pkg", "edit"} /\ fcmd \in Commands
      /\ fcmd.src \in FilePaths /\ fcmd.buf = <<>> /\ fcmd.off = 0 /\ fcmd.kept = <<>> /\ ffds = {} /\ disk' = disk
  BY <1>0 DEF OpenSource, HoldsNone, PlaceOps, CommandPaths, BufferIs, FileTypes
<1>2. PICK d : d = disk[fcmd.src].data
  OBVIOUS
<1>3. d \in Texts /\ Len(d) \in Nat /\ disk[fcmd.src] \in Entries
  BY <1>0, <1>1, <1>2, CommandFacts, PathFacts
<1>4. CASE EndCommand
  BY <1>1, <1>4, EndStep
<1>5. CASE fcmd.op = "edit" /\ Goto("edit") /\ UNCHANGED ffds
  <2>1. fcmd' = [fcmd EXCEPT !.pc = "edit"]
    BY <1>5 DEF Goto
  <2>2. fcmd' \in Commands
    BY <1>1, <2>1 DEF Commands, Places
  <2>3. HoldsNone' /\ PlaceOps' /\ CommandPaths' /\ Reading' /\ Copying' /\ Writing' /\ Moving'
    BY <1>0, <1>1, <1>5, <2>1 DEF HoldsNone, PlaceOps, CommandPaths, Reading, Copying, Writing, Moving, Commands
  <2>4. BufferIs'
    BY <1>1, <1>5, <2>1, GenuineNone DEF BufferIs, Commands
  <2>5. ffds' \subseteq {"in", "out"}
    BY <1>1, <1>5
  <2> QED  BY <1>1, <2>2, <2>3, <2>4, <2>5, QuietStep
<1>6. CASE /\ disk[fcmd.src].kind = "file" /\ ffds' = {"in"}
           /\ fcmd' = [fcmd EXCEPT !.pc = IF fcmd.op \in Copies THEN "create" ELSE "read", !.kept = disk[fcmd.src].data]
  <2>1. disk[fcmd.src] = File(d)
    BY <1>2, <1>3, <1>6 DEF Entries, File
  <2>2. fcmd' \in Commands
    BY <1>1, <1>2, <1>3, <1>6 DEF Commands, Places
  <2>3. SubSeq(d, 1, 0) = <<>>
    BY <1>3, BeginningNone
  <2>4. PICK pc : pc = fcmd'.pc
    OBVIOUS
  <2>5. /\ pc = "create" \/ pc = "read"
        /\ pc = "create" <=> fcmd.op \in {"cp", "mv"}
        /\ fcmd'.pc = pc /\ fcmd'.kept = d /\ fcmd'.op = fcmd.op /\ fcmd'.src = fcmd.src
        /\ fcmd'.dst = fcmd.dst /\ fcmd'.off = 0 /\ fcmd'.buf = <<>>
    BY <1>1, <1>2, <1>6, <2>4 DEF Commands, Copies
  <2>6. HoldsNone' /\ PlaceOps' /\ CommandPaths' /\ BufferIs'
    BY <1>0, <1>1, <1>6, <2>5 DEF HoldsNone, PlaceOps, CommandPaths, BufferIs
  <2>7. Copying' /\ Writing'
    BY <1>1, <2>5 DEF Copying, Writing
  <2>8. Reading'
    BY <1>1, <1>2, <1>3, <2>3, <2>5 DEF Reading
  <2>9. Moving'
    BY <1>1, <2>1, <2>5 DEF Moving
  <2> QED  BY <1>1, <1>6, <2>2, <2>6, <2>7, <2>8, <2>9, QuietStep
<1> QED  BY <1>4, <1>5, <1>6 DEF OpenSource

LEMMA ReadSourceStep ==
    ASSUME FileInv, ReadSource
    PROVE  FileInv'
<1>0. FileTypes /\ HoldsNone /\ PlaceOps /\ CommandPaths /\ BufferIs /\ DiskGenuine /\ Reading /\ Copying /\ Moving
  BY DEF FileInv
<1>1. /\ fcmd.pc = "read" /\ fcmd.op \in {"cp", "mv", "show", "pkg", "edit"} /\ fcmd \in Commands
      /\ fcmd.src \in FilePaths /\ disk' = disk /\ ffds \subseteq {"in", "out"}
      /\ fcmd.off \in Nat /\ fcmd.buf \in Texts /\ fcmd.dst \in Paths /\ fcmd.src \in Paths
  BY <1>0, CommandFacts DEF ReadSource, PlaceOps, CommandPaths, FileTypes
<1>2. PICK d : d = disk[fcmd.src].data
  OBVIOUS
<1>3. d \in Texts /\ Len(d) \in Nat /\ Genuine(d)
  BY <1>0, <1>1, <1>2, CommandFacts DEF DiskGenuine
<1>4. CASE EndCommand
  BY <1>1, <1>4, EndStep
<1>5. CASE fcmd.op \in {"cp", "mv"} /\ fcmd.off >= Len(d) /\ Goto("finish") /\ UNCHANGED ffds
  <2>1. fcmd' = [fcmd EXCEPT !.pc = "finish"]
    BY <1>5 DEF Goto
  <2>2. fcmd' \in Commands
    BY <1>1, <2>1 DEF Commands, Places
  <2>3. HoldsNone' /\ PlaceOps' /\ CommandPaths' /\ BufferIs' /\ Reading' /\ Writing'
    BY <1>0, <1>1, <1>5, <2>1 DEF HoldsNone, PlaceOps, CommandPaths, BufferIs, Reading, Writing, Commands
  <2>4. Moving'
    BY <1>0, <1>1, <1>5, <2>1 DEF Moving, Commands
  <2>5. disk[fcmd.dst].kind = "file" /\ fcmd.off = Len(d) /\ disk[fcmd.dst].data = SubSeq(d, 1, fcmd.off)
    BY <1>0, <1>1, <1>2, <1>3, <1>5 DEF Copying
  <2>6. disk[fcmd.dst].data = d
    BY <1>3, <2>5, BeginningAll
  <2>7. Copying'
    BY <1>1, <1>2, <1>5, <2>1, <2>5, <2>6 DEF Copying, Commands
  <2> QED  BY <1>1, <1>5, <2>2, <2>3, <2>4, <2>7, QuietStep
<1>6. CASE \E pc \in {"check", "edit"} : (pc = "check" <=> fcmd.op = "pkg") /\ (pc = "edit" <=> fcmd.op = "edit")
                                         /\ Goto(pc) /\ ffds' = {}
  <2>0. PICK pc \in {"check", "edit"} : (pc = "check" <=> fcmd.op = "pkg") /\ (pc = "edit" <=> fcmd.op = "edit")
                                         /\ Goto(pc) /\ ffds' = {}
    BY <1>6
  <2>1. fcmd' = [fcmd EXCEPT !.pc = pc]
    BY <2>0 DEF Goto
  <2>2. fcmd' \in Commands
    BY <1>1, <2>1 DEF Commands, Places
  <2>3. fcmd.off <= Len(d) /\ fcmd.buf = SubSeq(d, 1, fcmd.off)
    BY <1>0, <1>1, <1>2, <2>0 DEF Reading
  <2>4. Genuine(fcmd.buf)
    BY <1>1, <1>3, <2>3, GenuineBeginning
  <2>5. /\ fcmd'.pc = pc /\ fcmd'.op = fcmd.op /\ fcmd'.src = fcmd.src
        /\ fcmd'.dst = fcmd.dst /\ fcmd'.buf = fcmd.buf
    BY <1>1, <2>1 DEF Commands
  <2>6. HoldsNone' /\ PlaceOps' /\ CommandPaths' /\ Reading' /\ Writing' /\ Copying' /\ Moving'
    BY <1>0, <1>1, <2>0, <2>5 DEF HoldsNone, PlaceOps, CommandPaths, Reading, Writing, Copying, Moving
  <2>7. BufferIs'
    BY <2>0, <2>4, <2>5 DEF BufferIs
  <2> QED  BY <1>1, <2>0, <2>2, <2>6, <2>7, QuietStep
<1>7. CASE /\ fcmd.off < Len(d)
           /\ fcmd' = [fcmd EXCEPT !.off = @ + 1, !.buf = IF fcmd.op \in Shows THEN <<>> ELSE Append(@, d[fcmd.off + 1]),
                                   !.pc = IF fcmd.op \in Copies THEN "write" ELSE "read"]
           /\ UNCHANGED ffds
  <2>1. fcmd.off \in 0 .. Len(d) - 1 /\ fcmd.off + 1 \in 1 .. Len(d) /\ (fcmd.off + 1) - 1 = fcmd.off
    BY <1>1, <1>3, <1>7
  <2>2. d[fcmd.off + 1] \in Pieces
    BY <1>3, <2>1, LenProperties DEF Texts
  <2>3. PICK b \in Texts : b = IF fcmd.op \in Shows THEN <<>> ELSE Append(fcmd.buf, d[fcmd.off + 1])
    <3>1. <<>> \in Texts /\ Append(fcmd.buf, d[fcmd.off + 1]) \in Texts
      BY <1>1, <2>2, NoText, AppendText
    <3>2. (IF fcmd.op \in Shows THEN <<>> ELSE Append(fcmd.buf, d[fcmd.off + 1])) \in Texts
      BY <3>1
    <3> QED  BY <3>2
  <2>4. /\ fcmd'.pc = (IF fcmd.op \in {"cp", "mv"} THEN "write" ELSE "read") /\ fcmd'.op = fcmd.op /\ fcmd'.src = fcmd.src
        /\ fcmd'.dst = fcmd.dst /\ fcmd'.buf = b /\ fcmd'.off = fcmd.off + 1 /\ fcmd'.kept = fcmd.kept
    BY <1>1, <1>7, <2>3 DEF Commands, Copies
  <2>5. fcmd' \in Commands
    <3>1. fcmd' = [fcmd EXCEPT !.off = fcmd.off + 1, !.buf = b, !.pc = IF fcmd.op \in Copies THEN "write" ELSE "read"]
      BY <1>1, <1>7, <2>3 DEF Commands
    <3>2. fcmd.off + 1 \in Nat
      BY <1>1
    <3> QED  BY <1>1, <2>3, <3>1, <3>2 DEF Commands, Places
  <2>6. HoldsNone' /\ PlaceOps' /\ CommandPaths' /\ Writing' /\ BufferIs'
    BY <1>0, <1>1, <2>4 DEF HoldsNone, PlaceOps, CommandPaths, Writing, BufferIs
  <2>7. Moving'
    BY <1>0, <1>1, <2>4 DEF Moving
  <2>8. Reading'
    <3>1. ASSUME fcmd.op \in {"pkg", "edit"} PROVE b = SubSeq(d, 1, fcmd.off + 1)
      <4>1. fcmd.buf = SubSeq(d, 1, fcmd.off)
        BY <1>0, <1>1, <1>2, <3>1 DEF Reading
      <4>2. Append(SubSeq(d, 1, fcmd.off), d[fcmd.off + 1]) = SubSeq(d, 1, fcmd.off + 1)
        BY <1>3, <2>1, BeginningGrows
      <4> QED  BY <2>3, <3>1, <4>1, <4>2 DEF Shows
    <3> QED  BY <1>1, <1>2, <1>3, <2>1, <2>4, <3>1 DEF Reading
  <2>9. Copying'
    <3>1. ASSUME fcmd.op \in {"cp", "mv"}
          PROVE  /\ fcmd.src # fcmd.dst /\ b = <<d[fcmd.off + 1]>> /\ disk[fcmd.dst].kind = "file"
                 /\ disk[fcmd.dst].data = SubSeq(d, 1, fcmd.off)
      <4>1. disk[fcmd.dst].kind = "file" /\ disk[fcmd.dst].data = SubSeq(d, 1, fcmd.off) /\ fcmd.buf = <<>>
        BY <1>0, <1>1, <1>2, <3>1 DEF Copying, BufferIs
      <4>2. Len(SubSeq(d, 1, fcmd.off)) = fcmd.off
        BY <1>3, <2>1, Beginning
      <4>3. fcmd.src # fcmd.dst
        <5> SUFFICES ASSUME fcmd.src = fcmd.dst PROVE FALSE
          OBVIOUS
        <5>1. d = SubSeq(d, 1, fcmd.off)
          BY <1>2, <4>1
        <5>2. Len(d) = fcmd.off
          BY <4>2, <5>1
        <5> QED  BY <1>3, <2>1, <5>2
      <4>4. b = <<d[fcmd.off + 1]>>
        BY <2>3, <3>1, <4>1 DEF Shows
      <4> QED  BY <4>1, <4>3, <4>4
    <3> QED  BY <1>1, <1>2, <2>1, <2>4, <3>1 DEF Copying
  <2> QED  BY <1>1, <1>7, <2>5, <2>6, <2>7, <2>8, <2>9, QuietStep
<1> QED
  <2>1. \/ EndCommand
        \/ fcmd.op \in {"cp", "mv"} /\ fcmd.off >= Len(d) /\ Goto("finish") /\ UNCHANGED ffds
        \/ fcmd.op = "pkg" /\ Goto("check") /\ ffds' = {}
        \/ fcmd.op = "edit" /\ Goto("edit") /\ ffds' = {}
        \/ /\ fcmd.off < Len(d)
           /\ fcmd' = [fcmd EXCEPT !.off = @ + 1, !.buf = IF fcmd.op \in Shows THEN <<>> ELSE Append(@, d[fcmd.off + 1]),
                                   !.pc = IF fcmd.op \in Copies THEN "write" ELSE "read"]
           /\ UNCHANGED ffds
    BY <1>1, <1>2 DEF ReadSource, Copies, Shows
  <2> QED  BY <1>4, <1>5, <1>6, <1>7, <2>1

\* A command goes to another place with the disk, its paths and its source as they were, and
\* neither a read nor a write of it pending.
LEMMA GotoStep ==
    ASSUME FileInv, UNCHANGED disk, fcmd.op \notin {"cp", "mv"}, fcmd.pc # "idle",
           NEW pc \in {"create", "typing", "edit", "finish"}, NEW b \in Texts,
           fcmd' = [fcmd EXCEPT !.pc = pc, !.buf = b],
           ffds' \subseteq {"in", "out"}, pc \in {"typing", "edit"} => ffds' = {},
           pc = "create" => fcmd.op \in {"pkg", "edit", "write"},
           pc = "finish" => fcmd.op \in {"pkg", "write"},
           pc = "typing" => fcmd.op = "write", pc = "edit" => fcmd.op = "edit",
           pc # "finish" /\ fcmd.op \in {"edit", "write"} => Genuine(b),
           pc # "finish" /\ fcmd.op = "pkg" => Verified(b)
    PROVE  FileInv'
<1>0. FileTypes /\ PlaceOps /\ CommandPaths
  BY DEF FileInv
<1>1. fcmd \in Commands
  BY <1>0 DEF FileTypes
<1>2. fcmd' \in Commands
  BY <1>1 DEF Commands, Places
<1>3. fcmd'.op = fcmd.op /\ fcmd'.src = fcmd.src /\ fcmd'.dst = fcmd.dst /\ fcmd'.buf = b /\ fcmd'.pc = pc
  BY <1>1 DEF Commands
<1>4. HoldsNone' /\ PlaceOps' /\ Reading' /\ Copying' /\ Writing' /\ Moving'
  BY <1>3 DEF HoldsNone, PlaceOps, Reading, Copying, Writing, Moving
<1>5. CommandPaths'
  BY <1>0, <1>3 DEF CommandPaths
<1>6. BufferIs'
  BY <1>3 DEF BufferIs
<1> QED  BY <1>2, <1>4, <1>5, <1>6, QuietStep

LEMMA CheckPackageStep ==
    ASSUME FileInv, CheckPackage
    PROVE  FileInv'
<1>0. FileTypes /\ PlaceOps /\ BufferIs /\ HoldsNone
  BY DEF FileInv
<1>1. fcmd.pc = "check" /\ fcmd.op = "pkg" /\ Genuine(fcmd.buf) /\ fcmd.buf \in Texts /\ ffds = {} /\ disk' = disk
  BY <1>0, CommandFacts DEF CheckPackage, PlaceOps, BufferIs, HoldsNone
<1>2. CASE EndCommand
  BY <1>1, <1>2, EndStep
<1>3. CASE /\ pkg_parse(fcmd.buf) /\ pkg_verify(fcmd.buf)
           /\ fcmd' = [fcmd EXCEPT !.pc = "create", !.buf = Payload(@)] /\ UNCHANGED ffds
  <2>1. Verified(Payload(fcmd.buf)) /\ Payload(fcmd.buf) \in Texts
    BY <1>1, <1>3, GenuinePackage
  <2>2. PICK b \in Texts : b = Payload(fcmd.buf)
    BY <2>1
  <2>3. fcmd' = [fcmd EXCEPT !.pc = "create", !.buf = b]
    BY <1>0, <1>3, <2>2 DEF FileTypes, Commands
  <2>4. Verified(b)
    BY <2>1, <2>2
  <2> QED  BY <1>1, <1>3, <2>3, <2>4, GotoStep
<1> QED  BY <1>2, <1>3 DEF CheckPackage

LEMMA WriteLineStep ==
    ASSUME FileInv, WriteLine \/ WriteDot
    PROVE  FileInv'
<1>0. FileTypes /\ PlaceOps /\ BufferIs /\ HoldsNone
  BY DEF FileInv
<1>1. fcmd.pc = "typing" /\ fcmd.op = "write" /\ Genuine(fcmd.buf) /\ fcmd.buf \in Texts /\ ffds = {} /\ disk' = disk
  BY <1>0, CommandFacts DEF WriteLine, WriteDot, PlaceOps, BufferIs, HoldsNone
<1>2. CASE EndCommand
  BY <1>1, <1>2, EndStep
<1>3. CASE fcmd' = [fcmd EXCEPT !.buf = Append(@, "x")] /\ UNCHANGED ffds
  <2>1. PICK b \in Texts : b = Append(fcmd.buf, "x")
    BY <1>1, GenuineTyped
  <2>2. Genuine(b)
    BY <1>1, <2>1, GenuineTyped
  <2>3. fcmd' = [fcmd EXCEPT !.pc = "typing", !.buf = b]
    BY <1>0, <1>1, <1>3, <2>1 DEF FileTypes, Commands
  <2> QED  BY <1>1, <1>3, <2>2, <2>3, GotoStep
<1>4. CASE WriteDot
  <2>1. fcmd' = [fcmd EXCEPT !.pc = "create", !.buf = fcmd.buf] /\ ffds' = ffds
    BY <1>0, <1>4 DEF FileTypes, Commands, WriteDot, Goto
  <2> QED  BY <1>1, <2>1, GotoStep
<1> QED  BY <1>2, <1>3, <1>4 DEF WriteLine

LEMMA EditKeyStep ==
    ASSUME FileInv, EditKey
    PROVE  FileInv'
<1>0. FileTypes /\ PlaceOps /\ BufferIs /\ HoldsNone
  BY DEF FileInv
<1>1. fcmd.pc = "edit" /\ fcmd.op = "edit" /\ Genuine(fcmd.buf) /\ fcmd.buf \in Texts /\ ffds = {} /\ disk' = disk /\ ffds' = ffds
  BY <1>0, CommandFacts DEF EditKey, PlaceOps, BufferIs, HoldsNone
<1>2. CASE fcmd' = [fcmd EXCEPT !.buf = Append(@, "x")]
  <2>1. PICK b \in Texts : b = Append(fcmd.buf, "x")
    BY <1>1, GenuineTyped
  <2>2. Genuine(b)
    BY <1>1, <2>1, GenuineTyped
  <2>3. fcmd' = [fcmd EXCEPT !.pc = "edit", !.buf = b]
    BY <1>0, <1>1, <1>2, <2>1 DEF FileTypes, Commands
  <2> QED  BY <1>1, <2>2, <2>3, GotoStep
<1>3. CASE fcmd.buf # <<>> /\ fcmd' = [fcmd EXCEPT !.buf = Front(@)]
  <2>1. Len(fcmd.buf) \in Nat /\ Len(fcmd.buf) # 0
    <3>1. Len(fcmd.buf) \in Nat
      BY <1>0, CommandFacts
    <3>2. Len(fcmd.buf) # 0
      BY <1>1, <1>3, NoText, SameTexts
    <3> QED  BY <3>1, <3>2
  <2>2. Len(fcmd.buf) - 1 \in 0 .. Len(fcmd.buf)
    BY <2>1
  <2>3. PICK b \in Texts : b = SubSeq(fcmd.buf, 1, Len(fcmd.buf) - 1)
    BY <1>1, <2>2, Beginning
  <2>4. Genuine(b)
    BY <1>1, <2>2, <2>3, GenuineBeginning
  <2>5. fcmd' = [fcmd EXCEPT !.pc = "edit", !.buf = b]
    BY <1>0, <1>1, <1>3, <2>3 DEF FileTypes, Commands, Front
  <2> QED  BY <1>1, <2>4, <2>5, GotoStep
<1>4. CASE Goto("create")
  <2>1. fcmd' = [fcmd EXCEPT !.pc = "create", !.buf = fcmd.buf]
    BY <1>0, <1>4 DEF FileTypes, Commands, Goto
  <2> QED  BY <1>1, <2>1, GotoStep
<1>5. CASE fcmd' = NoCommand
  <2>1. fcmd' \in Commands
    BY <1>5, NoText DEF NoCommand, Commands, Places, Ops, Paths
  <2>2. HoldsNone'
    BY <1>1 DEF HoldsNone
  <2>3. PlaceOps' /\ Reading' /\ Copying' /\ Writing' /\ CommandPaths' /\ BufferIs' /\ Moving'
    BY <1>5 DEF PlaceOps, Reading, Copying, Writing, CommandPaths, BufferIs, Moving, NoCommand
  <2> QED  BY <1>1, <2>1, <2>2, <2>3, QuietStep
<1> QED  BY <1>2, <1>3, <1>4, <1>5 DEF EditKey

LEMMA FinishStep ==
    ASSUME FileInv, Finish
    PROVE  FileInv'
<1>0. FileTypes /\ PlaceOps /\ CommandPaths /\ Copying /\ Moving /\ DiskGenuine /\ BinSigned
  BY DEF FileInv
<1>1. fcmd.pc = "finish" /\ EndCommand
  BY DEF Finish
<1>2. CASE UNCHANGED disk
  BY <1>1, <1>2, EndStep
<1>3. CASE fcmd.op = "mv" /\ disk' = [disk EXCEPT ![fcmd.src] = NoFile]
  <2>1. /\ fcmd.src \in FilePaths /\ fcmd.dst \in FilePaths /\ disk \in [Paths -> Entries] /\ fcmd \in Commands
        /\ fcmd.src \in Paths /\ fcmd.dst \in Paths
    BY <1>0, <1>1, <1>3, PathFacts DEF CommandPaths, FileTypes
  <2>2. fcmd' \in Commands /\ fcmd'.pc = "idle" /\ fcmd'.op = "mv" /\ fcmd'.src = fcmd.src /\ fcmd'.dst = fcmd.dst
        /\ fcmd'.kept = fcmd.kept /\ ffds' = {}
    BY <1>1, <1>3, <2>1 DEF EndCommand, Goto, Commands, Places
  <2>3. disk' \in [Paths -> Entries] /\ disk'[fcmd.src] = NoFile /\ \A p \in Paths : p # fcmd.src => disk'[p] = disk[p]
    BY <1>3, <2>1, FileFacts
  <2>4. FileTypes'
    BY <2>2, <2>3 DEF FileTypes
  <2>5. HoldsNone' /\ PlaceOps' /\ CommandPaths' /\ BufferIs' /\ Reading' /\ Copying' /\ Writing'
    BY <2>2 DEF HoldsNone, PlaceOps, CommandPaths, BufferIs, Reading, Copying, Writing
  <2>6. DiskGenuine'
    BY <1>0, <2>3, FileFacts, GenuineNone, PathFacts DEF DiskGenuine
  <2>7. BinSigned'
    BY <1>0, <2>1, <2>3, PathFacts DEF BinSigned
  <2>8. Moving'
    <3>1. ASSUME fcmd.src # fcmd.dst PROVE disk'[fcmd.dst] = File(fcmd.kept)
      <4>1. disk[fcmd.src] = File(fcmd.kept)
        BY <1>0, <1>1, <1>3, <3>1 DEF Moving
      <4>2. disk[fcmd.dst].kind = "file" /\ disk[fcmd.dst].data = disk[fcmd.src].data /\ disk[fcmd.dst] \in Entries
        BY <1>0, <1>1, <1>3, <2>1 DEF Copying
      <4>3. disk[fcmd.dst] = File(fcmd.kept)
        BY <4>1, <4>2 DEF File, Entries
      <4> QED  BY <2>1, <2>3, <3>1, <4>3
    <3> QED  BY <2>2, <3>1 DEF Moving
  <2> QED  BY <2>4, <2>5, <2>6, <2>7, <2>8 DEF FileInv
<1> QED  BY <1>2, <1>3 DEF Finish

\* A command's output cannot be opened or written, or the editor's is complete.
LEMMA OutputEnds ==
    ASSUME FileInv, UNCHANGED disk, fcmd.pc \in {"create", "write"}, NEW done \in BOOLEAN, AfterOutput(done),
           done => fcmd.op \notin {"cp", "mv"}
    PROVE  FileInv'
<1>0. FileTypes /\ PlaceOps /\ BufferIs
  BY DEF FileInv
<1>1. fcmd.op \in {"cp", "mv", "pkg", "edit", "write"} /\ fcmd.buf \in Texts /\ ffds \subseteq {"in", "out"}
  BY <1>0, CommandFacts DEF PlaceOps, FileTypes
<1>2. CASE EndCommand
  BY <1>2, EndStep
<1>3. CASE fcmd.op = "edit" /\ Goto("edit") /\ ffds' = {}
  <2>1. fcmd' = [fcmd EXCEPT !.pc = "edit", !.buf = fcmd.buf] /\ Genuine(fcmd.buf)
    BY <1>0, <1>3 DEF FileTypes, Commands, Goto, BufferIs
  <2> QED  BY <1>1, <1>3, <2>1, GotoStep
<1>4. CASE fcmd.op \in {"pkg", "write"} /\ Goto("finish") /\ UNCHANGED ffds
  <2>1. fcmd' = [fcmd EXCEPT !.pc = "finish", !.buf = fcmd.buf]
    BY <1>0, <1>4 DEF FileTypes, Commands, Goto
  <2> QED  BY <1>1, <1>4, <2>1, GotoStep
<1> QED  BY <1>1, <1>2, <1>3, <1>4 DEF AfterOutput

\* The target gets a text that its command may leave there.
LEMMA TargetWritten ==
    ASSUME FileInv, fcmd.pc \in {"create", "write"}, NEW t \in Texts, disk' = [disk EXCEPT ![fcmd.dst] = File(t)],
           fcmd.op \in {"cp", "mv", "edit", "write"} => Genuine(t),
           fcmd.op = "pkg" => \E d \in Sources : pkg_parse(d) /\ pkg_verify(d) /\ IsPrefix(t, Payload(d))
    PROVE  /\ disk' \in [Paths -> Entries] /\ DiskGenuine' /\ BinSigned'
           /\ disk'[fcmd.dst] = File(t) /\ \A p \in Paths : p # fcmd.dst => disk'[p] = disk[p]
<1>0. FileTypes /\ PlaceOps /\ CommandPaths /\ DiskGenuine /\ BinSigned
  BY DEF FileInv
<1>1. disk \in [Paths -> Entries] /\ fcmd.dst \in Paths /\ fcmd.op \in {"cp", "mv", "pkg", "edit", "write"}
  BY <1>0, CommandFacts DEF FileTypes, PlaceOps
<1>2. File(t) \in Entries /\ File(t).data = t
  BY FileFacts
<1>3. disk' \in [Paths -> Entries] /\ disk'[fcmd.dst] = File(t) /\ \A p \in Paths : p # fcmd.dst => disk'[p] = disk[p]
  BY <1>1, <1>2
<1>4. fcmd.op = "pkg" => fcmd.dst = BinPath
  BY <1>0 DEF CommandPaths
<1>5. fcmd.op # "pkg" => fcmd.dst \in FilePaths
  BY <1>0, <1>1 DEF CommandPaths
<1>6. DiskGenuine'
  <2>1. ASSUME NEW p \in FilePaths PROVE Genuine(disk'[p].data)
    <3>1. CASE p # fcmd.dst
      BY <1>0, <1>3, <3>1, PathFacts DEF DiskGenuine
    <3>2. CASE p = fcmd.dst
      BY <1>1, <1>2, <1>3, <1>4, <3>2, PathFacts
    <3> QED  BY <3>1, <3>2
  <2> QED  BY <2>1 DEF DiskGenuine
<1>7. BinSigned'
  <2>1. CASE fcmd.op = "pkg"
    BY <1>2, <1>3, <1>4, <2>1 DEF BinSigned
  <2>2. CASE fcmd.op # "pkg"
    BY <1>0, <1>3, <1>5, <2>2, PathFacts DEF BinSigned
  <2> QED  BY <2>1, <2>2
<1> QED  BY <1>3, <1>6, <1>7

LEMMA CreateTargetStep ==
    ASSUME FileInv, CreateTarget
    PROVE  FileInv'
<1>0. FileTypes /\ PlaceOps /\ CommandPaths /\ BufferIs /\ Moving
  BY DEF FileInv
<1>1. /\ fcmd.pc = "create" /\ fcmd.op \in {"cp", "mv", "pkg", "edit", "write"} /\ fcmd \in Commands
      /\ fcmd.src \in Paths /\ fcmd.dst \in Paths /\ fcmd.buf \in Texts /\ ffds \subseteq {"in", "out"}
  BY <1>0, CommandFacts DEF CreateTarget, PlaceOps, FileTypes
<1>2. CASE UNCHANGED disk /\ AfterOutput(FALSE)
  BY <1>1, <1>2, OutputEnds
<1>3. CASE disk' = [disk EXCEPT ![fcmd.dst] = File(<<>>)]
  <2>1. /\ disk' \in [Paths -> Entries] /\ DiskGenuine' /\ BinSigned'
        /\ disk'[fcmd.dst] = File(<<>>) /\ \A p \in Paths : p # fcmd.dst => disk'[p] = disk[p]
    <3>1. fcmd.op = "pkg" => \E d \in Sources : pkg_parse(d) /\ pkg_verify(d) /\ IsPrefix(<<>>, Payload(d))
      <4>1. SubSeq(fcmd.buf, 1, 0) = <<>>
        BY <1>1, BeginningNone
      <4>2. 0 \in 0 .. Len(fcmd.buf)
        BY <1>0, CommandFacts
      <4>3. fcmd.op = "pkg" => Verified(fcmd.buf)
        BY <1>0, <1>1 DEF BufferIs
      <4> QED  BY <1>1, <4>1, <4>2, <4>3, VerifiedBeginning
    <3> QED  BY <1>1, <1>3, <3>1, NoText, GenuineNone, TargetWritten
  <2>2. disk'[fcmd.dst].kind = "file" /\ disk'[fcmd.dst].data = <<>>
    BY <2>1, NoText, FileFacts
  <2>3. fcmd.op = "mv" /\ fcmd.src # fcmd.dst => disk'[fcmd.src] = File(fcmd.kept)
    BY <1>0, <1>1, <2>1 DEF Moving
  <2>4. CASE /\ ffds' = ffds \cup {"out"}
             /\ fcmd' = [fcmd EXCEPT !.pc = IF fcmd.op \in Copies THEN "read" ELSE "write", !.off = 0]
    <3>1. fcmd' \in Commands /\ ffds' \subseteq {"in", "out"}
      BY <1>1, <2>4 DEF Commands, Places
    <3>2. /\ fcmd'.pc = (IF fcmd.op \in {"cp", "mv"} THEN "read" ELSE "write") /\ fcmd'.off = 0 /\ fcmd'.op = fcmd.op
          /\ fcmd'.src = fcmd.src /\ fcmd'.dst = fcmd.dst /\ fcmd'.buf = fcmd.buf /\ fcmd'.kept = fcmd.kept
      BY <1>1, <2>4 DEF Commands, Copies
    <3>3. HoldsNone' /\ PlaceOps' /\ CommandPaths' /\ BufferIs' /\ Reading'
      BY <1>0, <1>1, <3>2 DEF HoldsNone, PlaceOps, CommandPaths, BufferIs, Reading
    <3>4. Moving'
      BY <1>1, <2>3, <3>2 DEF Moving
    <3>5. Writing'
      <4>1. SubSeq(fcmd.buf, 1, 0) = <<>> /\ Len(fcmd.buf) \in Nat
        BY <1>0, <1>1, BeginningNone, CommandFacts
      <4>2. ASSUME fcmd'.pc = "write" PROVE /\ fcmd'.off <= Len(fcmd'.buf) /\ disk'[fcmd'.dst].kind = "file"
                                            /\ disk'[fcmd'.dst].data = SubSeq(fcmd'.buf, 1, fcmd'.off)
        <5>1. fcmd'.off <= Len(fcmd'.buf)
          BY <3>2, <4>1
        <5>2. SubSeq(fcmd'.buf, 1, fcmd'.off) = <<>>
          BY <3>2, <4>1, Zenon
        <5> QED  BY <2>2, <3>2, <5>1, <5>2
      <4> QED  BY <4>2 DEF Writing
    <3>6. Copying'
      <4>1. PICK d : d = disk'[fcmd.src].data
        OBVIOUS
      <4>2. d \in Texts /\ Len(d) \in Nat
        BY <1>1, <2>1, <4>1, LenProperties DEF Entries, Texts
      <4>3. SubSeq(d, 1, 0) = <<>>
        BY <4>2, BeginningNone
      <4>4. /\ fcmd'.off <= Len(d) /\ disk'[fcmd'.dst].kind = "file"
            /\ fcmd.op \in {"cp", "mv"} => fcmd'.pc \notin {"write", "finish"}
        BY <1>1, <2>2, <3>2, <4>2
      <4>5. disk'[fcmd'.dst].data = SubSeq(disk'[fcmd'.src].data, 1, fcmd'.off)
        <5>1. disk'[fcmd'.src].data = d /\ fcmd'.off = 0 /\ disk'[fcmd'.dst].data = <<>>
          BY <2>2, <3>2, <4>1
        <5> QED  BY <4>3, <5>1, Zenon
      <4>6. fcmd'.op = fcmd.op /\ disk'[fcmd'.src].data = d
        BY <3>2, <4>1
      <4> QED  BY <4>4, <4>5, <4>6 DEF Copying
    <3> QED  BY <2>1, <3>1, <3>3, <3>4, <3>5, <3>6 DEF FileInv, FileTypes
  <2>5. CASE AfterOutput(FALSE)
    <3>1. /\ ffds' = {} /\ fcmd' = [fcmd EXCEPT !.pc = IF fcmd.op = "edit" THEN "edit" ELSE "idle"]
      BY <2>5 DEF AfterOutput, EndCommand, Goto
    <3>2. fcmd' \in Commands
      BY <1>1, <3>1 DEF Commands, Places
    <3>3. /\ fcmd'.pc = (IF fcmd.op = "edit" THEN "edit" ELSE "idle") /\ fcmd'.op = fcmd.op /\ fcmd'.src = fcmd.src
          /\ fcmd'.dst = fcmd.dst /\ fcmd'.buf = fcmd.buf /\ fcmd'.kept = fcmd.kept
      BY <1>1, <3>1 DEF Commands
    <3>4. HoldsNone' /\ PlaceOps' /\ CommandPaths' /\ Reading' /\ Copying' /\ Writing'
      BY <1>0, <1>1, <3>1, <3>3 DEF HoldsNone, PlaceOps, CommandPaths, Reading, Copying, Writing
    <3>5. BufferIs'
      BY <1>0, <1>1, <3>3 DEF BufferIs
    <3>6. Moving'
      BY <1>1, <2>3, <3>3 DEF Moving
    <3> QED  BY <2>1, <3>1, <3>2, <3>4, <3>5, <3>6 DEF FileInv, FileTypes
  <2> QED  BY <1>1, <1>2, <1>3, <2>4, <2>5 DEF CreateTarget
<1> QED  BY <1>2, <1>3 DEF CreateTarget

LEMMA WriteTargetStep ==
    ASSUME FileInv, WriteTarget
    PROVE  FileInv'
<1>0. FileTypes /\ PlaceOps /\ CommandPaths /\ BufferIs /\ Moving /\ Copying /\ Writing /\ DiskGenuine
  BY DEF FileInv
<1>1. /\ fcmd.pc = "write" /\ fcmd.op \in {"cp", "mv", "pkg", "edit", "write"} /\ fcmd \in Commands /\ fcmd.off \in Nat
      /\ fcmd.src \in Paths /\ fcmd.dst \in Paths /\ fcmd.buf \in Texts /\ ffds \subseteq {"in", "out"} /\ Len(fcmd.buf) \in Nat
  BY <1>0, CommandFacts DEF WriteTarget, PlaceOps, FileTypes
<1>2. disk \in [Paths -> Entries] /\ disk[fcmd.dst] \in Entries /\ disk[fcmd.dst].kind = "file"
  BY <1>0, <1>1 DEF FileTypes, Copying, Writing
<1>3. CASE fcmd.op \in {"cp", "mv"}
  <2>1. PICK d : d = disk[fcmd.src].data
    OBVIOUS
  <2>2. d \in Texts /\ Len(d) \in Nat /\ Genuine(d)
    BY <1>0, <1>1, <1>3, <2>1, CommandFacts DEF DiskGenuine, CommandPaths
  <2>3. PICK o : o = fcmd.off
    OBVIOUS
  <2>4. /\ fcmd.src # fcmd.dst /\ o \in 1 .. Len(d) /\ fcmd.buf = <<d[o]>>
        /\ disk[fcmd.dst].data = SubSeq(d, 1, o - 1)
    BY <1>0, <1>1, <1>3, <2>1, <2>3 DEF Copying
  <2>5. Len(fcmd.buf) = 1 /\ fcmd.buf[1] = d[o]
    BY <2>4
  <2>6. CASE UNCHANGED disk /\ AfterOutput(FALSE)
    BY <1>1, <2>6, OutputEnds
  <2>7. CASE /\ disk' = [disk EXCEPT ![fcmd.dst].data = Append(@, fcmd.buf[1])]
             /\ fcmd' = [fcmd EXCEPT !.buf = <<>>, !.pc = "read"] /\ UNCHANGED ffds
    <3>1. o - 1 \in 0 .. Len(d) - 1 /\ (o - 1) + 1 = o /\ o \in 0 .. Len(d)
      BY <2>2, <2>4
    <3>2. PICK k : k = o - 1
      OBVIOUS
    <3>3. Append(SubSeq(d, 1, k), d[k + 1]) = SubSeq(d, 1, k + 1)
      BY <2>2, <3>1, <3>2, BeginningGrows
    <3>4. Append(disk[fcmd.dst].data, fcmd.buf[1]) = SubSeq(d, 1, o)
      BY <2>4, <2>5, <3>1, <3>2, <3>3
    <3>5. PICK t \in Texts : t = SubSeq(d, 1, o)
      BY <2>2, <3>1, Beginning
    <3>6. Genuine(t)
      BY <2>2, <3>1, <3>5, GenuineBeginning
    <3>7. disk' = [disk EXCEPT ![fcmd.dst] = File(t)]
      <4>1. [disk[fcmd.dst] EXCEPT !.data = Append(@, fcmd.buf[1])] = File(t)
        BY <1>2, <3>4, <3>5, DataReplaced
      <4>2. disk' = [disk EXCEPT ![fcmd.dst] = [disk[fcmd.dst] EXCEPT !.data = Append(@, fcmd.buf[1])]]
        BY <1>1, <1>2, <2>7
      <4> QED  BY <4>1, <4>2
    <3>8. /\ disk' \in [Paths -> Entries] /\ DiskGenuine' /\ BinSigned'
          /\ disk'[fcmd.dst] = File(t) /\ \A p \in Paths : p # fcmd.dst => disk'[p] = disk[p]
      BY <1>1, <1>3, <3>6, <3>7, TargetWritten
    <3>9. disk'[fcmd.src] = disk[fcmd.src] /\ disk'[fcmd.dst].kind = "file" /\ disk'[fcmd.dst].data = t
      BY <1>1, <2>4, <3>8, FileFacts
    <3>10. fcmd' \in Commands
      BY <1>1, <2>7, NoText DEF Commands, Places
    <3>11. /\ fcmd'.pc = "read" /\ fcmd'.op = fcmd.op /\ fcmd'.src = fcmd.src /\ fcmd'.off = o
           /\ fcmd'.dst = fcmd.dst /\ fcmd'.buf = <<>> /\ fcmd'.kept = fcmd.kept
      BY <1>1, <2>3, <2>7 DEF Commands
    <3>12. HoldsNone' /\ PlaceOps' /\ CommandPaths' /\ BufferIs' /\ Reading' /\ Writing'
      BY <1>0, <1>1, <1>3, <3>11 DEF HoldsNone, PlaceOps, CommandPaths, BufferIs, Reading, Writing
    <3>13. Copying'
      BY <1>3, <2>1, <2>2, <3>1, <3>5, <3>9, <3>11 DEF Copying
    <3>14. Moving'
      BY <1>0, <1>1, <3>9, <3>11 DEF Moving
    <3> QED  BY <1>1, <2>7, <3>8, <3>10, <3>12, <3>13, <3>14 DEF FileInv, FileTypes
  <2> QED
    <3>1. \/ 1 > Len(fcmd.buf)
          \/ UNCHANGED disk /\ AfterOutput(FALSE)
          \/ /\ disk' = [disk EXCEPT ![fcmd.dst].data = Append(@, fcmd.buf[1])]
             /\ fcmd' = [fcmd EXCEPT !.buf = <<>>, !.pc = "read"] /\ UNCHANGED ffds
      BY <1>3 DEF WriteTarget, Copies
    <3>2. ~(1 > Len(fcmd.buf))
      BY <2>5
    <3> QED  BY <2>6, <2>7, <3>1, <3>2
<1>4. CASE fcmd.op \in {"pkg", "edit", "write"}
  <2>1. PICK b \in Texts : b = fcmd.buf
    BY <1>1
  <2>2. PICK o \in Nat : o = fcmd.off
    BY <1>1
  <2>3. o <= Len(b) /\ disk[fcmd.dst].data = SubSeq(b, 1, o) /\ Len(b) \in Nat
    BY <1>0, <1>1, <1>4, <2>1, <2>2 DEF Writing
  <2>4. CASE UNCHANGED disk /\ \E done \in BOOLEAN : AfterOutput(done)
    BY <1>1, <1>4, <2>4, OutputEnds
  <2>5. CASE /\ o + 1 <= Len(b)
             /\ disk' = [disk EXCEPT ![fcmd.dst].data = Append(@, b[o + 1])]
             /\ fcmd' = [fcmd EXCEPT !.off = @ + 1] /\ UNCHANGED ffds
    <3>1. o \in 0 .. Len(b) - 1 /\ o + 1 \in 0 .. Len(b) /\ o + 1 \in Nat
      BY <2>3, <2>5
    <3>2. Append(disk[fcmd.dst].data, b[o + 1]) = SubSeq(b, 1, o + 1)
      BY <2>3, <3>1, BeginningGrows
    <3>3. PICK t \in Texts : t = SubSeq(b, 1, o + 1)
      BY <3>1, Beginning
    <3>4. fcmd.op \in {"edit", "write"} => Genuine(t)
      BY <1>0, <1>1, <2>1, <3>1, <3>3, GenuineBeginning DEF BufferIs
    <3>5. fcmd.op = "pkg" => \E d \in Sources : pkg_parse(d) /\ pkg_verify(d) /\ IsPrefix(t, Payload(d))
      <4>1. fcmd.op = "pkg" => Verified(b)
        BY <1>0, <1>1, <2>1 DEF BufferIs
      <4> QED  BY <3>1, <3>3, <4>1, VerifiedBeginning
    <3>6. disk' = [disk EXCEPT ![fcmd.dst] = File(t)]
      <4>1. [disk[fcmd.dst] EXCEPT !.data = Append(@, b[o + 1])] = File(t)
        BY <1>2, <3>2, <3>3, DataReplaced
      <4>2. disk' = [disk EXCEPT ![fcmd.dst] = [disk[fcmd.dst] EXCEPT !.data = Append(@, b[o + 1])]]
        BY <1>1, <1>2, <2>5
      <4> QED  BY <4>1, <4>2
    <3>7. /\ disk' \in [Paths -> Entries] /\ DiskGenuine' /\ BinSigned' /\ disk'[fcmd.dst] = File(t)
      BY <1>1, <1>4, <3>4, <3>5, <3>6, TargetWritten
    <3>8. disk'[fcmd.dst].kind = "file" /\ disk'[fcmd.dst].data = t
      BY <3>7, FileFacts
    <3>9. fcmd' \in Commands
      BY <1>1, <2>5 DEF Commands
    <3>10. /\ fcmd'.pc = "write" /\ fcmd'.op = fcmd.op /\ fcmd'.src = fcmd.src /\ fcmd'.off = o + 1
           /\ fcmd'.dst = fcmd.dst /\ fcmd'.buf = b
      BY <1>1, <2>1, <2>2, <2>5 DEF Commands
    <3>11. HoldsNone' /\ PlaceOps' /\ CommandPaths' /\ Reading' /\ Copying' /\ Moving'
      BY <1>0, <1>1, <1>4, <3>10 DEF HoldsNone, PlaceOps, CommandPaths, Reading, Copying, Moving
    <3>12. BufferIs'
      BY <1>0, <1>1, <1>4, <2>1, <3>10 DEF BufferIs
    <3>13. Writing'
      BY <2>5, <3>3, <3>8, <3>10 DEF Writing
    <3> QED  BY <1>1, <2>5, <3>7, <3>9, <3>11, <3>12, <3>13 DEF FileInv, FileTypes
  <2> QED
    <3>1. \/ UNCHANGED disk /\ \E done \in BOOLEAN : AfterOutput(done)
          \/ /\ ~(o + 1 > Len(b))
             /\ disk' = [disk EXCEPT ![fcmd.dst].data = Append(@, b[o + 1])]
             /\ fcmd' = [fcmd EXCEPT !.off = @ + 1] /\ UNCHANGED ffds
      BY <1>4, <2>1, <2>2 DEF WriteTarget, Copies
    <3> QED  BY <2>3, <2>4, <2>5, <3>1
<1> QED  BY <1>1, <1>3, <1>4

LEMMA FileInitStep == FileInit => FileInv
<1> SUFFICES ASSUME FileInit PROVE FileInv
  OBVIOUS
<1>1. disk \in StartFiles /\ fcmd = NoCommand /\ ffds = {}
  BY DEF FileInit
<1>2. disk \in [Paths -> Entries] /\ disk[BinPath].kind # "file"
  BY <1>1, FileConstants DEF Paths, Entries, Texts
<1>3. fcmd \in Commands
  BY <1>1, NoText DEF NoCommand, Commands, Places, Ops, Paths
<1>4. FileTypes
  BY <1>1, <1>2, <1>3 DEF FileTypes
<1>5. DiskGenuine
  <2>1. \A p \in FilePaths : disk[p].data \in Sources
    BY <1>1 DEF Sources
  <2> QED  BY <2>1, GenuineSource DEF DiskGenuine
<1>6. BinSigned
  BY <1>2 DEF BinSigned
<1>7. HoldsNone /\ PlaceOps /\ Reading /\ Copying /\ Writing /\ CommandPaths /\ BufferIs /\ Moving
  BY <1>1 DEF HoldsNone, PlaceOps, Reading, Copying, Writing, CommandPaths, BufferIs, Moving, NoCommand
<1> QED  BY <1>4, <1>5, <1>6, <1>7 DEF FileInv

LEMMA FileNextStep == FileInv /\ [FileNext]_fileVars => FileInv'
<1> SUFFICES ASSUME FileInv, [FileNext]_fileVars PROVE FileInv'
  OBVIOUS
<1>1. CASE UNCHANGED fileVars
  <2>1. disk' = disk /\ fcmd' = fcmd /\ ffds' = ffds
    BY <1>1 DEF fileVars
  <2> QED  BY <2>1 DEF FileInv, FileTypes, DiskGenuine, HoldsNone, PlaceOps, CommandPaths, BufferIs, Reading, Copying,
                       Writing, Moving, BinSigned
<1>2. CASE \E op \in Copies, src, dst \in FilePaths : StartCopy(op, src, dst)
  BY <1>2, StartCopyStep
<1>3. CASE \E op \in Shows \cup {"pkg", "edit"}, src \in FilePaths : StartRead(op, src)
  BY <1>3, StartReadStep
<1>4. CASE \E p \in FilePaths : cmd_write_enter(p)
  BY <1>4, StartWriteStep
<1>5. CASE (\E p \in FilePaths : cmd_touch(p) \/ cmd_mkdir(p) \/ cmd_rm(p)) \/ cmd_rm(BinPath)
  BY <1>5, EntrySteps
<1>6. CASE \E blob \in Downloads : StartDownload(blob)
  BY <1>6, StartDownloadStep
<1>7. CASE OpenSource \/ ReadSource \/ CheckPackage
  BY <1>7, OpenSourceStep, ReadSourceStep, CheckPackageStep
<1>8. CASE CreateTarget \/ WriteTarget \/ Finish
  BY <1>8, CreateTargetStep, WriteTargetStep, FinishStep
<1>9. CASE WriteLine \/ WriteDot \/ EditKey
  BY <1>9, WriteLineStep, EditKeyStep
<1> QED  BY <1>1, <1>2, <1>3, <1>4, <1>5, <1>6, <1>7, <1>8, <1>9 DEF FileNext

LEMMA FilesAreKept == FileInv => FilesKept
<1> SUFFICES ASSUME FileInv PROVE FilesKept
  OBVIOUS
<1>0. FileTypes /\ HoldsNone /\ PlaceOps /\ BufferIs /\ Moving /\ BinSigned
  BY DEF FileInv
<1>1. fcmd.pc \in Places
  BY <1>0, CommandFacts
<1>2. fcmd.op = "mv" /\ fcmd.kept # <<>> => fcmd.pc \in {"idle", "create", "read", "write", "finish"}
  BY <1>0, <1>1 DEF PlaceOps, BufferIs, Places
<1>3. MoveKeeps
  BY <1>0, <1>2 DEF MoveKeeps, Moving, HoldsNone
<1> QED  BY <1>0, <1>3 DEF FilesKept

\* Files survive the commands that work on them, whichever of their calls fails and at whatever
\* point: what mv moves is in one of its two places (fs.rs:257-319), and /bin gets nothing that
\* pkg did not verify (pkg.rs:91-118), whatever the files and downloads are.
THEOREM CommandsKeepFiles == FileSpec => []FilesKept
<1>1. FileInit => FileInv
  BY FileInitStep
<1>2. FileInv /\ [FileNext]_fileVars => FileInv'
  BY FileNextStep
<1>3. FileInv => FilesKept
  BY FilesAreKept
<1> QED  BY <1>1, <1>2, <1>3, PTL DEF FileSpec

=============================================================================
