--------------------------- MODULE DesktopProofs ---------------------------
(***************************************************************************)
(* Proofs about Desktop: compositor, window server and key routing agree,  *)
(* a drag has a target, an ended process leaves nothing, and the windows   *)
(* one sees are a stack.                                                   *)
(***************************************************************************)
EXTENDS DesktopProps, WellFoundedInduction, NaturalsInduction, TLAPS

-----------------------------------------------------------------------------
(* Kept: some entries of a sequence, in their order.                       *)

\* Induction for a set of naturals.
LEMMA AllNumbers ==
    ASSUME NEW S, 0 \in S, \A n \in Nat : n \in S => n + 1 \in S
    PROVE  \A n \in Nat : n \in S
<1> DEFINE R == OpToRel(<, Nat)  T == Nat \ S
<1>1. \A x, y \in Nat : x < y => <<x, y>> \in R
  BY DEF OpToRel
<1>2. IsWellFoundedOn(R, Nat)
  BY NatLessThanWellFounded
<1> SUFFICES ASSUME T # {} PROVE FALSE
  OBVIOUS
<1> HIDE DEF R
<1>3. PICK x \in T : \A y \in T : ~(<<y, x>> \in R)
  BY <1>2, WFMin
<1>4. x \in Nat /\ x # 0 /\ x - 1 \in Nat /\ x - 1 < x /\ (x - 1) + 1 = x
  OBVIOUS
<1>5. x - 1 \in S
  BY <1>1, <1>3, <1>4
<1> QED  BY <1>4, <1>5

\* Function f solves the recursion of Kept for the first n entries.
IsKept(f, q, keep, n) ==
    f = [k \in 0 .. n |-> IF k = 0 THEN << >>
                          ELSE IF k \in keep THEN Append(f[k - 1], q[k]) ELSE f[k - 1]]

\* The recursion of Kept has a solution for any number of entries.
LEMMA KeptExists ==
    ASSUME NEW q, NEW keep
    PROVE  \A n \in Nat : \E f : IsKept(f, q, keep, n)
<1> DEFINE S == {n \in Nat : \E f : IsKept(f, q, keep, n)}
           Next1(v, k) == IF k \in keep THEN Append(v, q[k]) ELSE v
<1>1. 0 \in S
  <2>1. IsKept([k \in 0 .. 0 |-> << >>], q, keep, 0)
    BY DEF IsKept
  <2> QED  BY <2>1
<1>2. ASSUME NEW n \in Nat, n \in S PROVE n + 1 \in S
  <2>1. PICK f : IsKept(f, q, keep, n)
    BY <1>2
  <2> DEFINE g == [k \in 0 .. n + 1 |-> IF k = n + 1 THEN Next1(f[n], n + 1) ELSE f[k]]
  <2>2. \A k \in 0 .. n : g[k] = f[k] /\ f[k] = IF k = 0 THEN << >> ELSE Next1(f[k - 1], k)
    <3>1. \A k \in 0 .. n : k \in 0 .. n + 1 /\ k # n + 1
      OBVIOUS
    <3>2. f = [k \in 0 .. n |-> IF k = 0 THEN << >> ELSE Next1(f[k - 1], k)]
      BY <2>1 DEF IsKept
    <3> HIDE DEF Next1
    <3>3. \A k \in 0 .. n : f[k] = IF k = 0 THEN << >> ELSE Next1(f[k - 1], k)
      BY <3>2
    <3> QED  BY <3>1, <3>3
  <2>3. \A k \in 0 .. n + 1 : g[k] = IF k = 0 THEN << >> ELSE Next1(g[k - 1], k)
    <3> TAKE k \in 0 .. n + 1
    <3>1. CASE k = 0
      <4>1. k \in 0 .. n
        BY <3>1
      <4> HIDE DEF g, Next1
      <4> QED  BY <2>2, <3>1, <4>1
    <3>2. CASE k \in 1 .. n
      <4>1. k - 1 \in 0 .. n /\ k \in 0 .. n /\ k # 0
        BY <3>2
      <4> HIDE DEF g, Next1
      <4> QED  BY <2>2, <4>1
    <3>3. CASE k = n + 1
      <4>1. k - 1 = n /\ n \in 0 .. n /\ k # 0
        BY <3>3
      <4>2. g[k] = Next1(f[n], k)
        BY <3>3
      <4> HIDE DEF g, Next1
      <4> QED  BY <2>2, <4>1, <4>2
    <3> QED  BY <3>1, <3>2, <3>3
  <2>4. g = [k \in 0 .. n + 1 |-> g[k]]
    OBVIOUS
  <2> HIDE DEF g
  <2>5. IsKept(g, q, keep, n + 1)
    BY <2>3, <2>4 DEF IsKept
  <2> QED  BY <2>5
<1> HIDE DEF S
<1>3. \A n \in Nat : n \in S
  BY <1>1, <1>2, AllNumbers
<1> QED  BY <1>3 DEF S

\* Sequence r is entries of q, in their order: entry m of r is entry at[m] of q.
Picks(r, q, at) ==
    /\ at \in [1 .. Len(r) -> DOMAIN q]
    /\ \A l, m \in 1 .. Len(r) : l < m => at[l] < at[m]
    /\ \A m \in 1 .. Len(r) : r[m] = q[at[m]]

\* Sequence x is the first n entries of q without those that are not kept.
KeptUpTo(x, q, keep, n) ==
    \E at : /\ at \in [1 .. Len(x) -> 1 .. n]
            /\ \A l, m \in 1 .. Len(x) : l < m => at[l] < at[m]
            /\ \A m \in 1 .. Len(x) : x[m] = q[at[m]] /\ at[m] \in keep
            /\ \A i \in keep : i <= n => \E m \in 1 .. Len(x) : at[m] = i

\* One more entry is kept.
LEMMA KeptMore ==
    ASSUME NEW V, NEW q, NEW keep \in SUBSET Nat, NEW n \in Nat, NEW x \in Seq(V),
           KeptUpTo(x, q, keep, n), n + 1 \in keep, NEW v \in V, v = q[n + 1]
    PROVE  KeptUpTo(Append(x, v), q, keep, n + 1)
<1>1. PICK K \in Nat : K = Len(x)
  OBVIOUS
<1>2. PICK y : y = Append(x, v)
  OBVIOUS
<1>3. Len(y) = K + 1 /\ y[K + 1] = v /\ \A m \in 1 .. K : y[m] = x[m]
  BY <1>1, <1>2
<1>4. PICK at : /\ at \in [1 .. K -> 1 .. n]
                /\ \A l, m \in 1 .. K : l < m => at[l] < at[m]
                /\ \A m \in 1 .. K : x[m] = q[at[m]] /\ at[m] \in keep
                /\ \A i \in keep : i <= n => \E m \in 1 .. K : at[m] = i
  BY <1>1 DEF KeptUpTo
<1> DEFINE bt == [m \in 1 .. K + 1 |-> IF m = K + 1 THEN n + 1 ELSE at[m]]
<1>5. bt \in [1 .. K + 1 -> 1 .. n + 1] /\ bt[K + 1] = n + 1
      /\ \A m \in 1 .. K : m \in 1 .. K + 1 /\ bt[m] = at[m] /\ at[m] \in 1 .. n
  BY <1>4
<1> HIDE DEF bt
<1>6. \A m \in 1 .. K + 1 : m \in 1 .. K \/ m = K + 1
  OBVIOUS
<1>7. \A l, m \in 1 .. K + 1 : l < m => bt[l] < bt[m]
  <2> TAKE l, m \in 1 .. K + 1
  <2> HAVE l < m
  <2>1. l \in 1 .. K /\ bt[l] \in 1 .. n
    BY <1>5
  <2>2. CASE m = K + 1
    BY <1>5, <2>1, <2>2
  <2>3. CASE m \in 1 .. K
    BY <1>4, <1>5, <2>1, <2>3
  <2> QED  BY <1>6, <2>2, <2>3
<1>8. \A m \in 1 .. K + 1 : y[m] = q[bt[m]] /\ bt[m] \in keep
  BY <1>3, <1>4, <1>5, <1>6
<1>9. \A i \in keep : i <= n + 1 => \E m \in 1 .. K + 1 : bt[m] = i
  <2> TAKE i \in keep
  <2> HAVE i <= n + 1
  <2>1. CASE i = n + 1
    <3>1. K + 1 \in 1 .. K + 1
      OBVIOUS
    <3> QED  BY <1>5, <2>1, <3>1
  <2>2. CASE i <= n
    <3>1. PICK m \in 1 .. K : at[m] = i
      BY <1>4, <2>2
    <3> QED  BY <1>5, <3>1
  <2> QED  BY <2>1, <2>2
<1>10. K + 1 = Len(y)
  BY <1>3
<1>11. KeptUpTo(y, q, keep, n + 1)
  <2>1. bt \in [1 .. Len(y) -> 1 .. n + 1]
    BY <1>5, <1>10
  <2>2. \A l, m \in 1 .. Len(y) : l < m => bt[l] < bt[m]
    BY ONLY <1>7, <1>10
  <2>3. \A m \in 1 .. Len(y) : y[m] = q[bt[m]] /\ bt[m] \in keep
    BY ONLY <1>8, <1>10
  <2>4. \A i \in keep : i <= n + 1 => \E m \in 1 .. Len(y) : bt[m] = i
    BY ONLY <1>9, <1>10
  <2> SUFFICES \E a : /\ a \in [1 .. Len(y) -> 1 .. n + 1]
                      /\ \A l, m \in 1 .. Len(y) : l < m => a[l] < a[m]
                      /\ \A m \in 1 .. Len(y) : y[m] = q[a[m]] /\ a[m] \in keep
                      /\ \A i \in keep : i <= n + 1 => \E m \in 1 .. Len(y) : a[m] = i
    BY DEF KeptUpTo
  <2> WITNESS bt
  <2> QED  BY <2>1, <2>2, <2>3, <2>4
<1> QED  BY <1>2, <1>11

\* What Kept returns: exactly the entries at the indices in keep, in their order.
LEMMA KeptFacts ==
    ASSUME NEW V, NEW q \in Seq(V), NEW keep \in SUBSET DOMAIN q
    PROVE  /\ Kept(q, keep) \in Seq(V)
           /\ \E at : Picks(Kept(q, keep), q, at) /\ {at[m] : m \in 1 .. Len(Kept(q, keep))} = keep
<1>1. PICK f : f = CHOOSE g : IsKept(g, q, keep, Len(q))
  OBVIOUS
<1>2. IsKept(f, q, keep, Len(q))
  BY <1>1, KeptExists
<1>3. Kept(q, keep) = f[Len(q)]
  BY <1>1 DEF Kept, IsKept
<1>4. PICK L \in Nat : L = Len(q) /\ DOMAIN q = 1 .. L
  OBVIOUS
<1>5. f[0] = << >> /\ \A n \in 1 .. L : f[n] = IF n \in keep THEN Append(f[n - 1], q[n]) ELSE f[n - 1]
  <2>1. 0 \in 0 .. L /\ \A n \in 1 .. L : n \in 0 .. L /\ n # 0
    OBVIOUS
  <2> QED  BY <1>2, <1>4, <2>1 DEF IsKept
<1>6. keep \in SUBSET Nat
  BY <1>4
<1> DEFINE S == {n \in Nat : n <= L => f[n] \in Seq(V) /\ KeptUpTo(f[n], q, keep, n)}
<1>7. 0 \in S
  <2>1. KeptUpTo(<< >>, q, keep, 0)
    <3> DEFINE at == [m \in 1 .. 0 |-> 0]
    <3>1. at \in [1 .. 0 -> 1 .. 0] /\ \A i \in keep : ~(i <= 0)
      BY <1>4
    <3>2. 1 .. 0 = {} /\ Len(<< >>) = 0
      OBVIOUS
    <3> HIDE DEF at
    <3> SUFFICES \E a : /\ a \in [1 .. 0 -> 1 .. 0]
                        /\ \A l, m \in 1 .. 0 : l < m => a[l] < a[m]
                        /\ \A m \in 1 .. 0 : << >>[m] = q[a[m]] /\ a[m] \in keep
                        /\ \A i \in keep : i <= 0 => \E m \in 1 .. 0 : a[m] = i
      BY <3>2, Zenon DEF KeptUpTo
    <3> WITNESS at
    <3> QED  BY <3>1, <3>2
  <2>2. << >> \in Seq(V)
    OBVIOUS
  <2> QED  BY <1>5, <2>1, <2>2
<1>8. ASSUME NEW n \in Nat, n \in S PROVE n + 1 \in S
  <2> SUFFICES ASSUME n + 1 <= L PROVE f[n + 1] \in Seq(V) /\ KeptUpTo(f[n + 1], q, keep, n + 1)
    OBVIOUS
  <2>1. n <= L /\ n + 1 \in 1 .. L /\ (n + 1) - 1 = n
    BY <1>4
  <2>2. PICK x \in Seq(V) : x = f[n] /\ KeptUpTo(x, q, keep, n)
    BY <1>8, <2>1
  <2>3. f[n + 1] = IF n + 1 \in keep THEN Append(x, q[n + 1]) ELSE x
    <3>1. PICK k \in 1 .. L : k = n + 1
      BY <2>1
    <3>2. k - 1 = n
      BY <2>1, <3>1
    <3>3. f[k] = IF k \in keep THEN Append(f[k - 1], q[k]) ELSE f[k - 1]
      BY <1>5
    <3> QED  BY ONLY <2>2, <3>1, <3>2, <3>3
  <2>4. CASE n + 1 \notin keep
    <3>1. \A i \in keep : i <= n + 1 => i <= n
      BY <1>4, <2>4
    <3>2. PICK K \in Nat : K = Len(x)
      OBVIOUS
    <3>3. PICK at : /\ at \in [1 .. K -> 1 .. n]
                    /\ \A l, m \in 1 .. K : l < m => at[l] < at[m]
                    /\ \A m \in 1 .. K : x[m] = q[at[m]] /\ at[m] \in keep
                    /\ \A i \in keep : i <= n => \E m \in 1 .. K : at[m] = i
      BY <2>2, <3>2 DEF KeptUpTo
    <3>4. at \in [1 .. K -> 1 .. n + 1]
      BY <3>3
    <3>5. KeptUpTo(x, q, keep, n + 1)
      BY <3>1, <3>2, <3>3, <3>4 DEF KeptUpTo
    <3> QED  BY <2>3, <2>4, <3>5
  <2>5. CASE n + 1 \in keep
    <3>1. PICK v \in V : v = q[n + 1]
      BY <1>4, <2>1
    <3>2. KeptUpTo(Append(x, v), q, keep, n + 1)
      BY <1>6, <2>2, <2>5, <3>1, KeptMore
    <3>3. Append(x, v) \in Seq(V)
      OBVIOUS
    <3> QED  BY <2>3, <2>5, <3>1, <3>2, <3>3
  <2> QED  BY <2>4, <2>5
<1> HIDE DEF S
<1>9. \A n \in Nat : n \in S
  BY <1>7, <1>8, AllNumbers
<1>10. PICK x \in Seq(V) : x = f[L] /\ KeptUpTo(x, q, keep, L)
  BY <1>4, <1>9 DEF S
<1>11. PICK at : /\ at \in [1 .. Len(x) -> 1 .. L]
                 /\ \A l, m \in 1 .. Len(x) : l < m => at[l] < at[m]
                 /\ \A m \in 1 .. Len(x) : x[m] = q[at[m]] /\ at[m] \in keep
                 /\ \A i \in keep : i <= L => \E m \in 1 .. Len(x) : at[m] = i
  BY <1>10 DEF KeptUpTo
<1>12. \A i \in keep : i <= L
  BY <1>4
<1>13. {at[m] : m \in 1 .. Len(x)} = keep
  BY <1>11, <1>12
<1>14. Picks(x, q, at)
  BY <1>4, <1>11 DEF Picks
<1> QED  BY <1>3, <1>4, <1>10, <1>13, <1>14

-----------------------------------------------------------------------------
(* The stack of frames.                                                    *)

\* The windows of a stack f; none is there twice.
KindsOf(f) == {f[i].kind : i \in DOMAIN f}
Once(f) == \A i, j \in DOMAIN f : f[i].kind = f[j].kind => i = j

\* The windows of f one sees, and which is below which.
Seen(f) == {i \in DOMAIN f : ~f[i].minimized}
ShownOf(f) == {f[i].kind : i \in Seen(f)}
UnderOf(f) ==
    {<<f[p[1]].kind, f[p[2]].kind>> : p \in {p \in Seen(f) \X Seen(f) : p[1] < p[2]}}

\* Window k can be dragged.
Grabbable(f, k) == \E i \in Seen(f) : f[i].kind = k /\ ~f[i].maximized

\* From f to g window k comes to the front; from f to g windows go.
Fronted(f, g, k) ==
    /\ ShownOf(g) = (ShownOf(f) \ {k}) \cup {k}
    /\ UnderOf(g) = (UnderOf(f) \cap ((ShownOf(f) \ {k}) \X (ShownOf(f) \ {k})))
                    \cup ((ShownOf(f) \ {k}) \X {k})
Thinned(f, g) ==
    /\ ShownOf(g) \subseteq ShownOf(f)
    /\ UnderOf(g) = UnderOf(f) \cap (ShownOf(g) \X ShownOf(g))

Stacked(f, g) == Thinned(f, g) \/ \E k \in Kinds : Fronted(f, g, k)

\* What it is to be in UnderOf.
LEMMA UnderIs ==
    ASSUME NEW f, NEW a, NEW b
    PROVE  <<a, b>> \in UnderOf(f) <=>
               \E i, j \in Seen(f) : i < j /\ f[i].kind = a /\ f[j].kind = b
<1>1. ASSUME <<a, b>> \in UnderOf(f)
      PROVE  \E i, j \in Seen(f) : i < j /\ f[i].kind = a /\ f[j].kind = b
  <2>1. PICK p \in Seen(f) \X Seen(f) : p[1] < p[2] /\ <<a, b>> = <<f[p[1]].kind, f[p[2]].kind>>
    BY <1>1 DEF UnderOf
  <2>2. p[1] \in Seen(f) /\ p[2] \in Seen(f) /\ f[p[1]].kind = a /\ f[p[2]].kind = b
    BY <2>1
  <2> QED  BY <2>1, <2>2
<1>2. ASSUME NEW i \in Seen(f), NEW j \in Seen(f), i < j, f[i].kind = a, f[j].kind = b
      PROVE  <<a, b>> \in UnderOf(f)
  <2>1. <<i, j>> \in Seen(f) \X Seen(f) /\ <<i, j>>[1] = i /\ <<i, j>>[2] = j
    OBVIOUS
  <2>2. <<f[<<i, j>>[1]].kind, f[<<i, j>>[2]].kind>> \in UnderOf(f)
    BY <1>2, <2>1 DEF UnderOf
  <2> QED  BY <1>2, <2>1, <2>2
<1> QED  BY <1>1, <1>2

\* UnderOf is a set of pairs of windows one sees.
LEMMA UnderPairs ==
    ASSUME NEW f
    PROVE  UnderOf(f) \subseteq ShownOf(f) \X ShownOf(f)
<1> SUFFICES ASSUME NEW x \in UnderOf(f) PROVE x \in ShownOf(f) \X ShownOf(f)
  OBVIOUS
<1>1. PICK p \in Seen(f) \X Seen(f) : x = <<f[p[1]].kind, f[p[2]].kind>>
  BY DEF UnderOf
<1>2. p[1] \in Seen(f) /\ p[2] \in Seen(f)
  OBVIOUS
<1> QED  BY <1>1, <1>2 DEF ShownOf

\* Two stacks are related as Thinned says if the pairs say so one by one.
LEMMA ThinnedIf ==
    ASSUME NEW f, NEW g, ShownOf(g) \subseteq ShownOf(f),
           \A a, b \in ShownOf(g) : <<a, b>> \in UnderOf(g) <=> <<a, b>> \in UnderOf(f)
    PROVE  Thinned(f, g)
<1>1. \A x \in UnderOf(g) : x \in ShownOf(g) \X ShownOf(g)
  BY UnderPairs
<1>2. \A x \in ShownOf(g) \X ShownOf(g) : \E a, b \in ShownOf(g) : x = <<a, b>>
  OBVIOUS
<1>3. \A x \in ShownOf(g) \X ShownOf(g) : x \in UnderOf(g) <=> x \in UnderOf(f)
  BY <1>2
<1> QED  BY <1>1, <1>3 DEF Thinned

\* The same for Fronted.
LEMMA FrontedIf ==
    ASSUME NEW f, NEW g, NEW k, NEW W, W = ShownOf(f) \ {k},
           ShownOf(g) = W \cup {k},
           \A a, b \in W : <<a, b>> \in UnderOf(g) <=> <<a, b>> \in UnderOf(f),
           \A a \in W : <<a, k>> \in UnderOf(g),
           \A a \in W \cup {k} : <<k, a>> \notin UnderOf(g)
    PROVE  Fronted(f, g, k)
<1>1. \A x \in UnderOf(g) : x \in (W \cup {k}) \X (W \cup {k})
  BY UnderPairs
<1>2. \A x \in UnderOf(g) : x \in (UnderOf(f) \cap (W \X W)) \cup (W \X {k})
  <2> TAKE x \in UnderOf(g)
  <2>1. PICK a \in W \cup {k}, b \in W \cup {k} : x = <<a, b>>
    BY <1>1
  <2>2. a \in W
    BY <2>1
  <2>3. CASE b = k
    BY <2>1, <2>2, <2>3
  <2>4. CASE b \in W
    BY <2>1, <2>2, <2>4
  <2> QED  BY <2>3, <2>4
<1>3. \A x \in (UnderOf(f) \cap (W \X W)) \cup (W \X {k}) : x \in UnderOf(g)
  <2>1. ASSUME NEW x \in UnderOf(f) \cap (W \X W) PROVE x \in UnderOf(g)
    <3>1. PICK a \in W, b \in W : x = <<a, b>>
      OBVIOUS
    <3> QED  BY <3>1
  <2>2. ASSUME NEW x \in W \X {k} PROVE x \in UnderOf(g)
    <3>1. PICK a \in W : x = <<a, k>>
      OBVIOUS
    <3> QED  BY <3>1
  <2> QED  BY <2>1, <2>2
<1>4. UnderOf(g) = (UnderOf(f) \cap (W \X W)) \cup (W \X {k})
  BY <1>2, <1>3
<1> QED  BY <1>4 DEF Fronted


\* Picked indices are in the order of the places they are picked for.
LEMMA PicksOrder ==
    ASSUME NEW g, NEW f, NEW at, Picks(g, f, at), Len(g) \in Nat, DOMAIN f \subseteq Nat,
           NEW l \in 1 .. Len(g), NEW m \in 1 .. Len(g)
    PROVE  (l < m <=> at[l] < at[m]) /\ (at[l] = at[m] => l = m)
<1>1. at[l] \in Nat /\ at[m] \in Nat
  BY DEF Picks
<1>2. (l < m => at[l] < at[m]) /\ (m < l => at[m] < at[l])
  BY DEF Picks
<1>3. (l = m => at[l] = at[m]) /\ l \in Int /\ m \in Int
  OBVIOUS
<1> QED  BY ONLY <1>1, <1>2, <1>3

\* A stack of some of the frames of f, in their order.
LEMMA PickedFrames ==
    ASSUME NEW f \in Seq(Frame), Once(f), NEW g \in Seq(Frame), NEW at, Picks(g, f, at)
    PROVE  /\ Once(g) /\ Thinned(f, g)
           /\ KindsOf(g) = {f[i].kind : i \in {at[m] : m \in 1 .. Len(g)}}
           /\ \A k : Grabbable(f, k) /\ k \in KindsOf(g) => Grabbable(g, k)
<1>1. PICK N \in Nat, L \in Nat : N = Len(f) /\ DOMAIN f = 1 .. N /\ L = Len(g) /\ DOMAIN g = 1 .. L
  OBVIOUS
<1>2. \A m \in 1 .. L : at[m] \in 1 .. N /\ g[m] = f[at[m]]
  BY <1>1 DEF Picks
<1>3. \A l, m \in 1 .. L : (l < m <=> at[l] < at[m]) /\ (at[l] = at[m] => l = m)
  BY <1>1, PicksOrder
<1>4. \A m \in 1 .. L, i \in 1 .. N : g[m].kind = f[i].kind => at[m] = i
  BY <1>1, <1>2 DEF Once
<1>5. Once(g)
  BY <1>1, <1>2, <1>3, <1>4 DEF Once
<1>6. \A m \in 1 .. L : m \in Seen(g) <=> at[m] \in Seen(f)
  BY <1>1, <1>2 DEF Seen
<1>7. Seen(g) \subseteq 1 .. L /\ Seen(f) \subseteq 1 .. N
  BY <1>1 DEF Seen
<1>8. ShownOf(g) \subseteq ShownOf(f)
  BY <1>2, <1>6, <1>7 DEF ShownOf
<1>9. ASSUME NEW a \in ShownOf(g), NEW b \in ShownOf(g)
      PROVE  <<a, b>> \in UnderOf(g) <=> <<a, b>> \in UnderOf(f)
  <2>1. PICK l \in Seen(g), m \in Seen(g) : g[l].kind = a /\ g[m].kind = b
    BY DEF ShownOf
  <2>2. l \in 1 .. L /\ m \in 1 .. L /\ at[l] \in Seen(f) /\ at[m] \in Seen(f)
    BY <1>6, <1>7
  <2>3. f[at[l]].kind = a /\ f[at[m]].kind = b
    BY <1>2, <2>1, <2>2
  <2>4. ASSUME <<a, b>> \in UnderOf(g) PROVE <<a, b>> \in UnderOf(f)
    <3>1. PICK i \in Seen(g), j \in Seen(g) : i < j /\ g[i].kind = a /\ g[j].kind = b
      BY <2>4, UnderIs
    <3>2. i \in 1 .. L /\ j \in 1 .. L /\ at[i] \in Seen(f) /\ at[j] \in Seen(f)
      BY <1>6, <1>7
    <3>3. at[i] < at[j] /\ f[at[i]].kind = a /\ f[at[j]].kind = b
      BY <1>2, <1>3, <3>1, <3>2
    <3> QED  BY <3>2, <3>3, UnderIs
  <2>5. ASSUME <<a, b>> \in UnderOf(f) PROVE <<a, b>> \in UnderOf(g)
    <3>1. PICK i \in Seen(f), j \in Seen(f) : i < j /\ f[i].kind = a /\ f[j].kind = b
      BY <2>5, UnderIs
    <3>2. i \in 1 .. N /\ j \in 1 .. N
      BY <1>7
    <3>3. at[l] = i /\ at[m] = j
      BY <1>4, <2>1, <2>2, <3>1, <3>2
    <3>4. l < m
      BY <1>3, <2>2, <3>1, <3>3
    <3> QED  BY <2>1, <3>4, UnderIs
  <2> QED  BY <2>4, <2>5
<1>10. Thinned(f, g)
  BY <1>8, <1>9, ThinnedIf
<1>11. KindsOf(g) = {f[i].kind : i \in {at[m] : m \in 1 .. Len(g)}}
  BY <1>1, <1>2 DEF KindsOf
<1>12. ASSUME NEW k, Grabbable(f, k), k \in KindsOf(g) PROVE Grabbable(g, k)
  <2>1. PICK i \in Seen(f) : f[i].kind = k /\ ~f[i].maximized
    BY <1>12 DEF Grabbable
  <2>2. PICK m \in 1 .. L : g[m].kind = k
    BY <1>1, <1>12 DEF KindsOf
  <2>3. at[m] = i
    BY <1>4, <1>7, <2>1, <2>2
  <2> QED  BY <1>2, <1>6, <2>1, <2>2, <2>3 DEF Grabbable
<1> QED  BY <1>5, <1>10, <1>11, <1>12

\* Without takes one entry out.
LEMMA WithoutPicks ==
    ASSUME NEW V, NEW f \in Seq(V), NEW i \in DOMAIN f
    PROVE  /\ Without(f, i) \in Seq(V) /\ Len(Without(f, i)) = Len(f) - 1
           /\ \E at : /\ Picks(Without(f, i), f, at)
                      /\ {at[m] : m \in 1 .. Len(Without(f, i))} = DOMAIN f \ {i}
<1>1. PICK N \in Nat : N = Len(f) /\ DOMAIN f = 1 .. N
  OBVIOUS
<1>2. i \in 1 .. N /\ N - 1 \in Nat
  BY <1>1
<1>3. PICK g : g = Without(f, i)
  OBVIOUS
<1>4. g = [j \in 1 .. N - 1 |-> IF j < i THEN f[j] ELSE f[j + 1]]
  BY <1>1, <1>3 DEF Without
<1>5. \A j \in 1 .. N - 1 : j \in 1 .. N /\ j + 1 \in 1 .. N /\ f[j] \in V /\ f[j + 1] \in V
  <2>1. \A j \in 1 .. N - 1 : j \in 1 .. N /\ j + 1 \in 1 .. N
    BY <1>2
  <2>2. \A j \in 1 .. N : f[j] \in V
    BY <1>1
  <2> QED  BY <2>1, <2>2
<1>6. g \in Seq(V) /\ Len(g) = N - 1
  BY <1>2, <1>4, <1>5
<1> DEFINE at == [j \in 1 .. N - 1 |-> IF j < i THEN j ELSE j + 1]
<1>7. at \in [1 .. N - 1 -> 1 .. N]
  BY <1>5
<1>8. \A l, m \in 1 .. N - 1 : l < m => at[l] < at[m]
  BY <1>2
<1>9. \A m \in 1 .. N - 1 : g[m] = f[at[m]]
  BY <1>4
<1>10. {at[m] : m \in 1 .. N - 1} = 1 .. N \ {i}
  <2>1. \A m \in 1 .. N - 1 : at[m] \in 1 .. N \ {i}
    BY <1>2
  <2>2. ASSUME NEW j \in 1 .. N \ {i} PROVE \E m \in 1 .. N - 1 : at[m] = j
    <3>1. CASE j < i
      <4>1. j \in 1 .. N - 1 /\ at[j] = j
        BY <1>2, <3>1
      <4> HIDE DEF at
      <4> QED  BY <4>1
    <3>2. CASE j > i
      <4>1. j - 1 \in 1 .. N - 1 /\ at[j - 1] = j
        BY <1>2, <3>2
      <4> HIDE DEF at
      <4> QED  BY <4>1
    <3> QED  BY <1>2, <3>1, <3>2
  <2> HIDE DEF at
  <2> QED  BY <2>1, <2>2
<1> HIDE DEF at
<1>11. Picks(g, f, at)
  BY <1>1, <1>6, <1>7, <1>8, <1>9 DEF Picks
<1> QED  BY <1>1, <1>3, <1>6, <1>10, <1>11


\* What Append does to a sequence.
LEMMA Appended ==
    ASSUME NEW V, NEW w \in Seq(V), NEW h \in V
    PROVE  /\ Append(w, h) \in Seq(V) /\ DOMAIN Append(w, h) = 1 .. Len(w) + 1
           /\ Len(Append(w, h)) = Len(w) + 1
           /\ Append(w, h)[Len(w) + 1] = h /\ \A m \in 1 .. Len(w) : Append(w, h)[m] = w[m]
OBVIOUS

\* The other frames of f in their order, and on top of them window k.
LEMMA ToppedFrames ==
    ASSUME NEW f \in Seq(Frame), Once(f), NEW w \in Seq(Frame), NEW at, Picks(w, f, at),
           NEW h \in Frame, ~h.minimized,
           \A i \in DOMAIN f : f[i].kind # h.kind <=> i \in {at[m] : m \in 1 .. Len(w)}
    PROVE  /\ Append(w, h) \in Seq(Frame) /\ Once(Append(w, h))
           /\ KindsOf(Append(w, h)) = KindsOf(f) \cup {h.kind}
           /\ Fronted(f, Append(w, h), h.kind)
           /\ \A k : Grabbable(f, k) /\ (k = h.kind => ~h.maximized) => Grabbable(Append(w, h), k)
<1>1. PICK N \in Nat, L \in Nat : N = Len(f) /\ DOMAIN f = 1 .. N /\ L = Len(w) /\ DOMAIN w = 1 .. L
  OBVIOUS
<1>2. PICK g \in Seq(Frame) : g = Append(w, h)
  BY Appended
<1>3. DOMAIN g = 1 .. L + 1 /\ g[L + 1] = h /\ \A m \in 1 .. L : g[m] = w[m]
  BY <1>1, <1>2, Appended
<1>4. PICK k : k = h.kind
  OBVIOUS
<1>5. Once(w) /\ Thinned(f, w) /\ KindsOf(w) = {f[i].kind : i \in {at[m] : m \in 1 .. Len(w)}}
      /\ \A c : Grabbable(f, c) /\ c \in KindsOf(w) => Grabbable(w, c)
  BY PickedFrames
<1>6. \A i \in {at[m] : m \in 1 .. Len(w)} : i \in DOMAIN f
  BY <1>1 DEF Picks
<1>7. \A m \in 1 .. L : at[m] \in 1 .. N /\ w[m] = f[at[m]]
  BY <1>1 DEF Picks
<1>8. KindsOf(w) = KindsOf(f) \ {k}
  <2>1. \A i \in DOMAIN f : f[i].kind # k <=> i \in {at[m] : m \in 1 .. Len(w)}
    BY <1>4
  <2>2. PICK I : I = {at[m] : m \in 1 .. Len(w)}
    OBVIOUS
  <2>3. KindsOf(w) = {f[i].kind : i \in I} /\ \A i \in I : i \in DOMAIN f
    BY <1>5, <1>6, <2>2
  <2>4. \A i \in DOMAIN f : f[i].kind # k <=> i \in I
    BY <2>1, <2>2
  <2> QED  BY ONLY <2>3, <2>4 DEF KindsOf
<1>9. \A m \in 1 .. L + 1 : m \in 1 .. L \/ m = L + 1
  OBVIOUS
<1>10. \A m \in 1 .. L : m \in 1 .. L + 1 /\ g[m].kind # k /\ m < L + 1
  <2>1. \A m \in 1 .. L : w[m].kind \in KindsOf(w)
    BY <1>1 DEF KindsOf
  <2>2. \A m \in 1 .. L : m \in 1 .. L + 1 /\ m < L + 1
    OBVIOUS
  <2> QED  BY <1>3, <1>8, <2>1, <2>2
<1>11. L + 1 \in 1 .. L + 1 /\ g[L + 1].kind = k /\ L + 1 \in Seen(g)
  BY <1>3, <1>4 DEF Seen
<1>12. Once(g)
  <2> SUFFICES ASSUME NEW i \in 1 .. L + 1, NEW j \in 1 .. L + 1, g[i].kind = g[j].kind PROVE i = j
    BY <1>3 DEF Once
  <2>1. CASE i = L + 1
    BY <1>9, <1>10, <1>11, <2>1
  <2>2. CASE i \in 1 .. L
    <3>1. j \in 1 .. L
      BY <1>9, <1>10, <1>11, <2>2
    <3> QED  BY <1>1, <1>3, <1>5, <2>2, <3>1 DEF Once
  <2> QED  BY <1>9, <2>1, <2>2
<1>13. KindsOf(g) = KindsOf(w) \cup {k}
  BY <1>1, <1>3, <1>9, <1>10, <1>11 DEF KindsOf
<1>14. Seen(g) = Seen(w) \cup {L + 1} /\ Seen(w) \subseteq 1 .. L /\ \A i \in Seen(w) : g[i] = w[i]
  BY <1>1, <1>3, <1>9, <1>10, <1>11 DEF Seen
<1>15. ShownOf(w) = ShownOf(f) \ {k}
  <2>1. \A c \in ShownOf(w) : c \in ShownOf(f) /\ c \in KindsOf(w)
    BY <1>5 DEF Thinned, ShownOf, KindsOf, Seen
  <2>2. ASSUME NEW c \in ShownOf(f), c # k PROVE c \in ShownOf(w)
    <3>1. PICK i \in Seen(f) : f[i].kind = c
      BY DEF ShownOf
    <3>2. i \in DOMAIN f /\ ~f[i].minimized
      BY DEF Seen
    <3>3. PICK m \in 1 .. Len(w) : at[m] = i
      BY <1>4, <2>2, <3>1, <3>2
    <3>4. m \in Seen(w) /\ w[m].kind = c
      BY <1>1, <1>7, <3>1, <3>2, <3>3 DEF Seen
    <3> QED  BY <3>4 DEF ShownOf
  <2> QED  BY <1>8, <2>1, <2>2
<1>16. ShownOf(g) = ShownOf(w) \cup {k}
  BY <1>11, <1>14 DEF ShownOf
<1>17. ASSUME NEW a \in ShownOf(w), NEW b \in ShownOf(w)
       PROVE  <<a, b>> \in UnderOf(g) <=> <<a, b>> \in UnderOf(f)
  <2>1. <<a, b>> \in UnderOf(w) <=> <<a, b>> \in UnderOf(f)
    BY <1>5 DEF Thinned
  <2>2. ASSUME <<a, b>> \in UnderOf(g) PROVE <<a, b>> \in UnderOf(w)
    <3>1. PICK i \in Seen(g), j \in Seen(g) : i < j /\ g[i].kind = a /\ g[j].kind = b
      BY <2>2, UnderIs
    <3>2. a # k /\ b # k
      BY <1>15
    <3>3. i \in Seen(w) /\ j \in Seen(w)
      BY <1>11, <1>14, <3>1, <3>2
    <3> QED  BY <1>14, <3>1, <3>3, UnderIs
  <2>3. ASSUME <<a, b>> \in UnderOf(w) PROVE <<a, b>> \in UnderOf(g)
    <3>1. PICK i \in Seen(w), j \in Seen(w) : i < j /\ w[i].kind = a /\ w[j].kind = b
      BY <2>3, UnderIs
    <3> QED  BY <1>14, <3>1, UnderIs
  <2> QED  BY <2>1, <2>2, <2>3
<1>18. ASSUME NEW a \in ShownOf(w) PROVE <<a, k>> \in UnderOf(g)
  <2>1. PICK i \in Seen(w) : w[i].kind = a
    BY DEF ShownOf
  <2>2. i \in Seen(g) /\ i < L + 1 /\ g[i].kind = a
    BY <1>10, <1>14, <2>1
  <2> QED  BY <1>11, <2>2, UnderIs
<1>19. ASSUME NEW a, <<k, a>> \in UnderOf(g) PROVE FALSE
  <2>1. PICK i \in Seen(g), j \in Seen(g) : i < j /\ g[i].kind = k /\ g[j].kind = a
    BY <1>19, UnderIs
  <2>2. i = L + 1 /\ j \in 1 .. L + 1
    BY <1>3, <1>10, <1>14, <2>1
  <2> QED  BY <2>1, <2>2
<1>20. Fronted(f, g, k)
  BY <1>15, <1>16, <1>17, <1>18, <1>19, FrontedIf
<1>21. ASSUME NEW c, Grabbable(f, c), c = k => ~h.maximized PROVE Grabbable(g, c)
  <2>1. CASE c = k
    BY <1>3, <1>11, <1>21, <2>1 DEF Grabbable
  <2>2. CASE c # k
    <3>1. c \in KindsOf(f)
      BY <1>21 DEF Grabbable, KindsOf, Seen
    <3>2. Grabbable(w, c)
      BY <1>5, <1>8, <1>21, <2>2, <3>1
    <3> QED  BY <1>14, <3>2 DEF Grabbable
  <2> QED  BY <2>1, <2>2
<1>22. KindsOf(g) = KindsOf(f) \cup {k}
  BY <1>8, <1>13
<1> QED  BY <1>2, <1>4, <1>12, <1>20, <1>21, <1>22

\* A window is taken from its place and put on top, its marks changed but shown.
LEMMA LiftedFrames ==
    ASSUME NEW f \in Seq(Frame), Once(f), NEW i \in DOMAIN f, NEW h \in Frame,
           h.kind = f[i].kind, ~h.minimized
    PROVE  LET g == Append(Without(f, i), h)
           IN  /\ g \in Seq(Frame) /\ Once(g) /\ KindsOf(g) = KindsOf(f)
               /\ Fronted(f, g, h.kind)
               /\ h.maximized = f[i].maximized => \A k : Grabbable(f, k) => Grabbable(g, k)
<1>1. PICK w \in Seq(Frame) : w = Without(f, i)
  BY WithoutPicks
<1>2. PICK at : Picks(w, f, at) /\ {at[m] : m \in 1 .. Len(w)} = DOMAIN f \ {i}
  <2>1. \E at : /\ Picks(Without(f, i), f, at)
                /\ {at[m] : m \in 1 .. Len(Without(f, i))} = DOMAIN f \ {i}
    BY WithoutPicks
  <2> QED  BY <1>1, <2>1, Zenon
<1>3. \A j \in DOMAIN f : f[j].kind # h.kind <=> j \in {at[m] : m \in 1 .. Len(w)}
  BY <1>2 DEF Once
<1>4. /\ Append(w, h) \in Seq(Frame) /\ Once(Append(w, h))
      /\ KindsOf(Append(w, h)) = KindsOf(f) \cup {h.kind}
      /\ Fronted(f, Append(w, h), h.kind)
      /\ \A k : Grabbable(f, k) /\ (k = h.kind => ~h.maximized) => Grabbable(Append(w, h), k)
  BY <1>2, <1>3, ToppedFrames
<1>5. h.kind \in KindsOf(f)
  BY DEF KindsOf
<1>6. ASSUME h.maximized = f[i].maximized, NEW k, Grabbable(f, k) PROVE k = h.kind => ~h.maximized
  <2>1. PICK j \in Seen(f) : f[j].kind = k /\ ~f[j].maximized
    BY <1>6 DEF Grabbable
  <2>2. j \in DOMAIN f
    BY DEF Seen
  <2> QED  BY <1>6, <2>1, <2>2 DEF Once
<1> QED  BY <1>1, <1>4, <1>5, <1>6

\* A window goes.
LEMMA RemovedFrame ==
    ASSUME NEW f \in Seq(Frame), Once(f), NEW i \in DOMAIN f
    PROVE  LET g == Without(f, i)
           IN  g \in Seq(Frame) /\ Once(g) /\ Thinned(f, g) /\ KindsOf(g) = KindsOf(f) \ {f[i].kind}
<1>1. PICK g \in Seq(Frame) : g = Without(f, i)
  BY WithoutPicks
<1>2. PICK at : Picks(g, f, at) /\ {at[m] : m \in 1 .. Len(g)} = DOMAIN f \ {i}
  <2>1. \E at : /\ Picks(Without(f, i), f, at)
                /\ {at[m] : m \in 1 .. Len(Without(f, i))} = DOMAIN f \ {i}
    BY WithoutPicks
  <2> QED  BY <1>1, <2>1, Zenon
<1>3. Once(g) /\ Thinned(f, g) /\ KindsOf(g) = {f[j].kind : j \in {at[m] : m \in 1 .. Len(g)}}
  BY <1>2, PickedFrames
<1>4. PICK K : K = KindsOf(g)
  OBVIOUS
<1>5. K = {f[j].kind : j \in DOMAIN f \ {i}}
  BY <1>2, <1>3, <1>4
<1>6. K = KindsOf(f) \ {f[i].kind}
  BY ONLY Once(f), i \in DOMAIN f, <1>5 DEF KindsOf, Once
<1> QED  BY <1>1, <1>3, <1>4, <1>6

\* A new window comes on top.
LEMMA AddedFrame ==
    ASSUME NEW f \in Seq(Frame), Once(f), NEW h \in Frame, h.kind \notin KindsOf(f), ~h.minimized
    PROVE  LET g == Append(f, h)
           IN  /\ g \in Seq(Frame) /\ Once(g) /\ KindsOf(g) = KindsOf(f) \cup {h.kind}
               /\ Fronted(f, g, h.kind)
               /\ \A k : Grabbable(f, k) => Grabbable(g, k)
<1> DEFINE at == [m \in 1 .. Len(f) |-> m]
<1>1. Picks(f, f, at)
  BY DEF Picks
<1>2. DOMAIN f = 1 .. Len(f) /\ \A m \in 1 .. Len(f) : at[m] = m
  OBVIOUS
<1> HIDE DEF at
<1>3. \A j \in DOMAIN f : f[j].kind # h.kind <=> j \in {at[m] : m \in 1 .. Len(f)}
  BY <1>2 DEF KindsOf
<1>4. \A k : Grabbable(f, k) => k # h.kind
  BY DEF Grabbable, KindsOf, Seen
<1>5. /\ Append(f, h) \in Seq(Frame) /\ Once(Append(f, h))
      /\ KindsOf(Append(f, h)) = KindsOf(f) \cup {h.kind}
      /\ Fronted(f, Append(f, h), h.kind)
      /\ \A k : Grabbable(f, k) /\ (k = h.kind => ~h.maximized) => Grabbable(Append(f, h), k)
  BY <1>1, <1>3, ToppedFrames
<1> QED  BY <1>4, <1>5

\* A window is minimized.
LEMMA MinimizedFrame ==
    ASSUME NEW f \in Seq(Frame), Once(f), NEW i \in DOMAIN f
    PROVE  LET g == [f EXCEPT ![i].minimized = TRUE]
           IN  g \in Seq(Frame) /\ Once(g) /\ KindsOf(g) = KindsOf(f) /\ Thinned(f, g)
<1>1. PICK g : g = [f EXCEPT ![i].minimized = TRUE]
  OBVIOUS
<1>2. PICK N \in Nat : N = Len(f) /\ DOMAIN f = 1 .. N
  OBVIOUS
<1>3. f[i] \in Frame /\ [f[i] EXCEPT !.minimized = TRUE] \in Frame
      /\ [f[i] EXCEPT !.minimized = TRUE].kind = f[i].kind
      /\ [f[i] EXCEPT !.minimized = TRUE].minimized
  <2>1. f[i] \in Frame
    OBVIOUS
  <2> QED  BY <2>1 DEF Frame
<1>4. g \in Seq(Frame) /\ DOMAIN g = DOMAIN f
  BY <1>1, <1>3
<1>5. \A j \in DOMAIN f : g[j].kind = f[j].kind /\ (g[j].minimized <=> f[j].minimized \/ j = i)
  BY <1>1, <1>3
<1>6. Once(g) /\ KindsOf(g) = KindsOf(f)
  BY <1>4, <1>5 DEF Once, KindsOf
<1>7. Seen(g) = Seen(f) \ {i} /\ Seen(f) \subseteq DOMAIN f
  BY <1>4, <1>5 DEF Seen
<1>8. ShownOf(g) \subseteq ShownOf(f)
  BY <1>5, <1>7 DEF ShownOf
<1>9. ASSUME NEW a \in ShownOf(g), NEW b \in ShownOf(g)
      PROVE  <<a, b>> \in UnderOf(g) <=> <<a, b>> \in UnderOf(f)
  <2>1. a # f[i].kind /\ b # f[i].kind
    BY <1>4, <1>5, <1>6, <1>7 DEF ShownOf, Once
  <2>2. \A j \in Seen(f) : f[j].kind \in {a, b} => j \in Seen(g)
    BY <1>7, <2>1
  <2>3. \A j \in Seen(g) : j \in Seen(f) /\ f[j].kind = g[j].kind
    BY <1>5, <1>7
  <2>4. <<a, b>> \in UnderOf(g) <=> \E l, m \in Seen(g) : l < m /\ g[l].kind = a /\ g[m].kind = b
    BY UnderIs
  <2>5. <<a, b>> \in UnderOf(f) <=> \E l, m \in Seen(f) : l < m /\ f[l].kind = a /\ f[m].kind = b
    BY UnderIs
  <2> QED  BY <2>2, <2>3, <2>4, <2>5
<1>10. Thinned(f, g)
  BY <1>8, <1>9, ThinnedIf
<1> QED  BY <1>1, <1>4, <1>6, <1>10


-----------------------------------------------------------------------------
(* The compositor's state.                                                 *)

\* The focus is on a window that is there.
FocusOK(s) ==
    /\ s.focus = "Files" => Sys("Files") \in KindsOf(s.frames)
    /\ s.focus = "Desk" => Sys("Settings") \in KindsOf(s.frames)

\* CLIENT_TOP mirrors the stack.
Synced(s) == s.CLIENT_TOP = (top_kind(s).name = "Client")

DragOK(s) == s.drag # NoKind => s.btn_held /\ Grabbable(s.frames, s.drag)

Sound(s) == s \in State /\ Once(s.frames) /\ FocusOK(s)

Good(s) == Sound(s) /\ Synced(s) /\ DragOK(s)

\* The surfaces that have a frame.
ClientsOf(f) == {w \in WinIds : Client(w) \in KindsOf(f)}

\* A nonempty set of indices has a last one.
LEMMA LastIndex ==
    ASSUME NEW N \in Nat, NEW I \in SUBSET (1 .. N), I # {}
    PROVE  \E i \in I : \A j \in I : j <= i
<1> DEFINE T == {n \in Nat : \A J \in SUBSET (1 .. n) : J # {} => \E i \in J : \A j \in J : j <= i}
<1>1. 0 \in T
  <2>1. 1 .. 0 = {}
    OBVIOUS
  <2>2. \A J \in SUBSET (1 .. 0) : J = {}
    BY <2>1
  <2> QED  BY <2>2
<1>2. ASSUME NEW n \in Nat, n \in T PROVE n + 1 \in T
  <2> SUFFICES ASSUME NEW J \in SUBSET (1 .. n + 1), J # {} PROVE \E i \in J : \A j \in J : j <= i
    OBVIOUS
  <2>1. CASE n + 1 \in J
    <3>1. \A j \in J : j <= n + 1
      OBVIOUS
    <3> QED  BY <2>1, <3>1
  <2>2. CASE n + 1 \notin J
    <3>1. J \in SUBSET (1 .. n)
      BY <2>2
    <3>2. \A K \in SUBSET (1 .. n) : K # {} => \E i \in K : \A j \in K : j <= i
      BY <1>2
    <3> QED  BY <3>1, <3>2
  <2> QED  BY <2>1, <2>2
<1> HIDE DEF T
<1>3. N \in T
  BY <1>1, <1>2, AllNumbers
<1> QED  BY <1>3 DEF T

\* The active window is a window of the stack, if there is one.
LEMMA TopKind ==
    ASSUME NEW s, s.frames \in Seq(Frame)
    PROVE  /\ visible_top(s) = 0 \/ visible_top(s) \in DOMAIN s.frames
           /\ top_kind(s) = NoKind \/ top_kind(s) \in KindsOf(s.frames)
<1>1. PICK N \in Nat : DOMAIN s.frames = 1 .. N
  OBVIOUS
<1>2. CASE Visible(s) = {}
  BY <1>2 DEF visible_top, top_kind
<1>3. CASE Visible(s) # {}
  <2>1. Visible(s) \in SUBSET (1 .. N)
    BY <1>1 DEF Visible
  <2>2. \E i \in Visible(s) : \A j \in Visible(s) : j <= i
    BY <1>3, <2>1, LastIndex
  <2>3. visible_top(s) \in Visible(s)
    BY <1>3, <2>2 DEF visible_top
  <2>4. visible_top(s) \in DOMAIN s.frames /\ visible_top(s) # 0
    BY <1>1, <2>1, <2>3
  <2> QED  BY <2>4 DEF top_kind, KindsOf
<1> QED  BY <1>2, <1>3

\* The active window depends on the stack only.
LEMMA TopSame ==
    ASSUME NEW s, NEW t, t.frames = s.frames
    PROVE  top_kind(t) = top_kind(s) /\ visible_top(t) = visible_top(s)
<1>1. Visible(t) = Visible(s)
  BY DEF Visible
<1>2. visible_top(t) = visible_top(s)
  BY <1>1 DEF visible_top
<1> QED  BY <1>2 DEF top_kind

\* What becomes of the fields of the state when the stack is assigned.
LEMMA SetFrames ==
    ASSUME NEW s \in State, NEW g \in Seq(Frame)
    PROVE  LET t == [s EXCEPT !.frames = g]
           IN  t \in State /\ t.frames = g /\ t.focus = s.focus /\ t.drag = s.drag
               /\ t.btn_held = s.btn_held /\ t.CLIENT_TOP = s.CLIENT_TOP
BY DEF State

\* The same for the focus.
LEMMA SetFocus ==
    ASSUME NEW s \in State, NEW v \in {"Term", "Files", "Desk"}
    PROVE  LET t == [s EXCEPT !.focus = v]
           IN  t \in State /\ t.frames = s.frames /\ t.focus = v /\ t.drag = s.drag
               /\ t.btn_held = s.btn_held /\ t.CLIENT_TOP = s.CLIENT_TOP
BY DEF State

\* The same for CLIENT_TOP.
LEMMA SetTop ==
    ASSUME NEW s \in State, NEW v \in BOOLEAN
    PROVE  LET t == [s EXCEPT !.CLIENT_TOP = v]
           IN  t \in State /\ t.frames = s.frames /\ t.focus = s.focus /\ t.drag = s.drag
               /\ t.btn_held = s.btn_held /\ t.CLIENT_TOP = v
BY DEF State

\* The same for the drag.
LEMMA SetDrag ==
    ASSUME NEW s \in State, NEW v \in Kinds \cup {NoKind}
    PROVE  LET t == [s EXCEPT !.drag = v]
           IN  t \in State /\ t.frames = s.frames /\ t.focus = s.focus /\ t.drag = v
               /\ t.btn_held = s.btn_held /\ t.CLIENT_TOP = s.CLIENT_TOP
BY DEF State

\* The same for the button.
LEMMA SetHeld ==
    ASSUME NEW s \in State, NEW v \in BOOLEAN
    PROVE  LET t == [s EXCEPT !.btn_held = v]
           IN  t \in State /\ t.frames = s.frames /\ t.focus = s.focus /\ t.drag = s.drag
               /\ t.btn_held = v /\ t.CLIENT_TOP = s.CLIENT_TOP
BY DEF State


\* Overlays, the power dialog, the drag and the button change nothing the rest is about.
Plain(s, t) ==
    t \in State /\ t.frames = s.frames /\ t.focus = s.focus /\ t.CLIENT_TOP = s.CLIENT_TOP

\* Such a change leaves stack, focus and mirror in order.
LEMMA PlainSound ==
    ASSUME NEW s, NEW t, Sound(s), Synced(s), Plain(s, t)
    PROVE  Sound(t) /\ Synced(t)
BY TopSame DEF Plain, Sound, Synced, FocusOK

\* The overlays' operators do no more, and leave drag and button alone.
LEMMA SetOpen ==
    ASSUME NEW s \in State, NEW v \in SUBSET Overlays
    PROVE  LET t == [s EXCEPT !.open = v]
           IN  Plain(s, t) /\ t.drag = s.drag /\ t.btn_held = s.btn_held
BY DEF State, Plain

\* sync_client_top: what is sound is then also synced.
LEMMA SyncFacts ==
    ASSUME NEW s, Sound(s)
    PROVE  LET t == sync_client_top(s)
           IN  Sound(t) /\ Synced(t) /\ t.frames = s.frames /\ t.focus = s.focus
               /\ t.drag = s.drag /\ t.btn_held = s.btn_held
<1>1. PICK b \in BOOLEAN : b = (top_kind(s).name = "Client")
  OBVIOUS
<1>2. PICK t : t = [s EXCEPT !.CLIENT_TOP = b]
  OBVIOUS
<1>3. t = sync_client_top(s)
  BY <1>1, <1>2 DEF sync_client_top
<1>4. t \in State /\ t.frames = s.frames /\ t.focus = s.focus /\ t.drag = s.drag
      /\ t.btn_held = s.btn_held /\ t.CLIENT_TOP = b
  BY <1>2, SetTop DEF Sound
<1>5. Sound(t) /\ Synced(t)
  BY <1>1, <1>4, TopSame DEF Sound, Synced, FocusOK
<1> QED  BY <1>3, <1>4, <1>5

\* The focus that belongs to a window is on a window that is there.
LEMMA FocusOfKind ==
    ASSUME NEW k \in Kinds \cup {NoKind}
    PROVE  /\ FocusOf(k) \in {"Term", "Files", "Desk"}
           /\ FocusOf(k) = "Files" => k = Sys("Files")
           /\ FocusOf(k) = "Desk" => k = Sys("Settings")
<1>1. (k.name = "Files" => k = Sys("Files")) /\ (k.name = "Settings" => k = Sys("Settings"))
  BY DEF Kinds, NoKind, Sys, System
<1> QED  BY <1>1 DEF FocusOf

\* The windows of a stack are kinds of windows.
LEMMA KindsAreKinds ==
    ASSUME NEW f \in Seq(Frame)
    PROVE  KindsOf(f) \subseteq Kinds /\ \A i \in DOMAIN f : f[i].kind \in Kinds /\ f[i] \in Frame
<1>1. \A i \in DOMAIN f : f[i] \in Frame
  OBVIOUS
<1>2. \A h \in Frame : h.kind \in Kinds
  BY DEF Frame
<1> QED  BY <1>1, <1>2 DEF KindsOf

\* focus_frame: the focus goes to a window of the stack.
LEMMA FocusFacts ==
    ASSUME NEW s, Sound(s), Synced(s), NEW i \in DOMAIN s.frames
    PROVE  LET t == focus_frame(s, i)
           IN  Sound(t) /\ Synced(t) /\ t.frames = s.frames
               /\ t.drag = s.drag /\ t.btn_held = s.btn_held
<1>1. PICK k \in Kinds : k = s.frames[i].kind /\ k \in KindsOf(s.frames)
  BY KindsAreKinds DEF Sound, State, KindsOf
<1>2. PICK t : t = focus_frame(s, i)
  OBVIOUS
<1>3. t \in State /\ t.frames = s.frames /\ t.focus = FocusOf(k) /\ t.drag = s.drag
      /\ t.btn_held = s.btn_held /\ t.CLIENT_TOP = s.CLIENT_TOP
  <2>1. PICK v \in {"Term", "Files", "Desk"} : v = FocusOf(k)
    BY FocusOfKind
  <2>2. t = [s EXCEPT !.focus = v]
    BY <1>1, <1>2, <2>1 DEF focus_frame
  <2>3. s \in State
    BY DEF Sound
  <2> QED  BY <2>1, <2>2, <2>3, SetFocus
<1>4. Sound(t) /\ Synced(t)
  BY <1>1, <1>3, TopSame, FocusOfKind DEF Sound, Synced, FocusOK
<1> QED  BY <1>2, <1>3, <1>4

\* retarget_focus: the focus goes to the active window.
LEMMA RetargetFacts ==
    ASSUME NEW s \in State, Once(s.frames)
    PROVE  LET t == retarget_focus(s)
           IN  Sound(t) /\ Synced(t) /\ t.frames = s.frames
               /\ t.drag = s.drag /\ t.btn_held = s.btn_held
<1>1. s.frames \in Seq(Frame)
  BY DEF State
<1>2. PICK k \in Kinds \cup {NoKind} : k = top_kind(s) /\ (k = NoKind \/ k \in KindsOf(s.frames))
  BY <1>1, TopKind, KindsAreKinds
<1>3. PICK r : r = [s EXCEPT !.focus = FocusOf(top_kind(s))]
  OBVIOUS
<1>4. r \in State /\ r.frames = s.frames /\ r.focus = FocusOf(k) /\ r.drag = s.drag
      /\ r.btn_held = s.btn_held
  BY <1>2, <1>3, SetFocus, FocusOfKind
<1>5. NoKind # Sys("Files") /\ NoKind # Sys("Settings")
  BY DEF NoKind, Sys
<1>6. Sound(r)
  BY <1>2, <1>4, <1>5, FocusOfKind DEF Sound, FocusOK
<1>7. retarget_focus(s) = sync_client_top(r)
  BY <1>3 DEF retarget_focus
<1> QED  BY <1>4, <1>6, <1>7, SyncFacts


-----------------------------------------------------------------------------
(* Windows that come and go.                                               *)

\* What an operator that keeps the surfaces does to the stack of s.
Does(s, t) ==
    /\ Sound(t) /\ Synced(t)
    /\ Stacked(s.frames, t.frames)
    /\ ClientsOf(t.frames) = ClientsOf(s.frames)

\* raise of a window whose marks were changed, but which is shown.
LEMMA LiftStep ==
    ASSUME NEW s, Sound(s), NEW i \in DOMAIN s.frames, NEW h \in Frame,
           h.kind = s.frames[i].kind, ~h.minimized,
           NEW e, e = [s EXCEPT !.frames = [s.frames EXCEPT ![i] = h]]
    PROVE  LET t == raise(e, i)
           IN  /\ Does(s, t) /\ t.focus = s.focus /\ t.drag = s.drag /\ t.btn_held = s.btn_held
               /\ t.frames = Append(Without(s.frames, i), h)
               /\ Len(t.frames) = Len(s.frames) /\ t.frames[Len(t.frames)] = h
               /\ KindsOf(t.frames) = KindsOf(s.frames)
               /\ h.maximized = s.frames[i].maximized /\ DragOK(s) => DragOK(t)
<1>1. PICK f \in Seq(Frame) : f = s.frames
  BY DEF Sound, State
<1>2. PICK g : g = Append(Without(f, i), h)
  OBVIOUS
<1>3. s \in State /\ Once(f) /\ i \in DOMAIN f /\ h.kind = f[i].kind
  BY <1>1 DEF Sound
<1>4. /\ g \in Seq(Frame) /\ Once(g) /\ KindsOf(g) = KindsOf(f) /\ Fronted(f, g, h.kind)
      /\ h.maximized = f[i].maximized => \A k : Grabbable(f, k) => Grabbable(g, k)
  BY <1>2, <1>3, LiftedFrames
<1>5. [f EXCEPT ![i] = h] \in Seq(Frame)
  BY <1>3
<1>6. e \in State /\ e.frames = [f EXCEPT ![i] = h] /\ e.focus = s.focus /\ e.drag = s.drag
      /\ e.btn_held = s.btn_held
  BY <1>1, <1>3, <1>5, SetFrames
<1>7. Append(Without(e.frames, i), e.frames[i]) = g
  <2>1. e.frames[i] = h
    BY <1>3, <1>6
  <2>2. Without(e.frames, i) = Without(f, i)
    <3>1. PICK N \in Nat : N = Len(f) /\ DOMAIN f = 1 .. N
      OBVIOUS
    <3>2. PICK x \in Seq(Frame) : x = [f EXCEPT ![i] = h]
      BY <1>5
    <3>3. Len(x) = N /\ \A j \in 1 .. N : j # i => x[j] = f[j]
      BY <1>3, <3>1, <3>2
    <3>4. \A j \in 1 .. N - 1 : (j < i => j \in 1 .. N /\ j # i) /\ (~(j < i) => j + 1 \in 1 .. N /\ j + 1 # i)
      BY <1>3, <3>1
    <3>5. \A j \in 1 .. N - 1 : (IF j < i THEN x[j] ELSE x[j + 1]) = (IF j < i THEN f[j] ELSE f[j + 1])
      BY <3>3, <3>4
    <3> QED  BY <1>6, <3>1, <3>2, <3>3, <3>5 DEF Without
  <2> QED  BY <1>2, <2>1, <2>2
<1>8. PICK r : r = [e EXCEPT !.frames = g]
  OBVIOUS
<1>9. r \in State /\ r.frames = g /\ r.focus = s.focus /\ r.drag = s.drag /\ r.btn_held = s.btn_held
  BY <1>4, <1>6, <1>8, SetFrames
<1>10. Sound(r)
  BY <1>1, <1>4, <1>9 DEF Sound, FocusOK
<1>11. raise(e, i) = sync_client_top(r)
  BY <1>7, <1>8 DEF raise
<1>12. PICK t : t = raise(e, i)
  OBVIOUS
<1>13. Sound(t) /\ Synced(t) /\ t.frames = g /\ t.focus = s.focus /\ t.drag = s.drag
       /\ t.btn_held = s.btn_held
  BY <1>9, <1>10, <1>11, <1>12, SyncFacts
<1>14. Len(g) = Len(f) /\ g[Len(g)] = h
  <2>1. Without(f, i) \in Seq(Frame) /\ Len(Without(f, i)) = Len(f) - 1
    BY <1>3, WithoutPicks
  <2>2. Len(f) \in Nat
    OBVIOUS
  <2>3. Len(g) = Len(Without(f, i)) + 1 /\ g[Len(Without(f, i)) + 1] = h
    BY <1>2, <2>1, Appended
  <2>4. Len(Without(f, i)) + 1 = Len(f)
    BY <2>1, <2>2
  <2> QED  BY <2>3, <2>4
<1>15. Does(s, t)
  <2>1. h.kind \in Kinds
    BY <1>3, KindsAreKinds
  <2> QED  BY <1>1, <1>4, <1>13, <2>1 DEF Does, Stacked, ClientsOf
<1>16. h.maximized = f[i].maximized /\ DragOK(s) => DragOK(t)
  BY <1>1, <1>4, <1>13 DEF DragOK
<1> QED  BY <1>1, <1>2, <1>4, <1>12, <1>13, <1>14, <1>15, <1>16


\* The same, and drag and button stay.
Calm(s, t) ==
    Does(s, t) /\ t.drag = s.drag /\ t.btn_held = s.btn_held /\ (DragOK(s) => DragOK(t))

\* raise of a window one sees.
LEMMA RaiseStep ==
    ASSUME NEW s, Sound(s), NEW i \in Visible(s)
    PROVE  LET t == raise(s, i)
           IN  /\ Calm(s, t) /\ t.focus = s.focus /\ KindsOf(t.frames) = KindsOf(s.frames)
               /\ t.frames = Append(Without(s.frames, i), s.frames[i])
               /\ Len(t.frames) = Len(s.frames) /\ t.frames[Len(t.frames)] = s.frames[i]
<1>1. i \in DOMAIN s.frames /\ ~s.frames[i].minimized
  BY DEF Visible
<1>2. s.frames[i] \in Frame
  BY <1>1, KindsAreKinds DEF Sound, State
<1>3. s = [s EXCEPT !.frames = [s.frames EXCEPT ![i] = s.frames[i]]]
  BY DEF Sound, State
<1> QED  BY <1>1, <1>2, <1>3, LiftStep DEF Calm

\* raise of a window that is shown by this.
LEMMA UnminStep ==
    ASSUME NEW s, Sound(s), NEW i \in DOMAIN s.frames
    PROVE  LET t == raise(Unminimized(s, i), i)
           IN  /\ Calm(s, t) /\ t.focus = s.focus /\ KindsOf(t.frames) = KindsOf(s.frames)
               /\ t.frames = Append(Without(s.frames, i), [s.frames[i] EXCEPT !.minimized = FALSE])
               /\ Len(t.frames) = Len(s.frames)
<1>1. s.frames[i] \in Frame
  BY KindsAreKinds DEF Sound, State
<1>2. PICK h \in Frame : h = [s.frames[i] EXCEPT !.minimized = FALSE]
  BY <1>1 DEF Frame
<1>3. h.kind = s.frames[i].kind /\ ~h.minimized /\ h.maximized = s.frames[i].maximized
  BY <1>1, <1>2 DEF Frame
<1>4. PICK e : e = Unminimized(s, i) /\ e = [s EXCEPT !.frames = [s.frames EXCEPT ![i] = h]]
  BY <1>2 DEF Unminimized, Sound, State
<1>5. PICK t : t = raise(e, i)
  OBVIOUS
<1>6. /\ Does(s, t) /\ t.focus = s.focus /\ t.drag = s.drag /\ t.btn_held = s.btn_held
      /\ t.frames = Append(Without(s.frames, i), h) /\ Len(t.frames) = Len(s.frames)
      /\ KindsOf(t.frames) = KindsOf(s.frames) /\ (DragOK(s) => DragOK(t))
  BY <1>3, <1>4, <1>5, LiftStep
<1> QED  BY <1>2, <1>4, <1>5, <1>6 DEF Calm

\* toggle_max of a window one sees; afterwards it is on top.
LEMMA ToggleStep ==
    ASSUME NEW s, Sound(s), NEW i \in Visible(s)
    PROVE  LET t == toggle_max(s, i)
           IN  /\ Does(s, t) /\ t.drag = s.drag /\ t.btn_held = s.btn_held
               /\ KindsOf(t.frames) = KindsOf(s.frames)
               /\ \E h \in Frame : /\ h.kind = s.frames[i].kind /\ ~h.minimized
                                  /\ t.frames = Append(Without(s.frames, i), h)
<1>1. i \in DOMAIN s.frames /\ ~s.frames[i].minimized
  BY DEF Visible
<1>2. s.frames[i] \in Frame
  BY <1>1, KindsAreKinds DEF Sound, State
<1>3. PICK h \in Frame : h = [s.frames[i] EXCEPT !.maximized = ~@]
  BY <1>2 DEF Frame
<1>4. h.kind = s.frames[i].kind /\ ~h.minimized
  BY <1>1, <1>2, <1>3 DEF Frame
<1>5. PICK e : /\ e = [s EXCEPT !.frames[i].maximized = ~@]
               /\ e = [s EXCEPT !.frames = [s.frames EXCEPT ![i] = h]]
  BY <1>3 DEF Sound, State
<1>6. PICK t : t = raise(e, i)
  OBVIOUS
<1>7. /\ Does(s, t) /\ t.drag = s.drag /\ t.btn_held = s.btn_held
      /\ t.frames = Append(Without(s.frames, i), h) /\ KindsOf(t.frames) = KindsOf(s.frames)
  BY <1>1, <1>4, <1>5, <1>6, LiftStep
<1>8. toggle_max(s, i) = t
  BY <1>5, <1>6 DEF toggle_max
<1> QED  BY <1>4, <1>7, <1>8

\* restore_min: the window is shown and raised, the one at its old index gets the focus.
LEMMA RestoreStep ==
    ASSUME NEW s, Sound(s), NEW i \in DOMAIN s.frames
    PROVE  Calm(s, restore_min(s, i))
<1>1. PICK r : r = raise(Unminimized(s, i), i)
  OBVIOUS
<1>2. Calm(s, r) /\ Len(r.frames) = Len(s.frames)
  BY <1>1, UnminStep
<1>3. Sound(r) /\ Synced(r)
  BY <1>2 DEF Calm, Does
<1>4. i \in DOMAIN r.frames
  BY <1>2, <1>3 DEF Sound, State
<1>5. PICK t : t = focus_frame(r, i)
  OBVIOUS
<1>6. Sound(t) /\ Synced(t) /\ t.frames = r.frames /\ t.drag = r.drag /\ t.btn_held = r.btn_held
  BY <1>3, <1>4, <1>5, FocusFacts
<1>7. Calm(s, t)
  BY <1>2, <1>6 DEF Calm, Does, DragOK
<1> QED  BY <1>1, <1>5, <1>7 DEF restore_min

\* A new frame is a frame.
LEMMA NewFrame ==
    ASSUME NEW k \in Kinds
    PROVE  /\ frame_new(k) \in Frame /\ frame_new(k).kind = k
           /\ frame_new(k).minimized = FALSE /\ frame_new(k).maximized = FALSE
<1>1. frame_new(k) \in Frame
  BY DEF Frame, frame_new
<1>2. frame_new(k).kind = k /\ frame_new(k).minimized = FALSE /\ frame_new(k).maximized = FALSE
  BY DEF frame_new
<1> QED  BY <1>1, <1>2

\* Taking out the last entry undoes Append.
LEMMA WithoutLast ==
    ASSUME NEW V, NEW f \in Seq(V), NEW h \in V
    PROVE  Without(Append(f, h), Len(f) + 1) = f
<1>1. PICK N \in Nat : N = Len(f) /\ DOMAIN f = 1 .. N
  OBVIOUS
<1>2. PICK g \in Seq(V) : g = Append(f, h)
  BY Appended
<1>3. Len(g) = N + 1 /\ \A j \in 1 .. N : g[j] = f[j] /\ j < N + 1
  BY <1>1, <1>2
<1>4. Without(g, N + 1) = [j \in 1 .. N |-> IF j < N + 1 THEN g[j] ELSE g[j + 1]]
  <2>1. (N + 1) - 1 = N
    OBVIOUS
  <2> QED  BY <1>3, <2>1 DEF Without
<1>5. Without(g, N + 1) = [j \in 1 .. N |-> f[j]]
  BY <1>3, <1>4
<1>6. f = [j \in 1 .. N |-> f[j]]
  BY <1>1
<1> QED  BY <1>1, <1>2, <1>5, <1>6

\* Show: a window of the kernel is opened if need be, shown, raised and focused.
LEMMA ShowStep ==
    ASSUME NEW s, Sound(s), NEW n \in System
    PROVE  Calm(s, Show(s, Sys(n)))
<1>1. PICK k \in Kinds : k = Sys(n)
  BY DEF Kinds, Sys
<1>2. PICK f \in Seq(Frame) : f = s.frames /\ Once(f) /\ s \in State
  BY DEF Sound, State
<1>3. PICK N \in Nat : N = Len(f) /\ DOMAIN f = 1 .. N
  OBVIOUS
<1>4. IndexOf(s, k) # {} <=> k \in KindsOf(f)
  BY <1>2 DEF IndexOf, KindsOf
<1>5. ASSUME NEW r, Calm(s, r), NEW L, L = Len(r.frames), L \in DOMAIN r.frames
      PROVE  Calm(s, focus_frame(r, L))
  <2>1. Sound(r) /\ Synced(r)
    BY <1>5 DEF Calm, Does
  <2>2. PICK t : t = focus_frame(r, L)
    OBVIOUS
  <2>3. Sound(t) /\ Synced(t) /\ t.frames = r.frames /\ t.drag = r.drag /\ t.btn_held = r.btn_held
    BY <1>5, <2>1, <2>2, FocusFacts
  <2>4. Calm(s, t)
    BY <1>5, <2>3 DEF Calm, Does, DragOK
  <2> QED  BY <2>2, <2>4
<1>6. CASE k \in KindsOf(f)
  <2>1. PICK i : i = CHOOSE j \in IndexOf(s, k) : TRUE
    OBVIOUS
  <2>2. i \in DOMAIN s.frames
    BY <1>4, <1>6, <2>1 DEF IndexOf
  <2>3. PICK r : r = raise(Unminimized(s, i), i)
    OBVIOUS
  <2>4. Calm(s, r) /\ Len(r.frames) = N
    BY <1>2, <1>3, <2>2, <2>3, UnminStep
  <2>5. Len(r.frames) \in DOMAIN r.frames
    <3>1. r.frames \in Seq(Frame)
      BY <2>4 DEF Calm, Does, Sound, State
    <3>2. N \in 1 .. N
      BY <1>2, <1>3, <2>2
    <3> QED  BY <2>4, <3>1, <3>2
  <2>6. Show(s, k) = focus_frame(r, Len(r.frames))
    BY <1>4, <1>6, <2>1, <2>3 DEF Show
  <2> QED  BY <1>1, <1>5, <2>4, <2>5, <2>6
<1>7. CASE k \notin KindsOf(f)
  <2>1. PICK h \in Frame : h = frame_new(k) /\ h.kind = k /\ h.minimized = FALSE
    BY NewFrame
  <2>2. PICK g \in Seq(Frame) : g = Append(f, h)
    BY Appended
  <2>3. /\ Once(g) /\ KindsOf(g) = KindsOf(f) \cup {k} /\ Fronted(f, g, k)
        /\ \A c : Grabbable(f, c) => Grabbable(g, c)
    BY <1>2, <1>7, <2>1, <2>2, AddedFrame
  <2>4. DOMAIN g = 1 .. N + 1 /\ Len(g) = N + 1 /\ g[N + 1] = h /\ N + 1 \in DOMAIN g
    BY <1>3, <2>2, Appended
  <2>5. PICK e : e = [s EXCEPT !.frames = g]
    OBVIOUS
  <2>6. e \in State /\ e.frames = g /\ e.focus = s.focus /\ e.drag = s.drag /\ e.btn_held = s.btn_held
    BY <1>2, <2>5, SetFrames
  <2>7. Sound(e)
    BY <1>2, <2>3, <2>6 DEF Sound, FocusOK
  <2>8. IndexOf(e, k) = {N + 1}
    BY <2>1, <2>3, <2>4, <2>6 DEF IndexOf, Once
  <2>9. PICK r : r = raise(Unminimized(e, N + 1), N + 1)
    OBVIOUS
  <2>10. /\ Calm(e, r) /\ KindsOf(r.frames) = KindsOf(g) /\ Len(r.frames) = N + 1
         /\ r.frames = Append(Without(g, N + 1), [h EXCEPT !.minimized = FALSE])
    BY <2>4, <2>6, <2>7, <2>9, UnminStep
  <2>11. r.frames = g
    <3>1. [h EXCEPT !.minimized = FALSE] = h
      BY <2>1 DEF Frame
    <3>2. Without(g, N + 1) = f
      BY <1>3, <2>2, WithoutLast
    <3> QED  BY <2>2, <2>10, <3>1, <3>2
  <2>12. ClientsOf(g) = ClientsOf(f)
    <3>1. \A w \in WinIds : Client(w) # k
      BY <1>1 DEF Client, Sys, System
    <3> QED  BY <2>3, <3>1 DEF ClientsOf
  <2>13. Calm(s, r)
    <3>1. Sound(r) /\ Synced(r) /\ r.drag = s.drag /\ r.btn_held = s.btn_held
      BY <2>6, <2>10 DEF Calm, Does
    <3>2. Does(s, r)
      BY <1>2, <2>3, <2>11, <2>12, <3>1 DEF Does, Stacked
    <3>3. DragOK(s) => DragOK(r)
      BY <1>2, <2>3, <2>11, <3>1 DEF DragOK
    <3> QED  BY <3>1, <3>2, <3>3 DEF Calm
  <2>14. Show(s, k) = focus_frame(r, Len(r.frames))
    <3>1. IndexOf(s, k) = {}
      BY <1>4, <1>7
    <3>2. e = [s EXCEPT !.frames = Append(@, frame_new(k))]
      BY <1>2, <2>1, <2>2, <2>5
    <3>3. N + 1 = CHOOSE j \in IndexOf(e, k) : TRUE
      BY <2>8
    <3> QED  BY <2>9, <3>1, <3>2, <3>3 DEF Show
  <2>15. Len(r.frames) \in DOMAIN r.frames
    BY <2>4, <2>11
  <2> QED  BY <1>1, <1>5, <2>13, <2>14, <2>15
<1> QED  BY <1>6, <1>7


\* A stack that stays as it is.
LEMMA SameStack ==
    ASSUME NEW f
    PROVE  Stacked(f, f)
BY UnderPairs DEF Stacked, Thinned

\* apply_key_tab: the next window comes up.
LEMMA TabStep ==
    ASSUME NEW s, Sound(s), Synced(s)
    PROVE  Calm(s, apply_key_tab(s))
<1>1. PICK f \in Seq(Frame) : f = s.frames /\ s \in State
  BY DEF Sound, State
<1>2. PICK N \in Nat : N = Len(f) /\ DOMAIN f = 1 .. N
  OBVIOUS
<1>3. CASE f = << >>
  <2>1. PICK t : t = [s EXCEPT !.focus = "Term"]
    OBVIOUS
  <2>2. t \in State /\ t.frames = s.frames /\ t.focus = "Term" /\ t.drag = s.drag
        /\ t.btn_held = s.btn_held /\ t.CLIENT_TOP = s.CLIENT_TOP
    BY <1>1, <2>1, SetFocus
  <2>3. Sound(t) /\ Synced(t)
    BY <2>2, TopSame DEF Sound, Synced, FocusOK
  <2>4. Calm(s, t)
    BY <2>2, <2>3, SameStack DEF Calm, Does, DragOK
  <2> QED  BY <1>1, <1>3, <2>1, <2>4 DEF apply_key_tab
<1>4. CASE f # << >>
  <2>1. N > 0
    BY <1>2, <1>4
  <2>2. PICK cur \in 1 .. N : cur = IF visible_top(s) = 0 THEN 1 ELSE visible_top(s)
    BY <1>1, <1>2, <2>1, TopKind
  <2>3. PICK next \in 1 .. N : next = (cur % N) + 1
    <3>1. cur % N \in 0 .. N - 1
      BY <2>1
    <3> QED  BY <3>1
  <2>4. PICK r : r = raise(Unminimized(s, next), next)
    OBVIOUS
  <2>5. Calm(s, r) /\ Len(r.frames) = N
    BY <1>1, <1>2, <2>4, UnminStep
  <2>6. Sound(r) /\ Synced(r)
    BY <2>5 DEF Calm, Does
  <2>7. Len(r.frames) \in DOMAIN r.frames
    <3>1. r.frames \in Seq(Frame)
      BY <2>6 DEF Sound, State
    <3> QED  BY <2>1, <2>5, <3>1
  <2>8. PICK t : t = focus_frame(r, Len(r.frames))
    OBVIOUS
  <2>9. Sound(t) /\ Synced(t) /\ t.frames = r.frames /\ t.drag = r.drag /\ t.btn_held = r.btn_held
    BY <2>6, <2>7, <2>8, FocusFacts
  <2>10. Calm(s, t)
    BY <2>5, <2>9 DEF Calm, Does, DragOK
  <2>11. apply_key_tab(s) = t
    BY <1>1, <1>2, <1>4, <2>2, <2>3, <2>4, <2>8 DEF apply_key_tab
  <2> QED  BY <2>10, <2>11
<1> QED  BY <1>3, <1>4

\* What a click does to the stack while nothing is dragged.
Quietly(s, t) == Does(s, t) /\ t.drag = NoKind /\ t.btn_held = s.btn_held

\* Of a state without a drag NoDragOf changes nothing.
LEMMA NoDragSame ==
    ASSUME NEW s \in State, s.drag = NoKind, NEW k
    PROVE  NoDragOf(s, k) = s
<1>1. [s EXCEPT !.drag = NoKind] = s
  BY DEF State
<1> QED  BY <1>1 DEF NoDragOf

\* minimize_frame.
LEMMA MinimizeStep ==
    ASSUME NEW s, Sound(s), s.drag = NoKind, NEW i \in DOMAIN s.frames
    PROVE  Quietly(s, minimize_frame(s, i))
<1>1. PICK f \in Seq(Frame) : f = s.frames /\ s \in State /\ Once(f)
  BY DEF Sound, State
<1>2. PICK g : g = [f EXCEPT ![i].minimized = TRUE]
  OBVIOUS
<1>3. g \in Seq(Frame) /\ Once(g) /\ KindsOf(g) = KindsOf(f) /\ Thinned(f, g)
  BY <1>1, <1>2, MinimizedFrame
<1>4. PICK m : m = [s EXCEPT !.frames[i].minimized = TRUE] /\ m = [s EXCEPT !.frames = g]
  <2>1. g = [s.frames EXCEPT ![i].minimized = TRUE]
    BY <1>1, <1>2
  <2>2. PICK m : m = [s EXCEPT !.frames[i].minimized = TRUE]
    OBVIOUS
  <2>3. m = [s EXCEPT !.frames = [s.frames EXCEPT ![i].minimized = TRUE]]
    BY <2>2 DEF Sound, State
  <2> QED  BY <2>1, <2>2, <2>3
<1>5. m \in State /\ m.frames = g /\ m.drag = NoKind /\ m.btn_held = s.btn_held
  <2>1. m = [s EXCEPT !.frames = g]
    BY <1>4
  <2> QED  BY <1>1, <1>3, <2>1, SetFrames
<1>6. PICK t : t = retarget_focus(m)
  OBVIOUS
<1>7. Sound(t) /\ Synced(t) /\ t.frames = g /\ t.drag = NoKind /\ t.btn_held = s.btn_held
  BY <1>3, <1>5, <1>6, RetargetFacts
<1>8. minimize_frame(s, i) = t
  BY <1>4, <1>5, <1>6, NoDragSame DEF minimize_frame
<1> QED  BY <1>1, <1>3, <1>7, <1>8 DEF Quietly, Does, Stacked, ClientsOf

\* close_frame.
LEMMA CloseStep ==
    ASSUME NEW s, Sound(s), s.drag = NoKind, NEW i \in DOMAIN s.frames
    PROVE  LET t == close_frame(s, i)
           IN  /\ Sound(t) /\ Synced(t) /\ Stacked(s.frames, t.frames)
               /\ KindsOf(t.frames) = KindsOf(s.frames) \ {s.frames[i].kind}
               /\ t.drag = NoKind /\ t.btn_held = s.btn_held
<1>1. PICK f \in Seq(Frame) : f = s.frames /\ s \in State /\ Once(f) /\ i \in DOMAIN f
  BY DEF Sound, State
<1>2. PICK g \in Seq(Frame) : g = Without(f, i)
  BY <1>1, RemovedFrame
<1>3. Once(g) /\ Thinned(f, g) /\ KindsOf(g) = KindsOf(f) \ {f[i].kind}
  BY <1>1, <1>2, RemovedFrame
<1>6. PICK m : m = [s EXCEPT !.frames = g]
  OBVIOUS
<1>7. m \in State /\ m.frames = g /\ m.drag = NoKind /\ m.btn_held = s.btn_held
  BY <1>1, <1>6, SetFrames
<1>8. PICK t : t = retarget_focus(m)
  OBVIOUS
<1>9. Sound(t) /\ Synced(t) /\ t.frames = g /\ t.drag = NoKind /\ t.btn_held = s.btn_held
  BY <1>3, <1>7, <1>8, RetargetFacts
<1>10. close_frame(s, i) = t
  <2>1. NoDragOf(s, s.frames[i].kind) = s
    BY <1>1, NoDragSame
  <2>2. [s EXCEPT !.frames = Without(@, i)] = m
    BY <1>1, <1>2, <1>6
  <2> QED  BY <1>8, <2>1, <2>2 DEF close_frame
<1> QED  BY <1>1, <1>3, <1>9, <1>10 DEF Stacked

\* handle_task_click: a window is shown, minimized or raised.
LEMMA TaskStep ==
    ASSUME NEW s, Sound(s), Synced(s), s.drag = NoKind, NEW i \in DOMAIN s.frames
    PROVE  Quietly(s, handle_task_click(s, i))
<1>1. CASE s.frames[i].minimized
  <2>1. Calm(s, restore_min(s, i))
    BY RestoreStep
  <2> QED  BY <1>1, <2>1 DEF handle_task_click, Quietly, Calm
<1>2. CASE ~s.frames[i].minimized /\ visible_top(s) = i
  <2>1. Quietly(s, minimize_frame(s, i))
    BY MinimizeStep
  <2> QED  BY <1>2, <2>1 DEF handle_task_click
<1>3. CASE ~s.frames[i].minimized /\ visible_top(s) # i
  <2>1. i \in Visible(s)
    BY <1>3 DEF Visible
  <2>2. PICK r : r = raise(s, i)
    OBVIOUS
  <2>3. Calm(s, r) /\ Len(r.frames) = Len(s.frames)
    BY <2>1, <2>2, RaiseStep
  <2>4. Sound(r) /\ Synced(r)
    BY <2>3 DEF Calm, Does
  <2>5. i \in DOMAIN r.frames
    BY <2>3, <2>4 DEF Sound, State
  <2>6. PICK t : t = focus_frame(r, i)
    OBVIOUS
  <2>7. Sound(t) /\ Synced(t) /\ t.frames = r.frames /\ t.drag = r.drag /\ t.btn_held = r.btn_held
    BY <2>4, <2>5, <2>6, FocusFacts
  <2>8. Quietly(s, t)
    BY <2>3, <2>7 DEF Quietly, Calm, Does
  <2> QED  BY <1>3, <2>2, <2>6, <2>8 DEF handle_task_click
<1> QED  BY <1>1, <1>2, <1>3


\* on_client_create: a client's new window is on top.
LEMMA CreateStep ==
    ASSUME NEW s, Sound(s), NEW id \in WinIds, Client(id) \notin KindsOf(s.frames)
    PROVE  LET t == on_client_create(s, id)
           IN  /\ Sound(t) /\ Synced(t) /\ Stacked(s.frames, t.frames)
               /\ KindsOf(t.frames) = KindsOf(s.frames) \cup {Client(id)}
               /\ DragOK(s) => DragOK(t)
<1>1. PICK f \in Seq(Frame) : f = s.frames /\ s \in State /\ Once(f)
  BY DEF Sound, State
<1>2. PICK k \in Kinds : k = Client(id)
  BY DEF Kinds, Client
<1>3. PICK h \in Frame : h = frame_new(k) /\ h.kind = k /\ h.minimized = FALSE
  BY NewFrame
<1>4. PICK g : g = Append(f, h)
  OBVIOUS
<1>5. /\ g \in Seq(Frame) /\ Once(g) /\ KindsOf(g) = KindsOf(f) \cup {k} /\ Fronted(f, g, k)
      /\ \A c : Grabbable(f, c) => Grabbable(g, c)
  BY <1>1, <1>2, <1>3, <1>4, AddedFrame
<1>6. PICK e : e = [s EXCEPT !.frames = g]
  OBVIOUS
<1>7. e \in State /\ e.frames = g /\ e.drag = s.drag /\ e.btn_held = s.btn_held
  BY <1>1, <1>5, <1>6, SetFrames
<1>8. PICK r : r = [e EXCEPT !.focus = "Term"]
  OBVIOUS
<1>9. r \in State /\ r.frames = g /\ r.focus = "Term" /\ r.drag = s.drag /\ r.btn_held = s.btn_held
  BY <1>7, <1>8, SetFocus
<1>10. Sound(r)
  BY <1>5, <1>9 DEF Sound, FocusOK
<1>11. r = [s EXCEPT !.frames = Append(@, frame_new(Client(id))), !.focus = "Term"]
  BY <1>1, <1>2, <1>3, <1>4, <1>6, <1>8 DEF State
<1>12. PICK t : t = on_client_create(s, id) /\ t = sync_client_top(r)
  BY <1>11 DEF on_client_create
<1>13. Sound(t) /\ Synced(t) /\ t.frames = g /\ t.drag = s.drag /\ t.btn_held = s.btn_held
  BY <1>9, <1>10, <1>12, SyncFacts
<1>14. DragOK(s) => DragOK(t)
  BY <1>1, <1>5, <1>13 DEF DragOK
<1> QED  BY <1>1, <1>2, <1>5, <1>12, <1>13, <1>14 DEF Stacked

\* on_client_close: the windows go, and with them a drag of one of them.
LEMMA ClientCloseStep ==
    ASSUME NEW s, Good(s), NEW ids \in SUBSET WinIds
    PROVE  LET t == on_client_close(s, ids)
           IN  /\ Good(t) /\ Stacked(s.frames, t.frames)
               /\ KindsOf(t.frames) = KindsOf(s.frames) \ {Client(w) : w \in ids}
<1>1. PICK f \in Seq(Frame) : f = s.frames /\ s \in State /\ Once(f)
  BY DEF Good, Sound, State
<1>2. PICK gone : gone = {Client(w) : w \in ids}
  OBVIOUS
<1>3. PICK stay \in SUBSET DOMAIN f : stay = {i \in DOMAIN f : f[i].kind \notin gone}
  OBVIOUS
<1>4. CASE stay = DOMAIN f
  <2>1. KindsOf(f) = KindsOf(f) \ gone
    BY <1>3, <1>4 DEF KindsOf
  <2>2. on_client_close(s, ids) = s
    BY <1>1, <1>2, <1>3, <1>4 DEF on_client_close
  <2> QED  BY <1>1, <1>2, <2>1, <2>2, SameStack
<1>5. CASE stay # DOMAIN f
  <2>1. PICK g \in Seq(Frame) : g = Kept(f, stay)
    BY KeptFacts
  <2>2. PICK at : Picks(g, f, at) /\ {at[m] : m \in 1 .. Len(g)} = stay
    <3>1. \E at : Picks(Kept(f, stay), f, at) /\ {at[m] : m \in 1 .. Len(Kept(f, stay))} = stay
      BY KeptFacts
    <3> QED  BY <2>1, <3>1, Zenon
  <2>3. /\ Once(g) /\ Thinned(f, g) /\ KindsOf(g) = {f[i].kind : i \in stay}
        /\ \A k : Grabbable(f, k) /\ k \in KindsOf(g) => Grabbable(g, k)
    <3>1. /\ Once(g) /\ Thinned(f, g)
          /\ KindsOf(g) = {f[i].kind : i \in {at[m] : m \in 1 .. Len(g)}}
          /\ \A k : Grabbable(f, k) /\ k \in KindsOf(g) => Grabbable(g, k)
      BY <1>1, <2>2, PickedFrames
    <3> QED  BY <2>2, <3>1
  <2>4. KindsOf(g) = KindsOf(f) \ gone
    <3>1. PICK K : K = KindsOf(g)
      OBVIOUS
    <3>2. K = KindsOf(f) \ gone
      BY <1>3, <2>3, <3>1 DEF KindsOf
    <3> QED  BY <3>1, <3>2
  <2>5. PICK d \in Kinds \cup {NoKind} : d = IF s.drag \in gone THEN NoKind ELSE s.drag
    BY <1>1 DEF State
  <2>6. PICK e : e = [s EXCEPT !.frames = g]
    OBVIOUS
  <2>7. e \in State /\ e.frames = g /\ e.btn_held = s.btn_held
    BY <1>1, <2>6, SetFrames
  <2>8. PICK r : r = [e EXCEPT !.drag = d]
    OBVIOUS
  <2>9. r \in State /\ r.frames = g /\ r.drag = d /\ r.btn_held = s.btn_held
    BY <2>7, <2>8, SetDrag
  <2>10. r = [s EXCEPT !.frames = Kept(@, stay), !.drag = IF @ \in gone THEN NoKind ELSE @]
    BY <1>1, <2>1, <2>5, <2>6, <2>8 DEF State
  <2>11. PICK t : t = on_client_close(s, ids) /\ t = retarget_focus(r)
    BY <1>1, <1>2, <1>3, <1>5, <2>10 DEF on_client_close
  <2>12. Sound(t) /\ Synced(t) /\ t.frames = g /\ t.drag = d /\ t.btn_held = s.btn_held
    BY <2>3, <2>9, <2>11, RetargetFacts
  <2>13. DragOK(t)
    <3> SUFFICES ASSUME d # NoKind PROVE s.btn_held /\ Grabbable(g, d)
      BY <2>12 DEF DragOK
    <3>1. d = s.drag /\ d \notin gone
      BY <2>5
    <3>2. s.btn_held /\ Grabbable(f, d)
      BY <1>1, <3>1 DEF Good, DragOK
    <3>3. d \in KindsOf(f)
      BY <3>2 DEF Grabbable, KindsOf, Seen
    <3> QED  BY <2>3, <2>4, <3>1, <3>2, <3>3
  <2> QED  BY <1>1, <1>2, <2>3, <2>4, <2>11, <2>12, <2>13 DEF Good, Stacked
<1> QED  BY <1>4, <1>5


-----------------------------------------------------------------------------
(* Overlays, and the operators that launch.                                *)

\* Only overlays and the dialog change.
Dressed(s, t) == Plain(s, t) /\ t.drag = s.drag /\ t.btn_held = s.btn_held

\* Such a change, alone or before another one, is calm.
LEMMA DressedCalm ==
    ASSUME NEW s, Sound(s), Synced(s), NEW r, Dressed(s, r)
    PROVE  Sound(r) /\ Synced(r) /\ Calm(s, r) /\ \A t : Calm(r, t) => Calm(s, t)
<1>1. Sound(r) /\ Synced(r) /\ r.frames = s.frames /\ r.drag = s.drag /\ r.btn_held = s.btn_held
  BY PlainSound DEF Dressed, Plain
<1>2. DragOK(s) <=> DragOK(r)
  BY <1>1 DEF DragOK
<1>3. Calm(s, r)
  BY <1>1, <1>2, SameStack DEF Calm, Does
<1>4. \A t : Calm(r, t) => Calm(s, t)
  BY <1>1, <1>2 DEF Calm, Does
<1> QED  BY <1>1, <1>3, <1>4

\* The operators of chrome.rs change no more than that.
LEMMA OverlaySteps ==
    ASSUME NEW s \in State
    PROVE  /\ \A o : Dressed(s, close_overlay(s, o))
           /\ \A o \in Overlays : Dressed(s, open_overlay(s, o)) /\ Dressed(s, toggle_overlay(s, o))
           /\ \A k \in {"Reboot", "PowerOff"} : Dressed(s, open_power_dlg(s, k))
           /\ Dressed(s, close_power_dlg(s))
           /\ Dressed(s, NoLaunchers(s)) /\ Dressed(s, RightOverlay(s))
           /\ \A v \in SUBSET Overlays : Dressed(s, [s EXCEPT !.open = v])
           /\ \A b \in BOOLEAN : Dressed(s, [s EXCEPT !.power_ok = b])
<1>1. ASSUME NEW v \in SUBSET Overlays PROVE Dressed(s, [s EXCEPT !.open = v])
  BY SetOpen DEF Dressed
<1>2. s.open \in SUBSET Overlays
  BY DEF State
<1>3. ASSUME NEW o PROVE Dressed(s, close_overlay(s, o))
  <2>1. s.open \ {o} \in SUBSET Overlays
    BY <1>2
  <2> QED  BY <1>1, <2>1 DEF close_overlay
<1>4. ASSUME NEW o \in Overlays PROVE Dressed(s, open_overlay(s, o))
  <2>1. (s.open \ Closes(o)) \cup {o} \in SUBSET Overlays
    BY <1>2
  <2> QED  BY <1>1, <2>1 DEF open_overlay
<1>5. ASSUME NEW o \in Overlays PROVE Dressed(s, toggle_overlay(s, o))
  BY <1>3, <1>4 DEF toggle_overlay
<1>6. ASSUME NEW k \in {"Reboot", "PowerOff"} PROVE Dressed(s, open_power_dlg(s, k))
  <2>1. PICK v \in SUBSET Overlays : v = s.open \ {"launcher", "runner", "desk_menu"}
    BY <1>2
  <2>2. open_power_dlg(s, k) = [s EXCEPT !.open = v, !.power = k, !.power_ok = FALSE]
    BY <2>1 DEF open_power_dlg
  <2>3. k \in {"None", "Reboot", "PowerOff"}
    OBVIOUS
  <2> QED  BY <2>2, <2>3 DEF Dressed, Plain, State
<1>7. Dressed(s, close_power_dlg(s))
  BY DEF close_power_dlg, Dressed, Plain, State
<1>8. Dressed(s, NoLaunchers(s))
  <2>1. s.open \ {"launcher", "runner"} \in SUBSET Overlays
    BY <1>2
  <2> QED  BY <1>1, <2>1 DEF NoLaunchers
<1>9. Dressed(s, RightOverlay(s))
  BY <1>3 DEF RightOverlay
<1>10. ASSUME NEW b \in BOOLEAN PROVE Dressed(s, [s EXCEPT !.power_ok = b])
  BY DEF Dressed, Plain, State
<1> QED  BY <1>1, <1>3, <1>4, <1>5, <1>6, <1>7, <1>8, <1>9, <1>10

\* The operators that launch: an overlay closes, a window of the kernel may come up.
LEMMA LaunchSteps ==
    ASSUME NEW s, Sound(s), Synced(s)
    PROVE  /\ \A n \in Names : Calm(s, launch_index(s, n)) /\ Calm(s, runner_launch(s, n))
           /\ Calm(s, desk_menu_activate(s))
<1>1. s \in State
  BY DEF Sound
<1>2. ASSUME NEW o PROVE /\ Sound(close_overlay(s, o)) /\ Synced(close_overlay(s, o))
                         /\ \A t : Calm(close_overlay(s, o), t) => Calm(s, t)
  BY <1>1, OverlaySteps, DressedCalm
<1>3. ASSUME NEW r, Sound(r), Synced(r), NEW n PROVE Calm(r, Launched(r, n))
  <2>1. Calm(r, Show(r, Sys("Vt"))) /\ Calm(r, Show(r, Sys("Files"))) /\ Calm(r, Show(r, Sys("Settings")))
    BY <1>3, ShowStep DEF System
  <2>2. Calm(r, r)
    BY <1>3, SameStack DEF Calm, Does
  <2> QED  BY <2>1, <2>2 DEF Launched
<1>4. ASSUME NEW n \in Names PROVE Calm(s, runner_launch(s, n))
  <2>1. PICK r : r = close_overlay(s, "runner")
    OBVIOUS
  <2> QED  BY <1>2, <1>3, <2>1 DEF runner_launch
<1>5. ASSUME NEW n \in Names PROVE Calm(s, launch_index(s, n))
  <2>1. PICK r : r = close_overlay(s, "launcher")
    OBVIOUS
  <2>2. Calm(s, Launched(r, n))
    BY <1>2, <1>3, <2>1
  <2>3. Calm(s, open_power_dlg(s, "Reboot")) /\ Calm(s, open_power_dlg(s, "PowerOff"))
    BY <1>1, OverlaySteps, DressedCalm
  <2> QED  BY <2>1, <2>2, <2>3 DEF launch_index
<1>6. Calm(s, desk_menu_activate(s))
  <2>1. PICK r : r = close_overlay(s, "desk_menu")
    OBVIOUS
  <2>2. Calm(r, Show(r, Sys("Settings")))
    BY <1>2, <2>1, ShowStep DEF System
  <2> QED  BY <1>2, <2>1, <2>2 DEF desk_menu_activate
<1> QED  BY <1>4, <1>5, <1>6


-----------------------------------------------------------------------------
(* The invariant, and the steps of the keys.                               *)

Events == [pid : Pids, kind : {"key", "move", "down"}]

\* A ring of events for processes that are there.
Deliverable(q) == q \in Seq(Events) /\ \A i \in DOMAIN q : q[i].pid \notin exited

\* The invariant: state and stack in order, exactly the surfaces in use have a frame,
\* and only processes that are there own surfaces or wait for events.
DeskInv ==
    /\ Good(st)
    /\ slots \in [WinIds -> Pids \cup {0}]
    /\ exited \subseteq Pids
    /\ ClientsOf(st.frames) = {w \in WinIds : slots[w] # 0}
    /\ \A w \in WinIds : slots[w] \notin exited
    /\ Deliverable(evq)

\* A step of the desktop that leaves the surfaces alone.
Tidy == Good(st') /\ Stacked(st.frames, st'.frames) /\ ClientsOf(st'.frames) = ClientsOf(st.frames)

\* push_ev, push_client and push_client_move keep the ring in order.
LEMMA PushSteps ==
    ASSUME DeskInv, NEW w \in WinIds
    PROVE  /\ \A q : Deliverable(q) /\ slots[w] # 0 => Deliverable(push_ev(q, slots[w], "down"))
           /\ Deliverable(push_client(w, "key")) /\ Deliverable(push_client_move(w))
<1>1. ASSUME NEW q, Deliverable(q), slots[w] # 0, NEW k \in {"key", "move", "down"}
      PROVE  Deliverable(push_ev(q, slots[w], k))
  <2>1. slots[w] \in Pids /\ slots[w] \notin exited
    BY <1>1 DEF DeskInv
  <2>2. PICK v \in Events : v = [pid |-> slots[w], kind |-> k] /\ v.pid \notin exited
    <3>1. PICK p \in Pids : p = slots[w] /\ p \notin exited
      BY <2>1
    <3>2. [pid |-> p, kind |-> k] \in Events /\ [pid |-> p, kind |-> k].pid = p
      BY DEF Events
    <3> QED  BY <3>1, <3>2
  <2>3. q \in Seq(Events)
    BY <1>1 DEF Deliverable
  <2>4. /\ Append(q, v) \in Seq(Events) /\ DOMAIN Append(q, v) = 1 .. Len(q) + 1
        /\ Append(q, v)[Len(q) + 1] = v /\ \A m \in 1 .. Len(q) : Append(q, v)[m] = q[m]
    BY <2>3, Appended
  <2>5. \A m \in 1 .. Len(q) + 1 : m \in 1 .. Len(q) \/ m = Len(q) + 1
    BY <2>3
  <2>6. DOMAIN q = 1 .. Len(q)
    BY <2>3
  <2>7. Deliverable(Append(q, v))
    BY <1>1, <2>2, <2>4, <2>5, <2>6 DEF Deliverable
  <2> QED  BY <1>1, <2>2, <2>7 DEF push_ev
<1>2. Deliverable(evq)
  BY DEF DeskInv
<1>3. Deliverable(push_client(w, "key")) /\ Deliverable(push_client(w, "move"))
  BY <1>1, <1>2 DEF push_client
<1>4. Deliverable(push_client_move(w))
  BY <1>2, <1>3 DEF push_client_move
<1> QED  BY <1>1, <1>3, <1>4

\* The active window, if it is a client's, has a surface.
LEMMA ClientKind ==
    ASSUME NEW k \in Kinds, k.name = "Client"
    PROVE  k.id \in WinIds /\ k = Client(k.id)
<1>1. "Client" \notin System
  BY DEF System
<1>2. k \in [name : {"Client"}, id : WinIds]
  BY <1>1 DEF Kinds
<1> QED  BY <1>2 DEF Client

\* A calm step of the state is tidy.
LEMMA CalmTidy ==
    ASSUME DeskInv, Calm(st, st')
    PROVE  Tidy
BY DEF DeskInv, Good, Calm, Does, Tidy

\* The keys that comp::poll applies.
LEMMA KeySteps ==
    ASSUME DeskInv, NEW k, KeyStep(k) \/ KeyToggleRunner
    PROVE  Tidy /\ Deliverable(evq') /\ UNCHANGED <<slots, exited>>
<1>1. Sound(st) /\ Synced(st) /\ st \in State /\ Deliverable(evq)
  BY DEF DeskInv, Good, Sound
<1>2. Calm(st, st)
  BY <1>1, SameStack DEF Calm, Does
<1>3. /\ \A o : Calm(st, close_overlay(st, o))
      /\ \A o \in Overlays : Calm(st, open_overlay(st, o))
      /\ Calm(st, close_power_dlg(st)) /\ \A b \in BOOLEAN : Calm(st, [st EXCEPT !.power_ok = b])
  BY <1>1, OverlaySteps, DressedCalm
<1>4. "runner" \in Overlays
  BY DEF Overlays
<1>5. CASE KeyToggleRunner
  <2>1. st' \in {st, close_overlay(st, "runner"), open_overlay(st, "runner")} /\ evq' = evq
        /\ UNCHANGED <<slots, exited>>
    BY <1>5 DEF KeyToggleRunner, Pop
  <2>2. Calm(st, st')
    BY <1>2, <1>3, <1>4, <2>1
  <2> QED  BY <1>1, <2>1, <2>2, CalmTidy
<1>6. CASE KeyConfirm(k)
  <2>1. st' \in {st, close_power_dlg(st), [st EXCEPT !.power_ok = ~@], [st EXCEPT !.power_ok = TRUE]}
        /\ evq' = evq /\ UNCHANGED <<slots, exited>>
    BY <1>6 DEF KeyConfirm, Confirm, Pop
  <2>2. Calm(st, [st EXCEPT !.power_ok = ~@])
    <3>1. PICK b \in BOOLEAN : b = ~st.power_ok
      OBVIOUS
    <3> QED  BY <1>3, <3>1
  <2>3. Calm(st, st')
    BY <1>2, <1>3, <2>1, <2>2
  <2> QED  BY <1>1, <2>1, <2>3, CalmTidy
<1>7. CASE KeyRunner(k)
  <2>1. /\ st' = st \/ st' = close_overlay(st, "runner") \/ \E n \in Names : st' = runner_launch(st, n)
        /\ evq' = evq /\ UNCHANGED <<slots, exited>>
    BY <1>7 DEF KeyRunner, Pop, RunnerNames
  <2>2. Calm(st, st')
    BY <1>1, <1>2, <1>3, <2>1, LaunchSteps
  <2> QED  BY <1>1, <2>1, <2>2, CalmTidy
<1>8. CASE KeyLauncher(k)
  <2>1. /\ \/ st' = st \/ st' = close_overlay(st, "launcher")
           \/ st' = apply_key_tab(close_overlay(st, "launcher"))
           \/ \E n \in Names : st' = launch_index(st, n)
        /\ evq' = evq /\ UNCHANGED <<slots, exited>>
    BY <1>8 DEF KeyLauncher, Pop
  <2>2. Calm(st, apply_key_tab(close_overlay(st, "launcher")))
    <3>1. PICK r : r = close_overlay(st, "launcher")
      OBVIOUS
    <3>2. Sound(r) /\ Synced(r) /\ \A t : Calm(r, t) => Calm(st, t)
      BY <1>1, <3>1, OverlaySteps, DressedCalm
    <3> QED  BY <3>1, <3>2, TabStep
  <2>3. Calm(st, st')
    BY <1>1, <1>2, <1>3, <2>1, <2>2, LaunchSteps
  <2> QED  BY <1>1, <2>1, <2>3, CalmTidy
<1>9. CASE KeyMenu(k)
  <2>1. /\ st' = st \/ (\E o : st' = close_overlay(st, o)) \/ st' = desk_menu_activate(st)
        /\ evq' = evq /\ UNCHANGED <<slots, exited>>
    BY <1>9 DEF KeyMenu, Pop
  <2>2. Calm(st, st')
    BY <1>1, <1>2, <1>3, <2>1, LaunchSteps
  <2> QED  BY <1>1, <2>1, <2>2, CalmTidy
<1>10. CASE KeyWindow(k)
  <2>1. /\ st' = apply_key_tab(st) \/ st' = st
        /\ evq' = evq \/ (top_kind(st).name = "Client" /\ evq' = push_client(top_kind(st).id, "key"))
        /\ UNCHANGED <<slots, exited>>
    BY <1>10 DEF KeyWindow, Pop
  <2>2. Calm(st, st')
    BY <1>1, <1>2, <2>1, TabStep
  <2>3. ASSUME top_kind(st).name = "Client" PROVE top_kind(st).id \in WinIds
    <3>1. st.frames \in Seq(Frame)
      BY <1>1 DEF State
    <3>2. top_kind(st) # NoKind
      BY <2>3 DEF NoKind
    <3>3. top_kind(st) \in Kinds
      BY <3>1, <3>2, TopKind, KindsAreKinds
    <3> QED  BY <2>3, <3>3, ClientKind
  <2>4. Deliverable(evq')
    <3>1. ASSUME NEW q, q = evq \/ (top_kind(st).name = "Client" /\ q = push_client(top_kind(st).id, "key"))
          PROVE  Deliverable(q)
      BY <1>1, <2>3, <3>1, PushSteps
    <3> QED  BY <2>1, <3>1 DEF Deliverable
  <2> QED  BY <2>1, <2>2, <2>4, CalmTidy
<1> QED  BY <1>5, <1>6, <1>7, <1>8, <1>9, <1>10 DEF KeyStep


-----------------------------------------------------------------------------
(* The mouse.                                                              *)

\* A part of a window that is hit belongs to a window one sees.
LEMMA HitSeen ==
    ASSUME NEW s, NEW h \in hit_test(s), h.part \in AllParts
    PROVE  h.i \in Visible(s)
<1>1. h # PanelHit /\ h # DeskHit
  BY DEF PanelHit, DeskHit, AllParts
<1>2. h \in [part : Parts, i : Hittable(s)]
  BY <1>1 DEF hit_test
<1> QED  BY <1>2 DEF Hittable

\* The state in which the branches on the event begin.
LEMMA PressedFacts ==
    ASSUME DeskInv, NEW e \in MouseEvent
    PROVE  /\ Plain(st, Pressed(e))
           /\ Pressed(e).drag = st.drag \/ Pressed(e).drag = NoKind
           /\ Pressed(e).btn_held = IF e.down THEN TRUE ELSE IF e.up THEN FALSE ELSE st.btn_held
<1>1. st \in State
  BY DEF DeskInv, Good, Sound
<1>2. PICK a : a = IF e.moved /\ st.drag # NoKind THEN apply_drag(st) ELSE st
  OBVIOUS
<1>3. /\ a \in State /\ a.frames = st.frames /\ a.focus = st.focus /\ a.btn_held = st.btn_held
      /\ a.CLIENT_TOP = st.CLIENT_TOP /\ (a.drag = st.drag \/ a.drag = NoKind)
  <2>1. a = st \/ a = [st EXCEPT !.drag = NoKind]
    BY <1>2 DEF apply_drag
  <2>2. CASE a = st
    BY <1>1, <2>2
  <2>3. CASE a = [st EXCEPT !.drag = NoKind]
    BY <1>1, <2>3, SetDrag
  <2> QED  BY <2>1, <2>2, <2>3
<1>4. PICK b \in BOOLEAN : b = IF e.down THEN TRUE ELSE IF e.up THEN FALSE ELSE st.btn_held
  BY <1>1 DEF State
<1>5. PICK s : s = [a EXCEPT !.btn_held = b]
  OBVIOUS
<1>6. /\ s \in State /\ s.frames = st.frames /\ s.focus = st.focus /\ s.btn_held = b
      /\ s.CLIENT_TOP = st.CLIENT_TOP /\ (s.drag = st.drag \/ s.drag = NoKind)
  BY <1>3, <1>5, SetHeld
<1>7. Pressed(e) = s
  BY <1>2, <1>3, <1>4, <1>5 DEF Pressed
<1> QED  BY <1>4, <1>6, <1>7 DEF Plain

\* Released ends the drag if the button went up.
LEMMA ReleasedFacts ==
    ASSUME NEW t \in State, NEW e
    PROVE  /\ Plain(t, Released(t, e)) /\ Released(t, e).btn_held = t.btn_held
           /\ Released(t, e).drag = IF e.up THEN NoKind ELSE t.drag
<1>1. CASE e.up
  BY <1>1, SetDrag DEF Released, Plain
<1>2. CASE ~e.up
  BY <1>2 DEF Released, Plain
<1> QED  BY <1>1, <1>2

\* How a branch that has brought the state to t ends.
LEMMA BranchEnds ==
    ASSUME NEW t, Good(t), NEW e
    PROVE  Good(Released(t, e)) /\ Released(t, e).frames = t.frames
<1>1. t \in State /\ Sound(t) /\ Synced(t) /\ DragOK(t)
  BY DEF Good, Sound
<1>2. PICK r : r = Released(t, e)
  OBVIOUS
<1>3. Plain(t, r) /\ r.btn_held = t.btn_held /\ (r.drag = NoKind \/ r.drag = t.drag)
  BY <1>1, <1>2, ReleasedFacts
<1>4. Sound(r) /\ Synced(r) /\ r.frames = t.frames
  BY <1>1, <1>3, PlainSound DEF Plain
<1>5. DragOK(r)
  BY <1>1, <1>3, <1>4 DEF DragOK
<1> QED  BY <1>2, <1>4, <1>5 DEF Good

\* A state that differs from st by overlays only, with nothing dragged.
Begun(s) == Plain(st, s) /\ s.drag = NoKind

\* A branch from such a state that keeps the surfaces is tidy.
LEMMA BranchTidy ==
    ASSUME DeskInv, NEW s, Begun(s), NEW t, Does(s, t), DragOK(t), NEW e,
           st' = t \/ st' = Released(t, e)
    PROVE  Tidy
<1>1. Good(t) /\ Stacked(st.frames, t.frames) /\ ClientsOf(t.frames) = ClientsOf(st.frames)
  BY DEF Begun, Plain, Does, Good
<1>2. Good(Released(t, e)) /\ Released(t, e).frames = t.frames
  BY <1>1, BranchEnds
<1>3. ASSUME NEW u, u = t \/ u = Released(t, e)
      PROVE  Good(u) /\ Stacked(st.frames, u.frames) /\ ClientsOf(u.frames) = ClientsOf(st.frames)
  BY <1>1, <1>2, <1>3
<1> QED  BY <1>3 DEF Tidy

\* Such a state is as good as st, and changing only its overlays is a tidy branch.
LEMMA BegunFacts ==
    ASSUME DeskInv, NEW s, Begun(s)
    PROVE  /\ Sound(s) /\ Synced(s) /\ s \in State /\ s.frames = st.frames /\ DragOK(s)
           /\ \A r : Dressed(s, r) => Begun(r) /\ Does(s, r) /\ DragOK(r)
<1>1. Sound(s) /\ Synced(s) /\ s \in State /\ s.frames = st.frames /\ DragOK(s)
  BY PlainSound DEF Begun, Plain, DeskInv, Good, DragOK
<1>2. ASSUME NEW r, Dressed(s, r) PROVE Begun(r) /\ Does(s, r) /\ DragOK(r)
  <2>1. Begun(r)
    BY <1>2 DEF Begun, Dressed, Plain
  <2>2. Calm(s, r)
    BY <1>1, <1>2, DressedCalm
  <2> QED  BY <1>1, <2>1, <2>2 DEF Calm
<1> QED  BY <1>1, <1>2

\* A click begins with nothing dragged and leaves the button held.
LEMMA ClickBegins ==
    ASSUME DeskInv, NEW e \in MouseEvent, Click(e)
    PROVE  Begun(Pressed(e)) /\ Pressed(e).btn_held
<1>1. e.down /\ ~st.btn_held
  BY DEF Click, Clicked
<1>2. st.drag = NoKind
  BY <1>1 DEF DeskInv, Good, DragOK
<1> QED  BY <1>1, <1>2, PressedFacts DEF Begun

\* A click that goes on to panel and windows.
LEMMA PassedFacts ==
    ASSUME DeskInv, NEW e \in MouseEvent, ClickThrough(e), NEW h, NEW s \in Passed(e, h)
    PROVE  Begun(s) /\ s.btn_held
<1>1. PICK p : p = Pressed(e) /\ Begun(p) /\ p.btn_held /\ p \in State
  BY ClickBegins DEF ClickThrough, Begun, Plain
<1>2. PICK r : r = IF h = PanelHit THEN p ELSE close_overlay(p, "runner")
  OBVIOUS
<1>3. s = p \/ s = r \/ s = close_overlay(r, "launcher")
  BY <1>1, <1>2 DEF Passed
<1>4. Begun(r) /\ r.btn_held /\ r \in State
  <2>1. Dressed(p, close_overlay(p, "runner"))
    BY <1>1, OverlaySteps
  <2>2. r = p \/ Dressed(p, r)
    BY <1>2, <2>1
  <2> QED  BY <1>1, <2>2 DEF Begun, Dressed, Plain
<1>5. Dressed(r, close_overlay(r, "launcher"))
  BY <1>4, OverlaySteps
<1>6. Begun(close_overlay(r, "launcher")) /\ close_overlay(r, "launcher").btn_held
  BY <1>4, <1>5 DEF Begun, Dressed, Plain
<1> QED  BY <1>1, <1>3, <1>4, <1>6


\* A move over a window is queued for its process only.
LEMMA HoveredFacts ==
    ASSUME DeskInv, NEW e, NEW h \in hit_test(st)
    PROVE  Deliverable(Hovered(e, h))
<1>1. Deliverable(evq)
  BY DEF DeskInv
<1>2. ASSUME h.part = "Client", st.frames[h.i].kind.name = "Client"
      PROVE  Deliverable(push_client_move(st.frames[h.i].kind.id))
  <2>1. h.i \in DOMAIN st.frames
    BY <1>2, HitSeen DEF AllParts, Visible
  <2>2. st.frames[h.i].kind \in Kinds
    BY <2>1, KindsAreKinds DEF DeskInv, Good, Sound, State
  <2>3. st.frames[h.i].kind.id \in WinIds
    BY <1>2, <2>2, ClientKind
  <2> QED  BY <2>3, PushSteps
<1> QED  BY <1>1, <1>2 DEF Hovered

\* A move, with or without the button.
LEMMA MoveStep ==
    ASSUME DeskInv, NEW e \in MouseEvent, NEW h \in hit_test(st), MouseMove(e, h)
    PROVE  Tidy
<1>1. PICK s : s = Pressed(e)
  OBVIOUS
<1>2. Plain(st, s) /\ s \in State /\ s.frames = st.frames /\ (s.drag = st.drag \/ s.drag = NoKind)
      /\ s.btn_held = IF e.down THEN TRUE ELSE IF e.up THEN FALSE ELSE st.btn_held
  BY <1>1, PressedFacts DEF Plain
<1>3. PICK t : t = Released(s, e)
  OBVIOUS
<1>4. Plain(s, t) /\ t.btn_held = s.btn_held /\ t.drag = IF e.up THEN NoKind ELSE s.drag
  BY <1>2, <1>3, ReleasedFacts
<1>5. Sound(t) /\ Synced(t) /\ t.frames = st.frames
  <2>1. Sound(s) /\ Synced(s)
    BY <1>2, PlainSound DEF DeskInv, Good
  <2> QED  BY <1>2, <1>4, <2>1, PlainSound DEF Plain
<1>6. DragOK(t)
  <2> SUFFICES ASSUME t.drag # NoKind PROVE t.btn_held /\ Grabbable(t.frames, t.drag)
    BY DEF DragOK
  <2>1. ~e.up /\ t.drag = st.drag /\ st.drag # NoKind
    BY <1>2, <1>4
  <2>2. st.btn_held /\ Grabbable(st.frames, st.drag)
    BY <2>1 DEF DeskInv, Good, DragOK
  <2>3. t.btn_held
    BY <1>2, <1>4, <2>1, <2>2
  <2> QED  BY <1>5, <2>1, <2>2, <2>3
<1>7. Good(t) /\ Stacked(st.frames, t.frames) /\ ClientsOf(t.frames) = ClientsOf(st.frames)
  BY <1>5, <1>6, SameStack DEF Good
<1>8. st' = t
  BY <1>1, <1>3 DEF MouseMove
<1> QED  BY <1>7, <1>8 DEF Tidy

\* handle_right_click.
LEMMA RightStep ==
    ASSUME DeskInv, NEW e \in MouseEvent, NEW h \in hit_test(st), MouseRight(e, h)
    PROVE  Tidy
<1>1. PICK s : s = Pressed(e) /\ Begun(s)
  BY PressedFacts DEF MouseRight, RightClicked, Begun
<1>2. Sound(s) /\ Synced(s) /\ s \in State /\ s.frames = st.frames /\ DragOK(s)
  BY <1>1, BegunFacts
<1>3. "desk_menu" \in Overlays /\ "files_menu" \in Overlays
  BY DEF Overlays
<1>4. ASSUME NEW u, Dressed(s, u), st' = u PROVE Tidy
  BY <1>1, <1>4, BegunFacts, BranchTidy
<1>5. ASSUME st' = s PROVE Tidy
  <2>1. Dressed(s, s)
    BY <1>2 DEF Dressed, Plain
  <2> QED  BY <1>4, <1>5, <2>1
<1>6. ASSUME h.part = "Client", s.frames[h.i].kind = Sys("Files"),
             NEW f, f = [raise(s, h.i) EXCEPT !.focus = "Files"],
             st' = f \/ st' = open_overlay(f, "files_menu")
      PROVE  Tidy
  <2>1. h.i \in Visible(s)
    BY <1>2, <1>6, HitSeen DEF AllParts, Visible
  <2>2. PICK r : r = raise(s, h.i)
    OBVIOUS
  <2>3. Calm(s, r) /\ KindsOf(r.frames) = KindsOf(s.frames)
    BY <1>2, <2>1, <2>2, RaiseStep
  <2>4. r \in State
    BY <2>3 DEF Calm, Does, Sound
  <2>5. f \in State /\ f.frames = r.frames /\ f.focus = "Files" /\ f.drag = r.drag
        /\ f.btn_held = r.btn_held /\ f.CLIENT_TOP = r.CLIENT_TOP
    <3>1. f = [r EXCEPT !.focus = "Files"]
      BY <1>6, <2>2
    <3> QED  BY <2>4, <3>1, SetFocus
  <2>6. Sys("Files") \in KindsOf(f.frames)
    <3>1. Sys("Files") \in KindsOf(s.frames)
      BY <1>6, <2>1 DEF KindsOf, Visible
    <3> QED  BY <2>3, <2>5, <3>1
  <2>7. Sound(f) /\ Synced(f)
    BY <2>3, <2>5, <2>6, TopSame DEF Sound, Synced, FocusOK, Calm, Does
  <2>8. Does(s, f) /\ DragOK(f)
    BY <1>2, <2>3, <2>5, <2>7 DEF Calm, Does, DragOK
  <2>9. PICK o : o = open_overlay(f, "files_menu")
    OBVIOUS
  <2>10. Calm(f, o)
    BY <1>3, <2>5, <2>7, <2>9, OverlaySteps, DressedCalm
  <2>11. Dressed(f, o)
    BY <1>3, <2>5, <2>9, OverlaySteps
  <2>12. Does(s, o) /\ DragOK(o)
    BY <2>8, <2>10, <2>11 DEF Calm, Does, Dressed, Plain
  <2> QED  BY <1>1, <1>6, <2>8, <2>9, <2>12, BranchTidy
<1>7. st' \in handle_right_click(s, h)
  BY <1>1 DEF MouseRight
<1>8. Dressed(s, RightOverlay(s)) /\ Dressed(s, open_overlay(s, "desk_menu"))
  BY <1>2, <1>3, OverlaySteps
<1>9. CASE s.power # "None"
  BY <1>5, <1>7, <1>9 DEF handle_right_click
<1>10. CASE s.power = "None" /\ s.open # {}
  <2>1. st' = RightOverlay(s)
    BY <1>7, <1>10 DEF handle_right_click
  <2> QED  BY <1>4, <1>8, <2>1
<1>11. CASE s.power = "None" /\ s.open = {}
  <2>1. st' \in IF h = DeskHit THEN {open_overlay(s, "desk_menu")}
                ELSE IF h.part = "Client" /\ s.frames[h.i].kind = Sys("Files")
                THEN {[raise(s, h.i) EXCEPT !.focus = "Files"],
                      open_overlay([raise(s, h.i) EXCEPT !.focus = "Files"], "files_menu")}
                ELSE {s}
    BY <1>7, <1>11 DEF handle_right_click
  <2>2. CASE h = DeskHit
    BY <1>4, <1>8, <2>1, <2>2
  <2>3. CASE h # DeskHit /\ h.part = "Client" /\ s.frames[h.i].kind = Sys("Files")
    BY <1>6, <2>1, <2>3
  <2>4. CASE h # DeskHit /\ ~(h.part = "Client" /\ s.frames[h.i].kind = Sys("Files"))
    BY <1>5, <2>1, <2>4
  <2> QED  BY <2>2, <2>3, <2>4
<1> QED  BY <1>9, <1>10, <1>11


\* Clicks that the power dialog or an overlay takes.
LEMMA OverlayClicks ==
    ASSUME DeskInv, NEW e \in MouseEvent, NEW h, ClickConfirm(e, h) \/ ClickOverlay(e, h)
    PROVE  Tidy
<1>1. PICK s : s = Pressed(e) /\ Begun(s)
  BY ClickBegins DEF ClickConfirm, ClickOverlay
<1>2. Sound(s) /\ Synced(s) /\ s \in State /\ s.frames = st.frames /\ DragOK(s)
  BY <1>1, BegunFacts
<1>3. ASSUME NEW u, Calm(s, u), st' = u PROVE Tidy
  <2>1. Does(s, u) /\ DragOK(u)
    BY <1>2, <1>3 DEF Calm
  <2> QED  BY <1>1, <1>3, <2>1, BranchTidy
<1>4. Calm(s, s) /\ Calm(s, close_power_dlg(s)) /\ \A o : Calm(s, close_overlay(s, o))
  <2>1. Dressed(s, s)
    BY <1>2 DEF Dressed, Plain
  <2> QED  BY <1>2, <2>1, OverlaySteps, DressedCalm
<1>5. Calm(s, desk_menu_activate(s))
      /\ \A n \in Names : Calm(s, launch_index(s, n)) /\ Calm(s, runner_launch(s, n))
  BY <1>2, LaunchSteps
<1>6. CASE ClickConfirm(e, h)
  <2>1. st' = close_power_dlg(s) \/ st' = s
    BY <1>1, <1>6 DEF ClickConfirm
  <2> QED  BY <1>3, <1>4, <2>1
<1>7. CASE ClickOverlay(e, h)
  <2>1. \/ st' = s \/ st' = desk_menu_activate(s) \/ \E o : st' = close_overlay(s, o)
        \/ \E n \in Names : st' = launch_index(s, n) \/ st' = runner_launch(s, n)
    BY <1>1, <1>7 DEF ClickOverlay, RunnerNames
  <2> QED  BY <1>3, <1>4, <1>5, <2>1
<1> QED  BY <1>6, <1>7

\* Clicks in the panel that close no window, and on the bare desktop.
LEMMA PanelClicks ==
    ASSUME DeskInv, NEW e \in MouseEvent, NEW h, ClickPanel(e, h) \/ ClickDesk(e, h)
    PROVE  Tidy
<1>1. ClickThrough(e)
  BY DEF ClickPanel, ClickDesk
<1>2. PICK s \in Passed(e, h) :
          \/ st' = Released(s, e)
          \/ \E o \in {"launcher", "runner"} : st' = Released(toggle_overlay(s, o), e)
          \/ st' = Released([s EXCEPT !.open = @ \ {"launcher", "runner", "desk_menu"}], e)
          \/ \E i \in DOMAIN s.frames : st' = Released(handle_task_click(NoLaunchers(s), i), e)
  BY DEF ClickPanel, ClickDesk
<1>3. Begun(s)
  BY <1>1, PassedFacts
<1>4. Sound(s) /\ Synced(s) /\ s \in State /\ s.frames = st.frames /\ DragOK(s)
  BY <1>3, BegunFacts
<1>5. ASSUME NEW u, Dressed(s, u), st' = Released(u, e) PROVE Tidy
  BY <1>3, <1>5, BegunFacts, BranchTidy
<1>6. CASE st' = Released(s, e)
  <2>1. Dressed(s, s)
    BY <1>4 DEF Dressed, Plain
  <2> QED  BY <1>5, <1>6, <2>1
<1>7. CASE \E o \in {"launcher", "runner"} : st' = Released(toggle_overlay(s, o), e)
  <2>1. \A o \in {"launcher", "runner"} : Dressed(s, toggle_overlay(s, o))
    BY <1>4, OverlaySteps DEF Overlays
  <2> QED  BY <1>5, <1>7, <2>1
<1>8. CASE st' = Released([s EXCEPT !.open = @ \ {"launcher", "runner", "desk_menu"}], e)
  <2>1. PICK v \in SUBSET Overlays : v = s.open \ {"launcher", "runner", "desk_menu"}
    BY <1>4 DEF State
  <2>2. Dressed(s, [s EXCEPT !.open = v])
    BY <1>4, OverlaySteps
  <2>3. st' = Released([s EXCEPT !.open = v], e)
    BY <1>8, <2>1
  <2> QED  BY <1>5, <2>2, <2>3
<1>9. ASSUME NEW i \in DOMAIN s.frames, st' = Released(handle_task_click(NoLaunchers(s), i), e)
      PROVE  Tidy
  <2>1. PICK r : r = NoLaunchers(s) /\ Dressed(s, r)
    BY <1>4, OverlaySteps
  <2>2. Begun(r)
    BY <1>3, <2>1, BegunFacts
  <2>3. Sound(r) /\ Synced(r) /\ r.frames = st.frames /\ r.drag = NoKind
    BY <2>2, BegunFacts DEF Begun
  <2>4. PICK t : t = handle_task_click(r, i)
    OBVIOUS
  <2>5. Quietly(r, t)
    BY <1>4, <2>3, <2>4, TaskStep
  <2>6. Does(r, t) /\ DragOK(t)
    BY <2>5 DEF Quietly, DragOK
  <2> QED  BY <1>9, <2>1, <2>2, <2>4, <2>6, BranchTidy
<1> QED  BY <1>2, <1>6, <1>7, <1>8, <1>9

\* Grab of a window one sees, with the button held.
LEMMA GrabStep ==
    ASSUME NEW s, NEW r, Does(s, r), r.drag = NoKind, r.btn_held, NEW i \in Visible(r)
    PROVE  Does(s, Grab(r, i)) /\ DragOK(Grab(r, i))
<1>1. r \in State /\ Sound(r) /\ Synced(r) /\ i \in DOMAIN r.frames
  BY DEF Does, Sound, Visible
<1>2. CASE r.frames[i].maximized
  BY <1>2 DEF Grab, DragOK
<1>3. CASE ~r.frames[i].maximized
  <2>1. PICK k \in Kinds : k = r.frames[i].kind
    BY <1>1, KindsAreKinds DEF State
  <2>2. PICK t : t = [r EXCEPT !.drag = k]
    OBVIOUS
  <2>3. t \in State /\ t.frames = r.frames /\ t.focus = r.focus /\ t.drag = k
        /\ t.btn_held = r.btn_held /\ t.CLIENT_TOP = r.CLIENT_TOP
    BY <1>1, <2>2, SetDrag
  <2>4. Sound(t) /\ Synced(t)
    BY <1>1, <2>3, PlainSound DEF Plain
  <2>5. Grabbable(t.frames, k)
    BY <1>3, <2>1, <2>3 DEF Grabbable, Visible, Seen
  <2>6. Does(s, t) /\ DragOK(t)
    BY <2>3, <2>4, <2>5 DEF Does, DragOK
  <2> QED  BY <1>3, <2>1, <2>2, <2>6 DEF Grab
<1> QED  BY <1>2, <1>3

\* Clicks on the frame of a window that stays.
LEMMA FrameClicks ==
    ASSUME DeskInv, NEW e \in MouseEvent, NEW h \in hit_test(st),
           ClickButton(e, h) \/ ClickTitle(e, h) \/ ClickResize(e, h)
    PROVE  Tidy
<1>1. ClickThrough(e) /\ h.part \in {"Min", "Max", "Title", "Resize"}
  BY DEF ClickButton, ClickTitle, ClickResize
<1>2. PICK s \in Passed(e, h) :
          \/ st' = Released(minimize_frame(s, h.i), e) \/ st' = Released(toggle_max(s, h.i), e)
          \/ st' = Released(toggle_max(raise(s, h.i), Len(raise(s, h.i).frames)), e)
          \/ st' = Released(Grab(raise(s, h.i), Len(raise(s, h.i).frames)), e)
  BY DEF ClickButton, ClickTitle, ClickResize
<1>3. Begun(s) /\ s.btn_held /\ s.drag = NoKind
  BY <1>1, PassedFacts DEF Begun
<1>4. Sound(s) /\ Synced(s) /\ s \in State /\ s.frames = st.frames /\ DragOK(s)
  BY <1>3, BegunFacts
<1>5. h.i \in Visible(s) /\ h.i \in DOMAIN s.frames
  BY <1>1, <1>4, HitSeen DEF AllParts, Visible
<1>6. ASSUME NEW t, Does(s, t), DragOK(t), st' = Released(t, e) PROVE Tidy
  BY <1>3, <1>6, BranchTidy
<1>7. CASE st' = Released(minimize_frame(s, h.i), e)
  <2>1. Does(s, minimize_frame(s, h.i)) /\ DragOK(minimize_frame(s, h.i))
    BY <1>3, <1>4, <1>5, MinimizeStep DEF Quietly, DragOK
  <2> QED  BY <1>6, <1>7, <2>1
<1>8. CASE st' = Released(toggle_max(s, h.i), e)
  <2>1. Does(s, toggle_max(s, h.i)) /\ DragOK(toggle_max(s, h.i))
    BY <1>3, <1>4, <1>5, ToggleStep DEF DragOK
  <2> QED  BY <1>6, <1>8, <2>1
<1>9. PICK r : r = raise(s, h.i)
  OBVIOUS
<1>10. PICK n : n = Len(r.frames)
  OBVIOUS
<1>11. /\ Does(s, r) /\ r.drag = NoKind /\ r.btn_held /\ Sound(r)
       /\ r.frames = Append(Without(s.frames, h.i), s.frames[h.i])
       /\ n = Len(s.frames) /\ r.frames[n] = s.frames[h.i]
  <2>1. /\ Calm(s, r) /\ r.frames = Append(Without(s.frames, h.i), s.frames[h.i])
        /\ Len(r.frames) = Len(s.frames) /\ r.frames[Len(r.frames)] = s.frames[h.i]
    BY <1>4, <1>5, <1>9, RaiseStep
  <2> QED  BY <1>3, <1>10, <2>1 DEF Calm, Does
<1>12. n \in Visible(r) /\ n \in DOMAIN r.frames
  <2>1. s.frames \in Seq(Frame) /\ r.frames \in Seq(Frame)
    BY <1>4, <1>11 DEF Sound, State
  <2>2. n \in DOMAIN r.frames
    BY <1>5, <1>10, <1>11, <2>1
  <2>3. ~s.frames[h.i].minimized
    BY <1>5 DEF Visible
  <2> QED  BY <1>11, <2>2, <2>3 DEF Visible
<1>13. CASE st' = Released(Grab(r, n), e)
  <2>1. Does(s, Grab(r, n)) /\ DragOK(Grab(r, n))
    BY <1>11, <1>12, GrabStep
  <2> QED  BY <1>6, <1>13, <2>1
<1>14. CASE st' = Released(toggle_max(r, n), e)
  <2>1. PICK t : t = toggle_max(r, n)
    OBVIOUS
  <2>2. PICK g \in Frame : /\ g.kind = r.frames[n].kind /\ ~g.minimized
                           /\ t.frames = Append(Without(r.frames, n), g)
    BY <1>11, <1>12, <2>1, ToggleStep
  <2>3. Sound(t) /\ Synced(t) /\ t.drag = NoKind /\ KindsOf(t.frames) = KindsOf(r.frames)
    BY <1>11, <1>12, <2>1, ToggleStep DEF Does
  <2>4. PICK f \in Seq(Frame) : f = s.frames /\ Once(f) /\ h.i \in DOMAIN f /\ f[h.i] \in Frame
    BY <1>4, <1>5, KindsAreKinds DEF Sound, State
  <2>5. PICK w \in Seq(Frame) : w = Without(f, h.i)
    BY <2>4, RemovedFrame
  <2>6. Without(r.frames, n) = w
    <3>1. r.frames = Append(w, f[h.i])
      BY <1>11, <2>4, <2>5
    <3>2. Len(r.frames) = Len(w) + 1
      BY <2>4, <3>1, Appended
    <3> QED  BY <1>10, <2>4, <3>1, <3>2, WithoutLast
  <2>7. g.kind = f[h.i].kind /\ g.kind \in Kinds
    BY <1>11, <2>2, <2>4 DEF Frame
  <2>8. Fronted(f, t.frames, g.kind)
    BY <2>2, <2>4, <2>5, <2>6, <2>7, LiftedFrames
  <2>9. ClientsOf(t.frames) = ClientsOf(s.frames)
    BY <1>11, <2>3 DEF ClientsOf, Does
  <2>10. Does(s, t) /\ DragOK(t)
    BY <2>3, <2>4, <2>7, <2>8, <2>9 DEF Does, DragOK, Stacked
  <2> QED  BY <1>6, <1>14, <2>1, <2>10
<1> QED  BY <1>2, <1>7, <1>8, <1>9, <1>10, <1>13, <1>14


\* A click inside a window.
LEMMA ClientClick ==
    ASSUME DeskInv, NEW e \in MouseEvent, NEW h \in hit_test(st), ClickClient(e, h)
    PROVE  Tidy /\ Deliverable(evq')
<1>1. ClickThrough(e) /\ h.part = "Client"
  BY DEF ClickClient
<1>2. PICK s \in Passed(e, h) :
          LET r == raise(s, h.i)
              k == s.frames[h.i].kind
              q == Hovered(e, h)
          IN  \/ /\ k.name = "Client" /\ st' = Released(r, e)
                 /\ evq' = IF slots[k.id] = 0 THEN q ELSE push_ev(q, slots[k.id], "down")
              \/ st' = Released([r EXCEPT !.focus = "Term"], e) /\ evq' = evq
              \/ st' = [r EXCEPT !.focus = FocusOf(k)] /\ evq' = evq
  BY DEF ClickClient
<1>3. Begun(s) /\ s.drag = NoKind
  BY <1>1, PassedFacts DEF Begun
<1>4. Sound(s) /\ Synced(s) /\ s \in State /\ s.frames = st.frames /\ DragOK(s)
  BY <1>3, BegunFacts
<1>5. h.i \in Visible(s) /\ h.i \in DOMAIN s.frames
  BY <1>1, <1>4, HitSeen DEF AllParts, Visible
<1>6. PICK r : r = raise(s, h.i)
  OBVIOUS
<1>7. Calm(s, r) /\ KindsOf(r.frames) = KindsOf(s.frames)
  BY <1>4, <1>5, <1>6, RaiseStep
<1>8. Does(s, r) /\ DragOK(r) /\ r \in State /\ Sound(r) /\ Synced(r) /\ r.drag = NoKind
  BY <1>3, <1>4, <1>7 DEF Calm, Does, Sound
<1>9. PICK k \in Kinds : k = s.frames[h.i].kind /\ k \in KindsOf(s.frames)
  BY <1>4, <1>5, KindsAreKinds DEF State, KindsOf
<1>10. ASSUME NEW v \in {"Term", "Files", "Desk"}, v = "Term" \/ v = FocusOf(k)
       PROVE  Does(s, [r EXCEPT !.focus = v]) /\ DragOK([r EXCEPT !.focus = v])
  <2>1. PICK t : t = [r EXCEPT !.focus = v]
    OBVIOUS
  <2>2. t \in State /\ t.frames = r.frames /\ t.focus = v /\ t.drag = r.drag
        /\ t.btn_held = r.btn_held /\ t.CLIENT_TOP = r.CLIENT_TOP
    BY <1>8, <2>1, SetFocus
  <2>3. FocusOK(t)
    BY <1>7, <1>9, <1>10, <2>2, FocusOfKind DEF FocusOK
  <2>4. Sound(t) /\ Synced(t)
    BY <1>8, <2>2, <2>3, TopSame DEF Sound, Synced
  <2>5. Does(s, t) /\ DragOK(t)
    BY <1>8, <2>2, <2>4 DEF Does, DragOK
  <2> QED  BY <2>1, <2>5
<1>11. FocusOf(k) \in {"Term", "Files", "Desk"}
  BY FocusOfKind
<1>12. Deliverable(evq) /\ Deliverable(Hovered(e, h))
  BY HoveredFacts DEF DeskInv
<1>13. CASE /\ k.name = "Client" /\ st' = Released(r, e)
            /\ evq' = IF slots[k.id] = 0 THEN Hovered(e, h)
                      ELSE push_ev(Hovered(e, h), slots[k.id], "down")
  <2>1. Tidy
    BY <1>3, <1>8, <1>13, BranchTidy
  <2>2. k.id \in WinIds
    BY <1>13, ClientKind
  <2>3. ASSUME NEW q, q = IF slots[k.id] = 0 THEN Hovered(e, h)
                          ELSE push_ev(Hovered(e, h), slots[k.id], "down")
        PROVE  Deliverable(q)
    BY <1>12, <2>2, <2>3, PushSteps
  <2> QED  BY <1>13, <2>1, <2>3
<1>14. CASE st' = Released([r EXCEPT !.focus = "Term"], e) /\ evq' = evq
  <2>1. Does(s, [r EXCEPT !.focus = "Term"]) /\ DragOK([r EXCEPT !.focus = "Term"])
    BY <1>10
  <2>2. Tidy
    BY <1>3, <1>14, <2>1, BranchTidy
  <2> QED  BY <1>12, <1>14, <2>2
<1>15. CASE st' = [r EXCEPT !.focus = FocusOf(k)] /\ evq' = evq
  <2>1. Does(s, [r EXCEPT !.focus = FocusOf(k)]) /\ DragOK([r EXCEPT !.focus = FocusOf(k)])
    BY <1>10, <1>11
  <2>2. Tidy
    BY <1>3, <1>15, <2>1, BranchTidy
  <2> QED  BY <1>12, <1>15, <2>2
<1> QED  BY <1>2, <1>6, <1>9, <1>13, <1>14, <1>15

\* Exactly the surfaces in use have a frame after window w is gone.
LEMMA SurfaceGone ==
    ASSUME DeskInv, NEW k \in Kinds, NEW g, KindsOf(g) = KindsOf(st.frames) \ {k},
           NEW sl, sl = IF k.name = "Client" THEN drop_id(k.id) ELSE slots
    PROVE  /\ sl \in [WinIds -> Pids \cup {0}]
           /\ ClientsOf(g) = {w \in WinIds : sl[w] # 0}
           /\ \A w \in WinIds : sl[w] \notin exited
<1>1. /\ slots \in [WinIds -> Pids \cup {0}] /\ exited \subseteq Pids
      /\ ClientsOf(st.frames) = {w \in WinIds : slots[w] # 0}
      /\ \A w \in WinIds : slots[w] \notin exited
  BY DEF DeskInv
<1>2. CASE k.name = "Client"
  <2>1. k.id \in WinIds /\ k = Client(k.id)
    BY <1>2, ClientKind
  <2>2. \A w \in WinIds : Client(w) = k => w = k.id
    BY <2>1 DEF Client
  <2>3. ClientsOf(g) = ClientsOf(st.frames) \ {k.id}
    BY <2>1, <2>2 DEF ClientsOf
  <2>4. sl = [slots EXCEPT ![k.id] = 0]
    BY <1>2 DEF drop_id
  <2>5. 0 \notin exited
    BY <1>1, DesktopAssumption
  <2> QED  BY <1>1, <2>1, <2>3, <2>4, <2>5
<1>3. CASE k.name # "Client"
  <2>1. \A w \in WinIds : Client(w) # k
    BY <1>3 DEF Client
  <2>2. ClientsOf(g) = ClientsOf(st.frames)
    BY <2>1 DEF ClientsOf
  <2> QED  BY <1>1, <1>3, <2>2
<1> QED  BY <1>2, <1>3

\* What a step that closes windows leaves.
Closed ==
    /\ Good(st') /\ Stacked(st.frames, st'.frames)
    /\ slots' \in [WinIds -> Pids \cup {0}]
    /\ ClientsOf(st'.frames) = {w \in WinIds : slots'[w] # 0}
    /\ \A w \in WinIds : slots'[w] \notin exited

\* A window is closed, from the task bar or by its button.
LEMMA CloseClicks ==
    ASSUME DeskInv, NEW e \in MouseEvent, NEW h \in hit_test(st),
           ClickTaskClose(e, h) \/ ClickClose(e, h)
    PROVE  Closed /\ evq' = evq
<1>1. ClickThrough(e)
  BY DEF ClickTaskClose, ClickClose
<1>2. ASSUME NEW s, Begun(s), NEW i \in DOMAIN s.frames,
             st' = Released(close_frame(s, i), e),
             slots' = IF s.frames[i].kind.name = "Client" THEN drop_id(s.frames[i].kind.id) ELSE slots
      PROVE  Closed
  <2>1. Sound(s) /\ s.frames = st.frames /\ s \in State /\ s.drag = NoKind
    BY <1>2, BegunFacts DEF Begun
  <2>2. PICK t : t = close_frame(s, i)
    OBVIOUS
  <2>3. /\ Sound(t) /\ Synced(t) /\ Stacked(s.frames, t.frames) /\ t.drag = NoKind
        /\ KindsOf(t.frames) = KindsOf(s.frames) \ {s.frames[i].kind}
    BY <1>2, <2>1, <2>2, CloseStep
  <2>4. Good(t)
    BY <2>3 DEF Good, DragOK
  <2>5. PICK u : u = Released(t, e) /\ Good(u) /\ u.frames = t.frames
    BY <2>4, BranchEnds
  <2>6. s.frames[i].kind \in Kinds
    BY <1>2, <2>1, KindsAreKinds DEF State
  <2>7. PICK sl : sl = IF s.frames[i].kind.name = "Client" THEN drop_id(s.frames[i].kind.id) ELSE slots
    OBVIOUS
  <2>8. /\ sl \in [WinIds -> Pids \cup {0}]
        /\ ClientsOf(t.frames) = {w \in WinIds : sl[w] # 0}
        /\ \A w \in WinIds : sl[w] \notin exited
    BY <2>1, <2>3, <2>6, <2>7, SurfaceGone
  <2>9. st' = u /\ slots' = sl
    BY <1>2, <2>2, <2>5, <2>7
  <2> QED  BY <2>1, <2>3, <2>5, <2>8, <2>9 DEF Closed
<1>3. CASE ClickTaskClose(e, h)
  <2>1. PICK s \in Passed(e, h), i \in DOMAIN st.frames :
            /\ st' = Released(close_frame(NoLaunchers(s), i), e)
            /\ slots' = IF s.frames[i].kind.name = "Client"
                        THEN drop_id(s.frames[i].kind.id) ELSE slots
    BY <1>3 DEF ClickTaskClose
  <2>2. Begun(s)
    BY <1>1, PassedFacts
  <2>3. s \in State /\ s.frames = st.frames
    BY <2>2, BegunFacts
  <2>4. PICK r : r = NoLaunchers(s) /\ Dressed(s, r)
    BY <2>3, OverlaySteps
  <2>5. Begun(r)
    BY <2>2, <2>4, BegunFacts
  <2>6. r.frames = st.frames
    BY <2>5, BegunFacts
  <2>7. Closed
    <3>1. i \in DOMAIN r.frames
      BY <2>6
    <3>2. s.frames[i] = r.frames[i]
      BY <2>3, <2>6
    <3>3. st' = Released(close_frame(r, i), e)
      BY <2>1, <2>4
    <3>4. slots' = IF r.frames[i].kind.name = "Client" THEN drop_id(r.frames[i].kind.id) ELSE slots
      BY <2>1, <3>2
    <3> QED  BY <1>2, <2>5, <3>1, <3>3, <3>4
  <2>8. evq' = evq
    BY <1>3 DEF ClickTaskClose
  <2> QED  BY <2>7, <2>8
<1>4. CASE ClickClose(e, h)
  <2>1. PICK s \in Passed(e, h) :
            \/ /\ s.frames[h.i].kind.name = "Client"
               /\ st' = on_client_close(s, {s.frames[h.i].kind.id})
               /\ slots' = drop_id(s.frames[h.i].kind.id)
            \/ /\ s.frames[h.i].kind.name # "Client"
               /\ st' = Released(close_frame(s, h.i), e) /\ slots' = slots
    BY <1>4 DEF ClickClose
  <2>2. Begun(s)
    BY <1>1, PassedFacts
  <2>3. Good(s) /\ s \in State /\ s.frames = st.frames
    BY <2>2, BegunFacts DEF Good
  <2>4. h.part = "Close"
    BY <1>4 DEF ClickClose
  <2>5. h.i \in DOMAIN s.frames
    BY <2>3, <2>4, HitSeen DEF AllParts, Visible
  <2>6. PICK k \in Kinds : k = s.frames[h.i].kind
    BY <2>3, <2>5, KindsAreKinds DEF State
  <2>10. evq' = evq
    BY <1>4 DEF ClickClose
  <2>7. CASE k.name # "Client"
    <3>1. st' = Released(close_frame(s, h.i), e) /\ slots' = slots
      BY <2>1, <2>6, <2>7
    <3>2. slots' = IF s.frames[h.i].kind.name = "Client"
                   THEN drop_id(s.frames[h.i].kind.id) ELSE slots
      BY <2>6, <2>7, <3>1
    <3> QED  BY <1>2, <2>2, <2>5, <2>10, <3>1, <3>2
  <2>8. CASE k.name = "Client"
    <3>1. k.id \in WinIds /\ k = Client(k.id) /\ {Client(w) : w \in {k.id}} = {k}
      BY <2>8, ClientKind
    <3>2. PICK t : t = on_client_close(s, {k.id})
      OBVIOUS
    <3>3. Good(t) /\ Stacked(s.frames, t.frames) /\ KindsOf(t.frames) = KindsOf(s.frames) \ {k}
      BY <2>3, <3>1, <3>2, ClientCloseStep
    <3>4. PICK sl : sl = drop_id(k.id)
      OBVIOUS
    <3>5. /\ sl \in [WinIds -> Pids \cup {0}]
          /\ ClientsOf(t.frames) = {w \in WinIds : sl[w] # 0}
          /\ \A w \in WinIds : sl[w] \notin exited
      BY <2>3, <2>8, <3>3, <3>4, SurfaceGone
    <3>6. st' = t /\ slots' = sl
      BY <2>1, <2>6, <2>8, <3>2, <3>4
    <3> QED  BY <2>3, <2>10, <3>3, <3>5, <3>6 DEF Closed
  <2> QED  BY <2>7, <2>8
<1> QED  BY <1>3, <1>4

-----------------------------------------------------------------------------
(* The invariant is kept *)

\* A step that leaves the surfaces alone keeps the invariant.
LEMMA TidyInv ==
    ASSUME DeskInv, Tidy, Deliverable(evq'), slots' = slots, exited' = exited
    PROVE  DeskInv' /\ Stacked(st.frames, st'.frames)
<1>1. /\ slots \in [WinIds -> Pids \cup {0}] /\ exited \subseteq Pids
      /\ ClientsOf(st.frames) = {w \in WinIds : slots[w] # 0}
      /\ \A w \in WinIds : slots[w] \notin exited
  BY DEF DeskInv
<1>2. Good(st') /\ Stacked(st.frames, st'.frames) /\ ClientsOf(st'.frames) = ClientsOf(st.frames)
  BY DEF Tidy
<1>3. evq' \in Seq(Events) /\ \A i \in DOMAIN evq' : evq'[i].pid \notin exited
  BY DEF Deliverable
<1> QED  BY <1>1, <1>2, <1>3 DEF DeskInv, Deliverable

\* So does one that closes a window.
LEMMA ClosedInv ==
    ASSUME DeskInv, Closed, evq' = evq, exited' = exited
    PROVE  DeskInv' /\ Stacked(st.frames, st'.frames)
<1>1. exited \subseteq Pids /\ evq \in Seq(Events) /\ \A i \in DOMAIN evq : evq[i].pid \notin exited
  BY DEF DeskInv, Deliverable
<1>2. /\ Good(st') /\ Stacked(st.frames, st'.frames)
      /\ slots' \in [WinIds -> Pids \cup {0}]
      /\ ClientsOf(st'.frames) = {w \in WinIds : slots'[w] # 0}
      /\ \A w \in WinIds : slots'[w] \notin exited
  BY DEF Closed
<1> QED  BY <1>1, <1>2 DEF DeskInv, Deliverable

\* A process opens a window.
LEMMA CreateInv ==
    ASSUME DeskInv, NEW p \in Pids, sys_create(p)
    PROVE  DeskInv' /\ Stacked(st.frames, st'.frames)
<1>1. PICK id \in WinIds :
          slots[id] = 0 /\ slots' = [slots EXCEPT ![id] = p] /\ st' = on_client_create(st, id)
  BY DEF sys_create
<1>2. p \notin exited /\ evq' = evq /\ exited' = exited /\ p # 0
  BY DesktopAssumption DEF sys_create
<1>3. /\ slots \in [WinIds -> Pids \cup {0}] /\ Good(st)
      /\ ClientsOf(st.frames) = {w \in WinIds : slots[w] # 0}
      /\ \A w \in WinIds : slots[w] \notin exited
  BY DEF DeskInv
<1>4. Client(id) \notin KindsOf(st.frames)
  BY <1>1, <1>3 DEF ClientsOf
<1>5. PICK t : t = on_client_create(st, id)
  OBVIOUS
<1>6. /\ Good(t) /\ Stacked(st.frames, t.frames)
      /\ KindsOf(t.frames) = KindsOf(st.frames) \cup {Client(id)}
  BY <1>3, <1>4, <1>5, CreateStep DEF Good
<1>7. \A w \in WinIds : Client(w) = Client(id) <=> w = id
  BY DEF Client
<1>8. ClientsOf(t.frames) = ClientsOf(st.frames) \cup {id}
  BY <1>6, <1>7 DEF ClientsOf
<1>9. /\ slots' \in [WinIds -> Pids \cup {0}]
      /\ \A w \in WinIds : slots'[w] = IF w = id THEN p ELSE slots[w]
  BY <1>1, <1>3
<1>10. ClientsOf(t.frames) = {w \in WinIds : slots'[w] # 0}
  BY <1>2, <1>3, <1>8, <1>9
<1>11. \A w \in WinIds : slots'[w] \notin exited
  BY <1>2, <1>3, <1>9
<1>12. st' = t
  BY <1>1, <1>5
<1> QED  BY <1>2, <1>6, <1>9, <1>10, <1>11, <1>12, ClosedInv DEF Closed

\* What stays of the ring of events is in it already.
LEMMA KeptEvents ==
    ASSUME NEW q \in Seq(Events), NEW keep \in SUBSET DOMAIN q
    PROVE  /\ Kept(q, keep) \in Seq(Events)
           /\ \A i \in DOMAIN Kept(q, keep) : \E j \in keep : Kept(q, keep)[i] = q[j]
<1>1. PICK r : r = Kept(q, keep)
  OBVIOUS
<1>2. r \in Seq(Events) /\ \E at : Picks(r, q, at) /\ {at[m] : m \in 1 .. Len(r)} = keep
  BY <1>1, KeptFacts
<1>3. PICK at : Picks(r, q, at) /\ {at[m] : m \in 1 .. Len(r)} = keep
  BY <1>2
<1>4. DOMAIN r = 1 .. Len(r)
  BY <1>2
<1>5. \A i \in DOMAIN r : at[i] \in keep /\ r[i] = q[at[i]]
  BY <1>3, <1>4 DEF Picks
<1> QED  BY <1>1, <1>2, <1>5

\* A process takes its events.
LEMMA PollInv ==
    ASSUME DeskInv, NEW p, sys_poll_input(p)
    PROVE  DeskInv' /\ Stacked(st.frames, st'.frames)
<1>1. PICK n : evq' = take_for_pid(evq, p, n)
  BY DEF sys_poll_input
<1>2. st' = st /\ slots' = slots /\ exited' = exited
  BY DEF sys_poll_input
<1>3. evq \in Seq(Events) /\ \A i \in DOMAIN evq : evq[i].pid \notin exited
  BY DEF DeskInv, Deliverable
<1>4. PICK keep \in SUBSET DOMAIN evq : evq' = Kept(evq, keep)
  BY <1>1 DEF take_for_pid
<1>5. PICK r : r = Kept(evq, keep)
  OBVIOUS
<1>6. r \in Seq(Events) /\ \A i \in DOMAIN r : \E j \in keep : r[i] = evq[j]
  BY <1>3, <1>5, KeptEvents
<1>7. Deliverable(r)
  BY <1>3, <1>6 DEF Deliverable
<1>8. Deliverable(evq')
  BY <1>4, <1>5, <1>7
<1>9. Good(st)
  BY DEF DeskInv
<1>10. Tidy
  BY <1>2, <1>9, SameStack DEF Tidy
<1> QED  BY <1>2, <1>8, <1>10, TidyInv

\* A process ends, and takes windows and events along.
LEMMA ExitInv ==
    ASSUME DeskInv, NEW p \in Pids, Exit(p)
    PROVE  DeskInv' /\ Stacked(st.frames, st'.frames)
<1>1. /\ slots \in [WinIds -> Pids \cup {0}] /\ exited \subseteq Pids /\ Good(st)
      /\ ClientsOf(st.frames) = {w \in WinIds : slots[w] # 0}
      /\ \A w \in WinIds : slots[w] \notin exited
  BY DEF DeskInv
<1>2. evq \in Seq(Events) /\ \A i \in DOMAIN evq : evq[i].pid \notin exited
  BY DEF DeskInv, Deliverable
<1>3. /\ slots' = [w \in WinIds |-> IF slots[w] = p THEN 0 ELSE slots[w]]
      /\ evq' = Kept(evq, {i \in DOMAIN evq : evq[i].pid # p})
      /\ st' = on_client_close(st, Owned(p))
      /\ exited' = exited \cup {p}
  BY DEF Exit, drop_pid, retain_q
<1>4. p # 0 /\ 0 \notin exited
  BY <1>1, DesktopAssumption
<1>5. evq' \in Seq(Events) /\ \A i \in DOMAIN evq' : evq'[i].pid \notin exited'
  <2>1. PICK keep \in SUBSET DOMAIN evq : keep = {i \in DOMAIN evq : evq[i].pid # p}
    OBVIOUS
  <2>2. PICK r : r = Kept(evq, keep)
    OBVIOUS
  <2>3. r \in Seq(Events) /\ \A i \in DOMAIN r : \E j \in keep : r[i] = evq[j]
    BY <1>2, <2>2, KeptEvents
  <2>4. \A i \in DOMAIN r : r[i].pid \notin exited \cup {p}
    BY <1>2, <2>1, <2>3
  <2> QED  BY <1>3, <2>1, <2>2, <2>3, <2>4
<1>6. PICK t : t = on_client_close(st, Owned(p))
  OBVIOUS
<1>7. /\ Good(t) /\ Stacked(st.frames, t.frames)
      /\ KindsOf(t.frames) = KindsOf(st.frames) \ {Client(w) : w \in Owned(p)}
  BY <1>1, <1>6, ClientCloseStep DEF Owned
<1>8. \A w \in WinIds : Client(w) \in {Client(v) : v \in Owned(p)} <=> w \in Owned(p)
  BY DEF Client
<1>9. ClientsOf(t.frames) = ClientsOf(st.frames) \ Owned(p)
  BY <1>7, <1>8 DEF ClientsOf
<1>10. \A w \in WinIds : slots'[w] = IF slots[w] = p THEN 0 ELSE slots[w]
  BY <1>3
<1>11. slots' \in [WinIds -> Pids \cup {0}]
  BY <1>1, <1>3
<1>12. ClientsOf(t.frames) = {w \in WinIds : slots'[w] # 0}
  BY <1>1, <1>4, <1>9, <1>10 DEF Owned
<1>13. \A w \in WinIds : slots'[w] \notin exited'
  BY <1>1, <1>3, <1>4, <1>10
<1>14. st' = t /\ exited' \subseteq Pids
  BY <1>1, <1>3, <1>6
<1> QED  BY <1>5, <1>7, <1>11, <1>12, <1>13, <1>14 DEF DeskInv, Deliverable

\* A mouse event, whichever branch it takes.
LEMMA MouseInv ==
    ASSUME DeskInv, NEW e \in MouseEvents, MouseStep(e)
    PROVE  DeskInv' /\ Stacked(st.frames, st'.frames)
<1>1. e \in MouseEvent /\ exited' = exited
  BY DesktopAssumption DEF MouseStep, Mouse
<1>2. PICK h \in hit_test(st) :
          \/ MouseMove(e, h) \/ MouseRight(e, h) \/ ClickConfirm(e, h) \/ ClickOverlay(e, h)
          \/ ClickPanel(e, h) \/ ClickTaskClose(e, h) \/ ClickClose(e, h) \/ ClickButton(e, h)
          \/ ClickTitle(e, h) \/ ClickResize(e, h) \/ ClickClient(e, h) \/ ClickDesk(e, h)
  BY DEF MouseStep
<1>3. Deliverable(evq) /\ Deliverable(Hovered(e, h))
  BY HoveredFacts DEF DeskInv
<1>4. ASSUME Tidy, slots' = slots, evq' = evq \/ evq' = Hovered(e, h)
      PROVE  DeskInv' /\ Stacked(st.frames, st'.frames)
  <2>1. Deliverable(evq')
    BY <1>3, <1>4
  <2> QED  BY <1>1, <1>4, <2>1, TidyInv
<1>5. CASE MouseMove(e, h)
  <2>1. evq' = Hovered(e, h) /\ slots' = slots
    BY <1>5 DEF MouseMove
  <2> QED  BY <1>1, <1>4, <1>5, <2>1, MoveStep
<1>6. CASE MouseRight(e, h)
  <2>1. evq' = Hovered(e, h) /\ slots' = slots
    BY <1>6 DEF MouseRight
  <2> QED  BY <1>1, <1>4, <1>6, <2>1, RightStep
<1>7. CASE ClickConfirm(e, h) \/ ClickOverlay(e, h)
  <2>1. evq' = Hovered(e, h) /\ slots' = slots
    BY <1>7 DEF ClickConfirm, ClickOverlay
  <2> QED  BY <1>1, <1>4, <1>7, <2>1, OverlayClicks
<1>8. CASE ClickPanel(e, h) \/ ClickDesk(e, h)
  <2>1. evq' = evq /\ slots' = slots
    BY <1>8 DEF ClickPanel, ClickDesk
  <2> QED  BY <1>1, <1>4, <1>8, <2>1, PanelClicks
<1>9. CASE ClickTaskClose(e, h) \/ ClickClose(e, h)
  BY <1>1, <1>9, CloseClicks, ClosedInv
<1>10. CASE ClickButton(e, h) \/ ClickTitle(e, h) \/ ClickResize(e, h)
  <2>1. evq' = evq /\ slots' = slots
    BY <1>10 DEF ClickButton, ClickTitle, ClickResize
  <2> QED  BY <1>1, <1>4, <1>10, <2>1, FrameClicks
<1>11. CASE ClickClient(e, h)
  <2>1. slots' = slots
    BY <1>11 DEF ClickClient
  <2> QED  BY <1>1, <1>11, <2>1, ClientClick, TidyInv
<1> QED  BY <1>2, <1>5, <1>6, <1>7, <1>8, <1>9, <1>10, <1>11

\* Every step keeps the invariant, and moves the windows as a stack may move.
LEMMA DeskStep ==
    ASSUME DeskInv, [Next]_vars
    PROVE  DeskInv' /\ Stacked(st.frames, st'.frames)
<1>1. ASSUME st' = st, slots' = slots, evq' = evq, exited' = exited
      PROVE  DeskInv' /\ Stacked(st.frames, st'.frames)
  <2>1. Good(st) /\ Deliverable(evq)
    BY DEF DeskInv
  <2>2. Tidy
    BY <1>1, <2>1, SameStack DEF Tidy
  <2>3. Deliverable(evq')
    BY <1>1, <2>1
  <2> QED  BY <1>1, <2>2, <2>3, TidyInv
<1>2. ASSUME NEW k \in Keys, Key(k)
      PROVE  DeskInv' /\ Stacked(st.frames, st'.frames)
  BY <1>1, <1>2 DEF Key
<1>3. CASE PollStart \/ PollKeysDone \/ MouseIdle
  BY <1>1, <1>3 DEF PollStart, PollKeysDone, MouseIdle
<1>4. ASSUME NEW k, KeyStep(k) \/ KeyToggleRunner
      PROVE  DeskInv' /\ Stacked(st.frames, st'.frames)
  <2>1. Tidy /\ Deliverable(evq') /\ UNCHANGED <<slots, exited>>
    BY <1>4, KeySteps
  <2> QED  BY <2>1, TidyInv
<1>5. CASE KeyToggleRunner
  BY <1>4, <1>5
<1>6. CASE mode = "poll" /\ keyq # << >> /\ KeyStep(Head(keyq))
  <2>1. PICK k : k = Head(keyq)
    OBVIOUS
  <2>2. KeyStep(k)
    BY <1>6, <2>1
  <2> QED  BY <1>4, <2>2
<1>7. ASSUME NEW e \in MouseEvents, MouseStep(e)
      PROVE  DeskInv' /\ Stacked(st.frames, st'.frames)
  BY <1>7, MouseInv
<1>8. ASSUME NEW p \in Pids, sys_create(p) \/ sys_poll_input(p) \/ Exit(p)
      PROVE  DeskInv' /\ Stacked(st.frames, st'.frames)
  BY <1>8, CreateInv, PollInv, ExitInv
<1>9. CASE UNCHANGED vars
  BY <1>1, <1>9 DEF vars
<1> QED  BY <1>2, <1>3, <1>5, <1>6, <1>7, <1>8, <1>9 DEF Next

\* With no window and no process the invariant holds.
LEMMA DeskInit ==
    ASSUME Init
    PROVE  DeskInv
<1>1. /\ st.frames = << >> /\ st.focus = "Term" /\ st.drag = NoKind
      /\ st.CLIENT_TOP = FALSE /\ slots = [w \in WinIds |-> 0]
      /\ evq = << >> /\ exited = {}
  BY DEF Init
<1>2. st \in State
  <2>1. << >> \in Seq(Frame)
    OBVIOUS
  <2> QED  BY <2>1 DEF Init, State
<1>3. Once(st.frames) /\ FocusOK(st) /\ DragOK(st)
  BY <1>1 DEF Once, FocusOK, DragOK
<1>4. top_kind(st) = NoKind
  BY <1>1 DEF top_kind, visible_top, Visible
<1>5. Synced(st)
  <2>1. top_kind(st).name # "Client"
    BY <1>4 DEF NoKind
  <2>2. (top_kind(st).name = "Client") = FALSE
    BY <2>1
  <2> QED  BY <1>1, <2>2 DEF Synced
<1>6. KindsOf(st.frames) = {}
  BY <1>1 DEF KindsOf
<1>7. ClientsOf(st.frames) = {w \in WinIds : slots[w] # 0}
  BY <1>1, <1>6 DEF ClientsOf
<1> QED  BY <1>1, <1>2, <1>3, <1>5, <1>7 DEF DeskInv, Good, Sound, Deliverable

\* The invariant holds in every state the desktop reaches.
LEMMA DeskAlways == Spec => []DeskInv
<1>1. DeskInv /\ [Next]_vars => DeskInv'
  BY DeskStep
<1> QED  BY <1>1, DeskInit, PTL DEF Spec

-----------------------------------------------------------------------------
(* What the runs check *)

\* A frame for every surface and a surface for every client frame, and the flags by
\* which an interrupt routes keys agree with the windows: whatever the user clicks
\* and types, and however processes open windows, take events and end.
THEOREM DesktopWindowsMatch == Spec => []WindowsMatch
<1>1. ASSUME DeskInv
      PROVE  WindowsMatch
  <2>1. Sound(st) /\ Synced(st) /\ ClientsOf(st.frames) = {w \in WinIds : slots[w] # 0}
    BY <1>1 DEF DeskInv, Good
  <2>2. \A k : IndexOf(st, k) # {} <=> k \in KindsOf(st.frames)
    BY DEF IndexOf, KindsOf
  <2>3. \A w \in WinIds : slots[w] # 0 <=> Client(w) \in KindsOf(st.frames)
    BY <2>1 DEF ClientsOf
  <2>4. \A i, j \in DOMAIN st.frames : st.frames[i].kind = st.frames[j].kind => i = j
    BY <2>1 DEF Sound, Once
  <2>5. /\ st.focus = "Files" => IndexOf(st, Sys("Files")) # {}
        /\ st.focus = "Desk" => IndexOf(st, Sys("Settings")) # {}
    BY <2>1, <2>2 DEF Sound, FocusOK
  <2>6. st.CLIENT_TOP = (top_kind(st).name = "Client")
    BY <2>1 DEF Synced
  <2> QED  BY <2>2, <2>3, <2>4, <2>5, <2>6 DEF WindowsMatch
<1> QED  BY <1>1, DeskAlways, PTL

\* A drag is always of a window that exists, is shown and is not maximized, and the
\* button is down: no closing, minimizing, maximizing or ending of the owner leaves
\* a drag behind for the next window that gets the id.
THEOREM DesktopDragTarget == Spec => []DragTarget
<1>1. ASSUME DeskInv
      PROVE  DragTarget
  <2>1. DragOK(st)
    BY <1>1 DEF DeskInv, Good
  <2> QED  BY <2>1 DEF DragOK, Grabbable, Seen, DragTarget, Visible
<1> QED  BY <1>1, DeskAlways, PTL

\* A process that has ended owns no window, and no event for it is in the ring.
THEOREM DesktopNothingOfExited == Spec => []NothingOfExited
<1>1. ASSUME DeskInv
      PROVE  NothingOfExited
  BY <1>1 DEF DeskInv, Deliverable, NothingOfExited, Owned
<1> QED  BY <1>1, DeskAlways, PTL

\* The desktop implements the abstract stack of windows: at first nothing is shown,
\* and every step brings one window to the front or takes some away, and leaves the
\* order of the others as it was.
THEOREM DesktopIsStack == Spec => ImplementsStack
<1>1. Shown = ShownOf(st.frames) /\ Under = UnderOf(st.frames)
  BY DEF Shown, Under, ShownOf, UnderOf, Seen, Visible
<1>2. Shown' = ShownOf(st'.frames) /\ Under' = UnderOf(st'.frames)
  BY DEF Shown, Under, ShownOf, UnderOf, Seen, Visible
<1>3. Init => Stack!Init
  <2>1. ASSUME Init
        PROVE  Seen(st.frames) = {}
    BY <2>1 DEF Init, Seen
  <2>2. ASSUME Seen(st.frames) = {}
        PROVE  ShownOf(st.frames) = {} /\ UnderOf(st.frames) = {}
    BY <2>2 DEF ShownOf, UnderOf
  <2> QED  BY <1>1, <2>1, <2>2 DEF Stack!Init
<1>4. DeskInv /\ [Next]_vars => [Stack!Next]_<<Shown, Under>>
  <2> SUFFICES ASSUME DeskInv, [Next]_vars
               PROVE  Stack!Next
    OBVIOUS
  <2>1. Stacked(st.frames, st'.frames)
    BY DeskStep
  <2>2. CASE Thinned(st.frames, st'.frames)
    <3>1. Stack!TakeAway
      BY <1>1, <1>2, <2>2 DEF Thinned, Stack!TakeAway
    <3> QED  BY <3>1 DEF Stack!Next
  <2>3. ASSUME NEW k \in Kinds, Fronted(st.frames, st'.frames, k)
        PROVE  Stack!Next
    <3>1. Stack!ToFront(k)
      BY <1>1, <1>2, <2>3 DEF Fronted, Stack!ToFront
    <3> QED  BY <3>1 DEF Stack!Next
  <2> QED  BY <2>1, <2>2, <2>3 DEF Stacked
<1> QED  BY <1>3, <1>4, DeskAlways, PTL DEF Spec, ImplementsStack, Stack!Spec

=============================================================================
