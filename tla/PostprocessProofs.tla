------------------------- MODULE PostprocessProofs -------------------------
(***************************************************************************)
(* Proofs about Postprocess for any number of cells, any tensors the       *)
(* quantization allows and any sizes: what is collected, the quicksort,    *)
(* the suppression and the boxes on the screen.                            *)
(*                                                                         *)
(* Induction goes through sets: a set of naturals with 0 that is closed    *)
(* under successor has them all, since a least missing one cannot exist.   *)
(***************************************************************************)
EXTENDS Postprocess, FiniteSetTheorems, WellFoundedInduction, TLAPS

LEMMA LeastNumber ==
  ASSUME NEW S \in SUBSET Nat, S # {}
  PROVE  \E i \in S : \A j \in S : i <= j
<1>1. PICK i \in S : \A j \in S : ~ (<<j, i>> \in OpToRel(<, Nat))
  BY NatLessThanWellFounded, WFMin
<1>2. \A j \in S : ~ (j < i)
  BY <1>1, Zenon DEF OpToRel
<1>3. \A j \in S : i <= j
  BY <1>2
<1> QED  BY <1>3

LEMMA GreatestNumber ==
  ASSUME NEW S \in SUBSET Int, S # {}, NEW n \in Int, \A i \in S : i <= n
  PROVE  \E i \in S : \A j \in S : j <= i
<1> DEFINE T == {n - i : i \in S}
<1>1. T \in SUBSET Nat /\ T # {}
  <2>1. \A i \in S : n - i \in Nat
    OBVIOUS
  <2> QED  BY <2>1
<1>2. PICK t \in T : \A u \in T : t <= u
  BY <1>1, LeastNumber
<1>3. PICK i \in S : t = n - i
  OBVIOUS
<1>4. ASSUME NEW j \in S PROVE j <= i
  <2>1. n - j \in T /\ i \in Int /\ j \in Int
    OBVIOUS
  <2>2. t <= n - j
    BY <1>2, <2>1
  <2> HIDE DEF T
  <2> QED  BY <1>3, <2>1, <2>2
<1> QED  BY <1>4

LEMMA Induction ==
  ASSUME NEW T, 0 \in T, \A n \in Nat : n \in T => n + 1 \in T
  PROVE  Nat \subseteq T
<1> SUFFICES ASSUME ~(Nat \subseteq T) PROVE FALSE
  OBVIOUS
<1> DEFINE Missing == {n \in Nat : n \notin T}
<1>1. Missing \in SUBSET Nat /\ Missing # {}
  OBVIOUS
<1>2. PICK i \in Missing : \A j \in Missing : i <= j
  BY <1>1, LeastNumber
<1>3. i \in Nat /\ i # 0 /\ i - 1 \in Nat /\ ~(i <= i - 1)
  OBVIOUS
<1>4. i - 1 \in T
  BY <1>2, <1>3
<1>5. (i - 1) + 1 \in T
  BY <1>3, <1>4
<1> QED  BY <1>3, <1>5
-----------------------------------------------------------------------------
(* The threshold.                                                          *)

LEMMA Int8Bounds == \A q \in Int8 : q \in Int /\ -128 <= q /\ q <= 127
BY DEF Int8

LEMMA ValueTypes ==
  ASSUME NEW v \in CellValues
  PROVE  /\ v.out \in Outputs /\ v.conf \in Int8 /\ Deqnt(v.out, v.conf) \in 0 .. Unit
         /\ DOMAIN v.probs = 1 .. Len(v.probs) /\ Len(v.probs) \in Nat \ {0}
         /\ \A k \in DOMAIN v.probs :
              v.probs[k] \in Int8 /\ Deqnt(v.out, v.probs[k]) \in 0 .. Unit
<1>1. v.out \in Outputs /\ v.conf \in Int8 /\ v.probs \in Seq(Int8) \ {<<>>}
  BY CellAssumption
<1>2. DOMAIN v.probs = 1 .. Len(v.probs) /\ Len(v.probs) \in Nat \ {0}
  BY <1>1
<1>3. \A k \in DOMAIN v.probs : v.probs[k] \in Int8
  BY <1>1
<1>4. \A q \in {v.conf} \cup {v.probs[k] : k \in DOMAIN v.probs} : Deqnt(v.out, q) \in 0 .. Unit
  BY QuantAssumption DEF Deqnt
<1> QED  BY <1>1, <1>2, <1>3, <1>4

(* The loop over the classes finds the first with the largest probability. *)
LEMMA LargestClass ==
  ASSUME NEW v \in CellValues
  PROVE  /\ MaxClass(v) \in DOMAIN v.probs
         /\ \A j \in DOMAIN v.probs : v.probs[j] <= v.probs[MaxClass(v)]
<1> DEFINE D == DOMAIN v.probs
           All == {v.probs[k] : k \in D}
           Best(k) == \A j \in D : /\ v.probs[j] <= v.probs[k]
                                   /\ v.probs[j] = v.probs[k] => k <= j
<1>1. D = 1 .. Len(v.probs) /\ Len(v.probs) \in Nat \ {0} /\ \A k \in D : v.probs[k] \in Int8
  BY ValueTypes
<1> HIDE DEF D
<1>2. All \in SUBSET Int /\ All # {} /\ \A i \in All : i <= 127
  <2>1. 1 \in D
    BY <1>1
  <2>2. \A k \in D : v.probs[k] \in Int /\ v.probs[k] <= 127
    BY <1>1, Int8Bounds
  <2> QED  BY <2>1, <2>2
<1> HIDE DEF All
<1>3. PICK p \in All : \A i \in All : i <= p
  <2>1. 127 \in Int
    OBVIOUS
  <2> QED  BY <1>2, <2>1, GreatestNumber
<1> USE DEF All
<1> DEFINE Places == {k \in D : v.probs[k] = p}
<1>4. Places \in SUBSET Nat /\ Places # {}
  BY <1>1
<1>5. PICK k \in Places : \A j \in Places : k <= j
  <2> HIDE DEF Places
  <2> QED  BY <1>4, LeastNumber
<1>6. k \in D /\ Best(k)
  BY <1>3, <1>5
<1>7. MaxClass(v) \in D /\ Best(MaxClass(v))
  BY <1>6 DEF MaxClass, D
<1> QED  BY <1>7 DEF D

LEMMA ScoreTypes ==
  ASSUME NEW v \in CellValues
  PROVE  /\ Score(v) \in Nat
         /\ Deqnt(v.out, v.probs[MaxClass(v)]) \in 0 .. Unit
<1> DEFINE c == Deqnt(v.out, v.conf)
           p == Deqnt(v.out, v.probs[MaxClass(v)])
<1>1. c \in Nat /\ p \in Nat /\ p \in 0 .. Unit
  BY ValueTypes, LargestClass, QuantAssumption
<1> HIDE DEF c, p
<1>2. c * p \in Nat
  BY <1>1
<1> QED  BY <1>1, <1>2 DEF Score, c, p

(* Truncating goes less than one step up.                                  *)
LEMMA TruncBelow ==
  ASSUME NEW a \in Int, NEW d \in Nat \ {0}, NEW q \in Int, a < d * q
  PROVE  Trunc(a, d) \in Int /\ Trunc(a, d) <= q
<1>1. CASE a >= 0
  <2> DEFINE t == a \div d
  <2>1. t \in Int /\ d * t <= a
    OBVIOUS
  <2> HIDE DEF t
  <2>2. ~(t >= q)
    <3> SUFFICES ASSUME t >= q PROVE FALSE
      OBVIOUS
    <3>1. d * q <= d * t
      BY <2>1
    <3> QED  BY <2>1, <3>1
  <2> QED  BY <1>1, <2>1, <2>2 DEF Trunc, t
<1>2. CASE a < 0
  <2> DEFINE t == (-a) \div d
  <2>1. t \in Int /\ d * (t + 1) > -a
    OBVIOUS
  <2> HIDE DEF t
  <2>2. ~(-t >= q + 1)
    <3> SUFFICES ASSUME t + 1 <= -q PROVE FALSE
      BY <2>1
    <3>1. d * (t + 1) <= d * (-q)
      BY <2>1
    <3>2. d * (-q) = -(d * q)
      OBVIOUS
    <3> QED  BY <2>1, <3>1, <3>2
  <2> QED  BY <1>2, <2>1, <2>2 DEF Trunc, t
<1> QED  BY <1>1, <1>2

(* A score above the threshold needs a confidence above it, since no       *)
(* probability is above one; and rounding the threshold toward zero and    *)
(* clipping it to an int8 never takes it past such a confidence.           *)
LEMMA PrefilterLossless ==
  ASSUME NEW v \in CellValues
  PROVE  Candidate(v) <=> Passes(v)
<1> SUFFICES ASSUME Passes(v) PROVE v.conf >= Thres(v.out)
  BY DEF Candidate
<1> DEFINE c == Deqnt(v.out, v.conf)
           p == Deqnt(v.out, v.probs[MaxClass(v)])
           z == Zp[v.out]
           s == Scale[v.out]
           q == v.conf
<1>1. c \in Nat /\ p \in Nat /\ p <= Unit /\ Unit \in Nat \ {0}
  BY ValueTypes, ScoreTypes, QuantAssumption
<1>2. 4 * (c * p) > Unit * Unit
  BY DEF Passes, Score
<1>3. q \in Int /\ q <= 127 /\ -128 <= q /\ z \in Int /\ s \in Nat \ {0} /\ c = (q - z) * s
  <2>1. q \in Int8 /\ z \in Int8 /\ s \in Nat \ {0}
    BY ValueTypes, QuantAssumption
  <2> QED  BY <2>1 DEF Deqnt, Int8
<1>0. Thres(v.out) = Clip(Trunc(Unit + 4 * (z * s), 4 * s))
  BY DEF Thres
<1> HIDE DEF c, p, z, s, q
<1>4. c * p <= c * Unit
  BY <1>1
<1>5. 4 * c > Unit
  <2> SUFFICES ASSUME 4 * c <= Unit PROVE FALSE
    BY <1>1
  <2>1. (4 * c) * Unit <= Unit * Unit
    BY <1>1
  <2>2. (4 * c) * Unit = 4 * (c * Unit)
    BY <1>1
  <2> QED  BY <1>1, <1>2, <1>4, <2>1, <2>2
<1>6. Trunc(Unit + 4 * (z * s), 4 * s) \in Int /\ Trunc(Unit + 4 * (z * s), 4 * s) <= q
  <2> DEFINE a == Unit + 4 * (z * s)
             d == 4 * s
  <2>1. z * s \in Int /\ q * s \in Int /\ (q - z) * s = q * s - z * s
    BY <1>3
  <2>2. d * q = 4 * (q * s)
    BY <1>3
  <2>3. a \in Int /\ d \in Nat \ {0} /\ a < d * q
    BY <1>1, <1>3, <1>5, <2>1, <2>2
  <2> HIDE DEF a, d
  <2>4. Trunc(a, d) \in Int /\ Trunc(a, d) <= q
    BY <1>3, <2>3, TruncBelow
  <2> QED  BY <2>4 DEF a, d
<1>7. Clip(Trunc(Unit + 4 * (z * s), 4 * s)) <= q
  <2> DEFINE t == Trunc(Unit + 4 * (z * s), 4 * s)
  <2>1. t \in Int /\ t <= q
    BY <1>6
  <2> HIDE DEF t
  <2>2. Clip(t) <= q
    BY <1>3, <2>1 DEF Clip
  <2> QED  BY <2>2 DEF t
<1>8. Clip(Trunc(Unit + 4 * (z * s), 4 * s)) \in Int
  BY <1>6 DEF Clip
<1> QED  BY <1>0, <1>3, <1>7, <1>8 DEF q
-----------------------------------------------------------------------------
(* The loops that append what they select.                                 *)

Selecting(S, n, g) ==
  g = [i \in 0 .. n |-> IF i = 0 THEN <<>>
                        ELSE IF i \in S THEN Append(g[i - 1], i) ELSE g[i - 1]]

(* The first i places are gone through: s has their members, ascending.    *)
Selected(S, i, s) ==
  /\ s \in Seq(1 .. i)
  /\ \A k, l \in DOMAIN s : k < l => s[k] < s[l]
  /\ \A k \in DOMAIN s : s[k] \in S
  /\ \A j \in S : j \in 1 .. i => \E k \in DOMAIN s : s[k] = j

LEMMA SelectingExists == ASSUME NEW S, NEW n \in Nat PROVE \E g : Selecting(S, n, g)
<1> DEFINE T == {m \in Nat : \E g : Selecting(S, m, g)}
<1>1. 0 \in T
  <2>1. Selecting(S, 0, [i \in 0 .. 0 |-> <<>>])
    BY DEF Selecting
  <2> QED  BY <2>1
<1>2. ASSUME NEW m \in Nat, m \in T PROVE m + 1 \in T
  <2>1. PICK g : Selecting(S, m, g)
    BY <1>2
  <2> DEFINE h == [i \in 0 .. m + 1 |->
                     IF i <= m THEN g[i]
                     ELSE IF m + 1 \in S THEN Append(g[m], m + 1) ELSE g[m]]
  <2>2. Selecting(S, m + 1, h)
    <3> SUFFICES ASSUME NEW i \in 0 .. m + 1
                 PROVE  h[i] = IF i = 0 THEN <<>>
                               ELSE IF i \in S THEN Append(h[i - 1], i) ELSE h[i - 1]
      BY DEF Selecting
    <3>1. CASE i = m + 1
      BY <3>1
    <3>2. CASE i \in 0 .. m
      <4>1. g[i] = IF i = 0 THEN <<>> ELSE IF i \in S THEN Append(g[i - 1], i) ELSE g[i - 1]
        BY <2>1, <3>2, Zenon DEF Selecting
      <4>2. h[i] = g[i] /\ (i # 0 => h[i - 1] = g[i - 1])
        BY <3>2
      <4> HIDE DEF h
      <4> QED  BY <4>1, <4>2
    <3> QED  BY <3>1, <3>2
  <2> QED  BY <2>2
<1> HIDE DEF T
<1>3. Nat \subseteq T
  BY <1>1, <1>2, Induction
<1> QED  BY <1>3 DEF T

LEMMA SelectsAll ==
  ASSUME NEW S, NEW n \in Nat
  PROVE  Selected(S, n, InOrder(S, n))
<1>0. \E g : g = [i \in 0 .. n |-> IF i = 0 THEN <<>>
                                    ELSE IF i \in S THEN Append(g[i - 1], i) ELSE g[i - 1]]
  <2>1. \E g : Selecting(S, n, g)
    BY SelectingExists
  <2> QED  BY <2>1, Zenon DEF Selecting
<1>1. PICK g : Selecting(S, n, g) /\ InOrder(S, n) = g[n]
  BY <1>0, Zenon DEF InOrder, Selecting
<1>2. /\ g[0] = <<>>
      /\ \A i \in 1 .. n : g[i] = IF i \in S THEN Append(g[i - 1], i) ELSE g[i - 1]
  <2>1. \A i \in 0 .. n : g[i] = IF i = 0 THEN <<>>
                                 ELSE IF i \in S THEN Append(g[i - 1], i) ELSE g[i - 1]
    BY <1>1, Zenon DEF Selecting
  <2>2. 0 \in 0 .. n /\ \A i \in 1 .. n : i \in 0 .. n /\ i # 0
    OBVIOUS
  <2> QED  BY <2>1, <2>2, Zenon
<1> DEFINE T == {i \in Nat : i <= n => Selected(S, i, g[i])}
<1>3. 0 \in T
  <2>1. <<>> \in Seq(1 .. 0) /\ DOMAIN <<>> = {} /\ \A j \in Int : j \notin 1 .. 0
    OBVIOUS
  <2>2. Selected(S, 0, <<>>)
    BY <2>1 DEF Selected
  <2> QED  BY <1>2, <2>2
<1>4. ASSUME NEW m \in Nat, m \in T PROVE m + 1 \in T
  <2> SUFFICES ASSUME m + 1 <= n PROVE Selected(S, m + 1, g[m + 1])
    OBVIOUS
  <2> DEFINE s == g[m]
             t == g[m + 1]
  <2>1. Selected(S, m, s)
    BY <1>4
  <2>2. t = IF m + 1 \in S THEN Append(s, m + 1) ELSE s
    BY <1>2
  <2> HIDE DEF s, t
  <2>3. s \in Seq(1 .. m) /\ s \in Seq(1 .. m + 1)
    BY <2>1 DEF Selected
  <2>4. CASE m + 1 \notin S
    <3>1. \A j \in S : j \in 1 .. m + 1 => j \in 1 .. m
      BY <2>4
    <3>2. Selected(S, m + 1, s)
      BY <2>1, <2>3, <3>1 DEF Selected
    <3> QED  BY <2>2, <2>4, <3>2 DEF t
  <2>5. CASE m + 1 \in S
    <3>1. t = Append(s, m + 1) /\ t \in Seq(1 .. m + 1)
      BY <2>2, <2>3, <2>5
    <3>2. /\ DOMAIN s = 1 .. Len(s) /\ DOMAIN t = 1 .. Len(s) + 1 /\ Len(s) \in Nat
          /\ \A k \in DOMAIN s : t[k] = s[k] /\ s[k] \in 1 .. m
          /\ t[Len(s) + 1] = m + 1
      BY <2>3, <3>1
    <3>3. \A k, l \in DOMAIN t : k < l => t[k] < t[l]
      <4> SUFFICES ASSUME NEW k \in DOMAIN t, NEW l \in DOMAIN t, k < l PROVE t[k] < t[l]
        OBVIOUS
      <4>1. k \in DOMAIN s /\ t[k] = s[k] /\ s[k] \in 1 .. m
        BY <3>2
      <4>2. CASE l = Len(s) + 1
        BY <3>2, <4>1, <4>2
      <4>3. CASE l \in DOMAIN s
        BY <2>1, <3>2, <4>1, <4>3 DEF Selected
      <4> QED  BY <3>2, <4>2, <4>3
    <3>4. \A k \in DOMAIN t : t[k] \in S
      <4> SUFFICES ASSUME NEW k \in DOMAIN t PROVE t[k] \in S
        OBVIOUS
      <4>1. CASE k = Len(s) + 1
        BY <2>5, <3>2, <4>1
      <4>2. CASE k \in DOMAIN s
        BY <2>1, <3>2, <4>2 DEF Selected
      <4> QED  BY <3>2, <4>1, <4>2
    <3>5. \A j \in S : j \in 1 .. m + 1 => \E k \in DOMAIN t : t[k] = j
      <4> SUFFICES ASSUME NEW j \in S, j \in 1 .. m + 1 PROVE \E k \in DOMAIN t : t[k] = j
        OBVIOUS
      <4>1. CASE j = m + 1
        BY <3>2, <4>1
      <4>2. CASE j \in 1 .. m
        BY <2>1, <3>2, <4>2 DEF Selected
      <4> QED  BY <4>1, <4>2
    <3>6. Selected(S, m + 1, t)
      BY <3>1, <3>3, <3>4, <3>5 DEF Selected
    <3> QED  BY <3>6 DEF t
  <2> QED  BY <2>4, <2>5 DEF t
<1> HIDE DEF T
<1>5. Nat \subseteq T
  BY <1>3, <1>4, Induction
<1> QED  BY <1>1, <1>5 DEF T
-----------------------------------------------------------------------------
(* The sort.                                                               *)

Places == 1 .. Len(cands)

(* The arrays with the element that is taken out back in the hole it left. *)
Hole == IF step = "right" THEN low ELSE high
Scores == IF step = "pop" THEN probs ELSE [probs EXCEPT ![Hole] = key]
Indices == IF step = "pop" THEN order ELSE [order EXCEPT ![Hole] = keyIndex]

(* The ranges still to be sorted.                                          *)
Ranges == {todo[k] : k \in DOMAIN todo} \cup (IF step = "pop" THEN {} ELSE {range})

(* O permutes the candidates and P has their scores.                       *)
Arranged(P, O, C, n) ==
  /\ \A i \in 1 .. n : P[i] = Score(C[O[i]])
  /\ \A i, j \in 1 .. n : O[i] = O[j] => i = j
  /\ \A m \in 1 .. n : \E i \in 1 .. n : O[i] = m

(* Scores out of order are within one of the ranges.                       *)
OrderedBut(P, R, n) ==
  \A i, j \in 1 .. n :
    i < j => P[i] >= P[j] \/ \E r \in R : r[1] <= i /\ j <= r[2]

SortTypes ==
  /\ cands \in Seq(CellValues)
  /\ probs \in [Places -> Nat] /\ order \in [Places -> Places]
  /\ step \in {"pop", "right", "left", "place"}
  /\ todo \in Seq((1 .. Len(cands) + 1) \X (0 .. Len(cands)))
  /\ step # "pop" =>
       /\ range \in Places \X Places /\ low \in Places /\ high \in Places
       /\ range[1] <= low /\ low <= high /\ high <= range[2]
       /\ key \in Nat /\ keyIndex \in Places
  /\ step = "place" => low = high

(* The ranges are taken from the left.                                     *)
Stacked ==
  /\ \A k, l \in DOMAIN todo : k < l => todo[k][2] < todo[l][1]
  /\ step # "pop" => \A k \in DOMAIN todo : range[2] < todo[k][1]

(* What the scans have passed is on its side of the key.                   *)
Split ==
  step # "pop" =>
    \A i \in Places : /\ range[1] <= i /\ i < low => probs[i] >= key
                      /\ high < i /\ i <= range[2] => probs[i] <= key

SortInv ==
  /\ SortTypes /\ Stacked /\ Split
  /\ Arranged(Scores, Indices, cands, Len(cands))
  /\ OrderedBut(Scores, Ranges, Len(cands))

Swapped(P, Q, a, b, n) ==
  /\ Q[a] = P[b] /\ Q[b] = P[a]
  /\ \A i \in 1 .. n : i # a /\ i # b => Q[i] = P[i]

LEMMA SwapArranged ==
  ASSUME NEW n \in Nat, NEW C, NEW P, NEW O, NEW Q, NEW U, NEW a \in 1 .. n, NEW b \in 1 .. n,
         Swapped(P, Q, a, b, n), Swapped(O, U, a, b, n), Arranged(P, O, C, n)
  PROVE  Arranged(Q, U, C, n)
<1>1. ASSUME NEW i \in 1 .. n PROVE Q[i] = Score(C[U[i]])
  BY DEF Swapped, Arranged
<1>2. ASSUME NEW i \in 1 .. n, NEW j \in 1 .. n, U[i] = U[j] PROVE i = j
  BY <1>2 DEF Swapped, Arranged
<1>3. ASSUME NEW m \in 1 .. n PROVE \E i \in 1 .. n : U[i] = m
  <2>1. PICK i \in 1 .. n : O[i] = m
    BY DEF Arranged
  <2> QED  BY <2>1 DEF Swapped
<1> QED  BY <1>1, <1>2, <1>3 DEF Arranged

(* Exchanging two elements of a range that meets no other.                 *)
LEMMA SwapOrdered ==
  ASSUME NEW n \in Nat, NEW R, NEW x \in 1 .. n, NEW y \in 1 .. n,
         \A r \in R : r[1] \in Int /\ y < r[1],
         NEW P, NEW Q, NEW a \in x .. y, NEW b \in x .. y, Swapped(P, Q, a, b, n),
         OrderedBut(P, R \cup {<<x, y>>}, n)
  PROVE  OrderedBut(Q, R \cup {<<x, y>>}, n)
<1> SUFFICES ASSUME NEW i \in 1 .. n, NEW j \in 1 .. n, i < j, ~(x <= i /\ j <= y),
                    ~ \E r \in R : r[1] <= i /\ j <= r[2]
             PROVE  Q[i] >= Q[j]
  BY DEF OrderedBut
<1> DEFINE In(k) == x <= k /\ k <= y
<1>1. \A k, l \in 1 .. n : k < l => P[k] >= P[l] \/ (x <= k /\ l <= y)
                                     \/ \E r \in R : r[1] <= k /\ l <= r[2]
  BY DEF OrderedBut
<1>2. CASE ~In(i) /\ ~In(j)
  <2>1. Q[i] = P[i] /\ Q[j] = P[j]
    BY <1>2 DEF Swapped
  <2> QED  BY <1>1, <2>1
<1>3. CASE In(i)
  <2>1. PICK k \in x .. y : Q[i] = P[k]
    BY <1>3 DEF Swapped
  <2>2. ~In(j) /\ Q[j] = P[j] /\ y < j
    BY <1>3 DEF Swapped
  <2>3. \A r \in R : ~(r[1] <= k)
    OBVIOUS
  <2> QED  BY <1>1, <2>1, <2>2, <2>3
<1>4. CASE ~In(i) /\ In(j)
  <2>1. PICK k \in x .. y : Q[j] = P[k]
    BY <1>4 DEF Swapped
  <2>2. i < x /\ Q[i] = P[i]
    BY <1>4 DEF Swapped
  <2>3. \A r \in R : ~(r[1] <= i)
    BY <2>2
  <2> QED  BY <1>1, <2>1, <2>2, <2>3
<1> QED  BY <1>2, <1>3, <1>4

LEMMA FillHole ==
  ASSUME NEW n \in Nat, NEW S, NEW P \in [1 .. n -> S], NEW a \in 1 .. n, NEW b \in 1 .. n, NEW v
  PROVE  Swapped([P EXCEPT ![a] = v], [[P EXCEPT ![a] = P[b]] EXCEPT ![b] = v], a, b, n)
BY DEF Swapped

LEMMA PlacesAre == SortTypes => Len(cands) \in Nat /\ DOMAIN cands = Places
BY DEF SortTypes, Places

(* The scan from the right end stops at the first larger score, or at low. *)
LEMMA RightEnd ==
  ASSUME SortInv, ScanRight
  PROVE  /\ high' \in low .. high
         /\ \A g \in Places : high' < g /\ g <= high => probs[g] <= key
         /\ step # "pop" /\ step = "right" /\ step' = "left"
<1> DEFINE S == {h \in low .. high : h = low \/ probs[h] > key}
           Stop(h) == /\ h = low \/ probs[h] > key
                      /\ \A g \in h + 1 .. high : probs[g] <= key
<1>1. step = "right" /\ step' = "left"
  BY DEF ScanRight, Sorting
<1>2. low \in Nat /\ high \in Nat /\ low <= high /\ key \in Nat /\ high \in Places
      /\ probs \in [Places -> Nat] /\ low \in Places /\ Len(cands) \in Nat
  BY <1>1, PlacesAre, SMTT(30) DEF SortInv, SortTypes, Places
<1>3. S \in SUBSET Int /\ S # {} /\ \A h \in S : h <= high
  <2>1. low \in S
    BY <1>2
  <2> QED  BY <1>2, <2>1
<1>4. PICK h \in S : \A g \in S : g <= h
  <2>1. high \in Int
    BY <1>2
  <2> HIDE DEF S
  <2> QED  BY <1>3, <2>1, GreatestNumber
<1>5. Stop(h)
  <2> SUFFICES ASSUME NEW g \in h + 1 .. high PROVE probs[g] <= key
    OBVIOUS
  <2>1. g \notin S /\ g \in low .. high /\ g # low
    BY <1>2, <1>4
  <2>2. g \in Places /\ probs[g] \in Nat
    BY <1>2, <2>1 DEF Places
  <2> QED  BY <1>2, <2>1, <2>2
<1>6. high' = CHOOSE h2 \in low .. high : Stop(h2)
  BY DEF ScanRight
<1>7. \E h2 \in low .. high : Stop(h2) /\ high' = h2
  <2>1. \E h2 \in low .. high : Stop(h2)
    BY <1>5
  <2> HIDE DEF Stop
  <2> QED  BY <1>6, <2>1
<1>8. PICK h2 \in low .. high : Stop(h2) /\ high' = h2
  BY <1>7
<1>9. \A g \in Places : h2 < g /\ g <= high => g \in h2 + 1 .. high
  BY <1>2 DEF Places
<1> QED  BY <1>1, <1>8, <1>9

LEMMA LeftEnd ==
  ASSUME SortInv, ScanLeft
  PROVE  /\ low' \in low .. high
         /\ \A g \in Places : low <= g /\ g < low' => probs[g] >= key
         /\ low' = high \/ probs[low'] < key
         /\ step = "left" /\ step' = IF low' < high THEN "right" ELSE "place"
<1> DEFINE S == {l \in low .. high : l = high \/ probs[l] < key}
           Stop(l) == /\ l = high \/ probs[l] < key
                      /\ \A g \in low .. l - 1 : probs[g] >= key
<1>1. step = "left" /\ step' = IF low' < high THEN "right" ELSE "place"
  BY DEF ScanLeft, Sorting
<1>2. low \in Nat /\ high \in Nat /\ low <= high /\ key \in Nat /\ high \in Places
      /\ probs \in [Places -> Nat] /\ low \in Places /\ Len(cands) \in Nat
  BY <1>1, PlacesAre, SMTT(30) DEF SortInv, SortTypes, Places
<1>3. S \in SUBSET Nat /\ S # {}
  <2>1. high \in S
    BY <1>2
  <2> QED  BY <1>2, <2>1
<1>4. PICK l \in S : \A g \in S : l <= g
  <2> HIDE DEF S
  <2> QED  BY <1>3, LeastNumber
<1>5. Stop(l)
  <2> SUFFICES ASSUME NEW g \in low .. l - 1 PROVE probs[g] >= key
    OBVIOUS
  <2>1. g \notin S /\ g \in low .. high
    BY <1>2, <1>4
  <2>2. g \in Places /\ probs[g] \in Nat
    BY <1>2, <2>1 DEF Places
  <2> QED  BY <1>2, <2>1, <2>2
<1>6. low' = CHOOSE l2 \in low .. high : Stop(l2)
  BY DEF ScanLeft
<1>7. \E l2 \in low .. high : Stop(l2) /\ low' = l2
  <2>1. \E l2 \in low .. high : Stop(l2)
    BY <1>5
  <2> HIDE DEF Stop
  <2> QED  BY <1>6, <2>1
<1>8. PICK l2 \in low .. high : Stop(l2) /\ low' = l2
  BY <1>7
<1>9. \A g \in Places : low <= g /\ g < l2 => g \in low .. l2 - 1
  BY <1>2 DEF Places
<1> QED  BY <1>1, <1>8, <1>9

LEMMA ScanRightSorts == ASSUME SortInv, ScanRight PROVE SortInv'
<1> DEFINE n == Len(cands)
           R == {todo[k] : k \in DOMAIN todo}
<1>1. /\ high' \in low .. high
      /\ \A g \in Places : high' < g /\ g <= high => probs[g] <= key
      /\ step # "pop" /\ step = "right" /\ step' = "left"
  BY RightEnd
<1>2. /\ probs' = [probs EXCEPT ![low] = probs[high']]
      /\ order' = [order EXCEPT ![low] = order[high']]
      /\ UNCHANGED <<cands, todo, range, low, key, keyIndex>>
  BY DEF ScanRight
<1>3. /\ n \in Nat /\ Places = 1 .. n /\ range \in Places \X Places /\ low \in Places /\ high \in Places
      /\ range[1] <= low /\ low <= high /\ high <= range[2] /\ key \in Nat /\ keyIndex \in Places
      /\ probs \in [Places -> Nat] /\ order \in [Places -> Places]
  BY <1>1, PlacesAre DEF SortInv, SortTypes, Places
<1>4. /\ high' \in Places /\ low <= high' /\ high' <= range[2]
      /\ range[1] \in 1 .. n /\ range[2] \in 1 .. n /\ range = <<range[1], range[2]>>
      /\ low \in 1 .. n /\ high \in 1 .. n /\ high' \in 1 .. n
  <2>1. range[1] \in 1 .. n /\ range[2] \in 1 .. n /\ range = <<range[1], range[2]>>
    BY <1>3
  <2> QED  BY <1>1, <1>3, <2>1
<1>5. SortTypes'
  <2>1. Places' = Places
    BY <1>2 DEF Places
  <2>2. probs' \in [Places -> Nat] /\ order' \in [Places -> Places]
    BY <1>2, <1>3, <1>4
  <2> QED  BY <1>1, <1>2, <1>3, <1>4, <2>1, <2>2 DEF SortInv, SortTypes
<1>6. Stacked'
  BY <1>1, <1>2 DEF SortInv, Stacked
<1>7. Split'
  <2> SUFFICES ASSUME NEW i \in Places
               PROVE  /\ range[1] <= i /\ i < low => probs'[i] >= key
                      /\ high' < i /\ i <= range[2] => probs'[i] <= key
    BY <1>2 DEF Split, Places
  <2>1. /\ range[1] <= i /\ i < low => probs[i] >= key
        /\ high < i /\ i <= range[2] => probs[i] <= key
    BY <1>1 DEF SortInv, Split
  <2>2. i # low => probs'[i] = probs[i]
    BY <1>2, <1>3
  <2>3. i \in Int /\ low \in Int /\ high \in Int /\ high' \in Int
    BY <1>4 DEF Places
  <2>4. high' < i /\ i <= high => probs[i] <= key
    BY <1>1, <2>3
  <2> QED  BY <1>4, <2>1, <2>2, <2>3, <2>4
<1>8. /\ Scores = [probs EXCEPT ![low] = key] /\ Scores' = [probs' EXCEPT ![high'] = key]
      /\ Indices = [order EXCEPT ![low] = keyIndex] /\ Indices' = [order' EXCEPT ![high'] = keyIndex]
  BY <1>1, <1>2 DEF Scores, Indices, Hole
<1>9. Swapped(Scores, Scores', low, high', n) /\ Swapped(Indices, Indices', low, high', n)
  <2> HIDE DEF n
  <2>1. Swapped(Scores, Scores', low, high', n)
    BY <1>2, <1>3, <1>4, <1>8, FillHole
  <2>2. Swapped(Indices, Indices', low, high', n)
    BY <1>2, <1>3, <1>4, <1>8, FillHole
  <2> QED  BY <2>1, <2>2
<1>10. Arranged(Scores', Indices', cands, n)
  <2>1. Arranged(Scores, Indices, cands, n)
    BY DEF SortInv
  <2> HIDE DEF n
  <2> QED  BY <1>3, <1>4, <1>9, <2>1, SwapArranged
<1>11. Ranges = R \cup {<<range[1], range[2]>>} /\ Ranges' = Ranges
  BY <1>1, <1>2, <1>4 DEF Ranges
<1>12. OrderedBut(Scores', Ranges', n)
  <2>1. OrderedBut(Scores, R \cup {<<range[1], range[2]>>}, n)
    BY <1>11 DEF SortInv
  <2>2. \A r \in R : r[1] \in Int /\ range[2] < r[1]
    <3>1. \A k \in DOMAIN todo : todo[k] \in (1 .. Len(cands) + 1) \X (0 .. Len(cands))
      BY DEF SortInv, SortTypes
    <3>2. \A k \in DOMAIN todo : todo[k][1] \in Int
      BY <1>3, <3>1
    <3> QED  BY <1>1, <3>2 DEF SortInv, Stacked
  <2>3. low \in range[1] .. range[2] /\ high' \in range[1] .. range[2]
    BY <1>3, <1>4
  <2> HIDE DEF n, R
  <2> QED  BY <1>3, <1>9, <1>11, <2>1, <2>2, <2>3, SwapOrdered
<1> QED  BY <1>2, <1>5, <1>6, <1>7, <1>10, <1>12 DEF SortInv

LEMMA ScanLeftSorts == ASSUME SortInv, ScanLeft PROVE SortInv'
<1> DEFINE n == Len(cands)
           R == {todo[k] : k \in DOMAIN todo}
<1>1. /\ low' \in low .. high
      /\ \A g \in Places : low <= g /\ g < low' => probs[g] >= key
      /\ low' = high \/ probs[low'] < key
      /\ step # "pop" /\ step = "left" /\ step' = IF low' < high THEN "right" ELSE "place"
  <2>1. step = "left" => step # "pop"
    OBVIOUS
  <2> QED  BY <2>1, LeftEnd
<1>2. /\ probs' = [probs EXCEPT ![high] = probs[low']]
      /\ order' = [order EXCEPT ![high] = order[low']]
      /\ UNCHANGED <<cands, todo, range, high, key, keyIndex>>
  BY DEF ScanLeft
<1>3. /\ n \in Nat /\ Places = 1 .. n /\ range \in Places \X Places /\ low \in Places /\ high \in Places
      /\ range[1] <= low /\ low <= high /\ high <= range[2] /\ key \in Nat /\ keyIndex \in Places
      /\ probs \in [Places -> Nat] /\ order \in [Places -> Places]
  BY <1>1, PlacesAre DEF SortInv, SortTypes, Places
<1>4. /\ low' \in Places /\ low <= low' /\ low' <= high /\ range[1] <= low'
      /\ range[1] \in 1 .. n /\ range[2] \in 1 .. n /\ range = <<range[1], range[2]>>
      /\ low \in 1 .. n /\ high \in 1 .. n /\ low' \in 1 .. n
  <2>1. range[1] \in 1 .. n /\ range[2] \in 1 .. n /\ range = <<range[1], range[2]>>
    BY <1>3
  <2> QED  BY <1>1, <1>3, <2>1
<1>5. step' \in {"right", "place"} /\ (step' = "place" => low' = high)
  <2>1. low' < high \/ low' = high
    BY <1>4
  <2> QED  BY <1>1, <2>1
<1>6. SortTypes'
  <2>1. Places' = Places
    BY <1>2 DEF Places
  <2>2. probs' \in [Places -> Nat] /\ order' \in [Places -> Places]
    BY <1>2, <1>3, <1>4
  <2> QED  BY <1>2, <1>3, <1>4, <1>5, <2>1, <2>2 DEF SortInv, SortTypes
<1>7. Stacked'
  BY <1>1, <1>2 DEF SortInv, Stacked
<1>8. Split'
  <2> SUFFICES ASSUME NEW i \in Places
               PROVE  /\ range[1] <= i /\ i < low' => probs'[i] >= key
                      /\ high < i /\ i <= range[2] => probs'[i] <= key
    BY <1>2 DEF Split, Places
  <2>1. /\ range[1] <= i /\ i < low => probs[i] >= key
        /\ high < i /\ i <= range[2] => probs[i] <= key
    BY <1>1 DEF SortInv, Split
  <2>2. i # high => probs'[i] = probs[i]
    BY <1>2, <1>3
  <2>3. i \in Int /\ low \in Int /\ high \in Int /\ low' \in Int
    BY <1>4 DEF Places
  <2>4. low <= i /\ i < low' => probs[i] >= key
    BY <1>1, <2>3
  <2> QED  BY <1>4, <2>1, <2>2, <2>3, <2>4
<1>9. /\ Scores = [probs EXCEPT ![high] = key] /\ Scores' = [probs' EXCEPT ![low'] = key]
      /\ Indices = [order EXCEPT ![high] = keyIndex] /\ Indices' = [order' EXCEPT ![low'] = keyIndex]
  <2>1. Hole = high /\ Hole' = low'
    BY <1>1, <1>2, <1>5 DEF Hole
  <2> QED  BY <1>1, <1>2, <1>5, <2>1 DEF Scores, Indices
<1>10. Swapped(Scores, Scores', high, low', n) /\ Swapped(Indices, Indices', high, low', n)
  <2> HIDE DEF n
  <2>1. Swapped(Scores, Scores', high, low', n)
    BY <1>2, <1>3, <1>4, <1>9, FillHole
  <2>2. Swapped(Indices, Indices', high, low', n)
    BY <1>2, <1>3, <1>4, <1>9, FillHole
  <2> QED  BY <2>1, <2>2
<1>11. Arranged(Scores', Indices', cands, n)
  <2>1. Arranged(Scores, Indices, cands, n)
    BY DEF SortInv
  <2> HIDE DEF n
  <2> QED  BY <1>3, <1>4, <1>10, <2>1, SwapArranged
<1>12. Ranges = R \cup {<<range[1], range[2]>>} /\ Ranges' = Ranges
  BY <1>1, <1>2, <1>4, <1>5 DEF Ranges
<1>13. OrderedBut(Scores', Ranges', n)
  <2>1. OrderedBut(Scores, R \cup {<<range[1], range[2]>>}, n)
    BY <1>12 DEF SortInv
  <2>2. \A r \in R : r[1] \in Int /\ range[2] < r[1]
    <3>1. \A k \in DOMAIN todo : todo[k] \in (1 .. Len(cands) + 1) \X (0 .. Len(cands))
      BY DEF SortInv, SortTypes
    <3>2. \A k \in DOMAIN todo : todo[k][1] \in Int
      BY <1>3, <3>1
    <3> QED  BY <1>1, <3>2 DEF SortInv, Stacked
  <2>3. high \in range[1] .. range[2] /\ low' \in range[1] .. range[2]
    BY <1>3, <1>4
  <2> HIDE DEF n, R
  <2> QED  BY <1>3, <1>10, <1>12, <2>1, <2>2, <2>3, SwapOrdered
<1> QED  BY <1>2, <1>6, <1>7, <1>8, <1>11, <1>13 DEF SortInv

LEMMA PushTwo ==
  ASSUME NEW X, NEW t \in Seq(X), NEW a \in X, NEW b \in X
  PROVE  LET s == <<a, b>> \o t IN
         /\ s \in Seq(X) /\ Len(t) \in Nat
         /\ DOMAIN t = 1 .. Len(t) /\ DOMAIN s = 1 .. Len(t) + 2
         /\ s[1] = a /\ s[2] = b
         /\ \A k \in DOMAIN s : k > 2 => k - 2 \in DOMAIN t /\ s[k] = t[k - 2]
<1> DEFINE p == <<a, b>>
           s == p \o t
<1>1. p \in Seq(X) /\ Len(p) = 2 /\ p[1] = a /\ p[2] = b
  OBVIOUS
<1>2. Len(t) \in Nat /\ DOMAIN t = 1 .. Len(t)
  OBVIOUS
<1> HIDE DEF p
<1>3. s \in Seq(X) /\ Len(s) = Len(t) + 2
  <2>1. s \in Seq(X)
    BY <1>1
  <2>2. Len(s) = Len(p) + Len(t)
    <3>1. \A u, w \in Seq(X) : Len(u \o w) = Len(u) + Len(w)
      OBVIOUS
    <3> QED  BY <1>1, <3>1
  <2> QED  BY <1>1, <1>2, <2>1, <2>2
<1>4. \A k \in 1 .. Len(s) : s[k] = IF k <= 2 THEN p[k] ELSE t[k - 2]
  BY <1>1, <1>2, <1>3
<1>5. DOMAIN s = 1 .. Len(t) + 2
  BY <1>3
<1> QED  BY <1>1, <1>2, <1>3, <1>4, <1>5 DEF p

LEMMA PlaceSorts == ASSUME SortInv, Place PROVE SortInv'
<1> DEFINE n == Len(cands)
           R == {todo[k] : k \in DOMAIN todo}
           pair == <<<<range[1], low - 1>>, <<low + 1, range[2]>>>>
<1>1. /\ step = "place" /\ step' = "pop" /\ low = high
      /\ probs' = [probs EXCEPT ![low] = key]
      /\ order' = [order EXCEPT ![low] = keyIndex]
      /\ todo' = pair \o todo /\ UNCHANGED <<cands, range, low, high, key, keyIndex>>
  BY DEF Place, Sorting, SortInv, SortTypes
<1>2. /\ n \in Nat /\ Places = 1 .. n /\ range \in Places \X Places /\ low \in 1 .. n
      /\ range[1] <= low /\ low <= range[2] /\ key \in Nat /\ keyIndex \in Places
      /\ probs \in [Places -> Nat] /\ order \in [Places -> Places]
      /\ todo \in Seq((1 .. n + 1) \X (0 .. n))
  BY <1>1, PlacesAre DEF SortInv, SortTypes, Places
<1>3. range[1] \in 1 .. n /\ range[2] \in 1 .. n /\ range = <<range[1], range[2]>>
  BY <1>2
<1>4. Scores' = Scores /\ Indices' = Indices /\ Scores = probs'
  BY <1>1 DEF Scores, Indices, Hole
<1> HIDE DEF n, pair
<1>5. <<range[1], low - 1>> \in (1 .. n + 1) \X (0 .. n) /\ <<low + 1, range[2]>> \in (1 .. n + 1) \X (0 .. n)
  <2>1. range[1] \in 1 .. n + 1 /\ low - 1 \in 0 .. n /\ low + 1 \in 1 .. n + 1 /\ range[2] \in 0 .. n
    <3>1. n \in Nat /\ low \in 1 .. n /\ range[1] \in 1 .. n /\ range[2] \in 1 .. n
      BY <1>2, <1>3
    <3>2. \A i \in 1 .. n : i \in 1 .. n + 1 /\ i \in 0 .. n /\ i - 1 \in 0 .. n /\ i + 1 \in 1 .. n + 1
      BY <3>1
    <3> QED  BY <3>1, <3>2
  <2> QED  BY <2>1
<1>6. todo' \in Seq((1 .. n + 1) \X (0 .. n)) /\ Len(todo) \in Nat /\ DOMAIN todo = 1 .. Len(todo)
  <2> DEFINE X == (1 .. n + 1) \X (0 .. n)
  <2>1. todo \in Seq(X) /\ <<range[1], low - 1>> \in X /\ <<low + 1, range[2]>> \in X
    BY <1>2, <1>5
  <2> HIDE DEF X
  <2>2. todo' = <<<<range[1], low - 1>>, <<low + 1, range[2]>>>> \o todo
    BY <1>1 DEF pair
  <2>3. todo' \in Seq(X) /\ Len(todo) \in Nat /\ DOMAIN todo = 1 .. Len(todo)
    BY <2>1, <2>2, PushTwo
  <2> QED  BY <2>3 DEF X
<1>7. /\ DOMAIN todo' = 1 .. Len(todo) + 2
      /\ todo'[1] = <<range[1], low - 1>> /\ todo'[2] = <<low + 1, range[2]>>
      /\ \A k \in DOMAIN todo' : k > 2 => k - 2 \in DOMAIN todo /\ todo'[k] = todo[k - 2]
      /\ \A k \in DOMAIN todo : k + 2 \in DOMAIN todo' /\ todo'[k + 2] = todo[k]
  <2> DEFINE X == (1 .. n + 1) \X (0 .. n)
  <2>1. todo \in Seq(X) /\ <<range[1], low - 1>> \in X /\ <<low + 1, range[2]>> \in X
    BY <1>2, <1>5
  <2> HIDE DEF X
  <2>2. todo' = <<<<range[1], low - 1>>, <<low + 1, range[2]>>>> \o todo
    BY <1>1 DEF pair
  <2>3. /\ DOMAIN todo' = 1 .. Len(todo) + 2
        /\ todo'[1] = <<range[1], low - 1>> /\ todo'[2] = <<low + 1, range[2]>>
        /\ \A k \in DOMAIN todo' : k > 2 => k - 2 \in DOMAIN todo /\ todo'[k] = todo[k - 2]
    BY <2>1, <2>2, PushTwo
  <2>4. ASSUME NEW k \in DOMAIN todo PROVE k + 2 \in DOMAIN todo' /\ todo'[k + 2] = todo[k]
    <3>1. k + 2 \in DOMAIN todo' /\ k + 2 > 2 /\ (k + 2) - 2 = k
      BY <1>6, <2>3, SMTT(30)
    <3> QED  BY <2>3, <3>1
  <2> QED  BY <2>3, <2>4
<1>8. SortTypes'
  <2>1. todo' \in Seq((1 .. n + 1) \X (0 .. n))
    BY <1>6
  <2>2. probs' \in [Places -> Nat] /\ order' \in [Places -> Places] /\ Places' = Places
    BY <1>1, <1>2 DEF Places
  <2> QED  BY <1>1, <2>1, <2>2 DEF SortInv, SortTypes, n
<1>9. \A k \in DOMAIN todo : todo[k][1] \in Int /\ todo[k][2] \in Int
  <2>1. \A k \in DOMAIN todo : todo[k] \in (1 .. n + 1) \X (0 .. n)
    BY <1>2
  <2>2. \A r \in (1 .. n + 1) \X (0 .. n) : r[1] \in Int /\ r[2] \in Int
    <3>1. \A i \in 1 .. n + 1 : i \in Int
      BY <1>2
    <3>2. \A i \in 0 .. n : i \in Int
      BY <1>2
    <3> QED  BY <3>1, <3>2
  <2> QED  BY <2>1, <2>2
<1>10. Stacked'
  <2> SUFFICES ASSUME NEW k \in DOMAIN todo', NEW l \in DOMAIN todo', k < l
               PROVE  todo'[k][2] < todo'[l][1]
    BY <1>1 DEF Stacked
  <2>0. k \in Int /\ l \in Int /\ k >= 1
    BY <1>6, <1>7
  <2>1. /\ \A i, j \in DOMAIN todo : i < j => todo[i][2] < todo[j][1]
        /\ \A i \in DOMAIN todo : range[2] < todo[i][1]
    BY <1>1 DEF SortInv, Stacked
  <2>2. CASE k > 2
    <3>1. k - 2 \in DOMAIN todo /\ l - 2 \in DOMAIN todo /\ k - 2 < l - 2
      BY <1>7, <2>0, <2>2
    <3>2. todo'[k] = todo[k - 2] /\ todo'[l] = todo[l - 2]
      BY <1>7, <2>0, <2>2
    <3> QED  BY <2>1, <3>1, <3>2
  <2>3. CASE k = 1 /\ l = 2
    <3>1. todo'[k][2] = low - 1 /\ todo'[l][1] = low + 1
      BY <1>7, <2>3
    <3> QED  BY <1>2, <3>1
  <2>4. CASE k <= 2 /\ l > 2
    <3>1. l - 2 \in DOMAIN todo /\ todo'[l] = todo[l - 2] /\ range[2] < todo[l - 2][1]
      BY <1>7, <2>0, <2>1, <2>4
    <3>2. todo'[k][2] = low - 1 \/ todo'[k][2] = range[2]
      BY <1>7, <2>0, <2>4
    <3>3. todo[l - 2][1] \in Int
      BY <1>9, <3>1
    <3>4. low \in Int /\ range[2] \in Int /\ low - 1 < range[2]
      BY <1>2, <1>3
    <3> QED  BY <3>1, <3>2, <3>3, <3>4
  <2> QED  BY <2>0, <2>2, <2>3, <2>4
<1>11. OrderedBut(Scores, Ranges', n)
  <2> SUFFICES ASSUME NEW i \in 1 .. n, NEW j \in 1 .. n, i < j
               PROVE  Scores[i] >= Scores[j] \/ \E r \in Ranges' : r[1] <= i /\ j <= r[2]
    BY DEF OrderedBut
  <2>1. Ranges' = {todo'[k] : k \in DOMAIN todo'}
    BY <1>1 DEF Ranges
  <2>2. Ranges = R \cup {range}
    BY <1>1 DEF Ranges
  <2>3. Scores[i] >= Scores[j] \/ \E r \in R \cup {range} : r[1] <= i /\ j <= r[2]
    BY <2>2 DEF SortInv, OrderedBut, n
  <2>4. R \subseteq Ranges' /\ <<range[1], low - 1>> \in Ranges' /\ <<low + 1, range[2]>> \in Ranges'
    <3>1. 1 \in DOMAIN todo' /\ 2 \in DOMAIN todo'
      BY <1>6, <1>7
    <3> QED  BY <1>7, <2>1, <3>1
  <2> HIDE DEF R
  <2>5. CASE range[1] <= i /\ j < low
    <3> DEFINE r == <<range[1], low - 1>>
    <3>1. r[1] <= i /\ j <= r[2]
      BY <1>2, <2>5
    <3> QED  BY <2>4, <3>1
  <2>6. CASE low < i /\ j <= range[2]
    <3> DEFINE r == <<low + 1, range[2]>>
    <3>1. r[1] <= i /\ j <= r[2]
      BY <1>2, <2>6
    <3> QED  BY <2>4, <3>1
  <2>7. CASE range[1] <= i /\ i <= low /\ low <= j /\ j <= range[2]
    <3>1. \A x \in Places : /\ range[1] <= x /\ x < low => probs[x] >= key
                            /\ low < x /\ x <= range[2] => probs[x] <= key
      BY <1>1 DEF SortInv, Split
    <3>2. /\ Scores[i] = IF i = low THEN key ELSE probs[i]
          /\ Scores[j] = IF j = low THEN key ELSE probs[j]
      BY <1>1, <1>2, <1>4
    <3>3. probs[i] \in Nat /\ probs[j] \in Nat
      BY <1>2
    <3>4. Scores[i] >= key
      BY <1>2, <2>7, <3>1, <3>2, <3>3
    <3>5. key >= Scores[j]
      BY <1>2, <2>7, <3>1, <3>2, <3>3
    <3>6. key \in Int /\ Scores[i] \in Int /\ Scores[j] \in Int
      BY <1>2, <3>2, <3>3
    <3> QED  BY <3>4, <3>5, <3>6
  <2>8. CASE \E r \in R : r[1] <= i /\ j <= r[2]
    BY <2>4, <2>8
  <2>9. range[1] <= i /\ j <= range[2] =>
          \/ range[1] <= i /\ j < low
          \/ low < i /\ j <= range[2]
          \/ range[1] <= i /\ i <= low /\ low <= j /\ j <= range[2]
    BY <1>2
  <2> QED  BY <2>3, <2>5, <2>6, <2>7, <2>8, <2>9
<1>12. Split'
  BY <1>1 DEF Split
<1> QED  BY <1>1, <1>4, <1>8, <1>10, <1>11, <1>12 DEF SortInv, n

LEMMA PopSorts == ASSUME SortInv, Pop PROVE SortInv'
<1> DEFINE n == Len(cands)
           left == Head(todo)[1]
           right == Head(todo)[2]
<1>1. /\ step = "pop" /\ todo # <<>> /\ todo' = Tail(todo)
      /\ UNCHANGED <<cands, probs, order>>
  BY DEF Pop, Sorting
<1>2. /\ n \in Nat /\ Places = 1 .. n /\ probs \in [Places -> Nat] /\ order \in [Places -> Places]
      /\ todo \in Seq((1 .. n + 1) \X (0 .. n))
  BY <1>1, PlacesAre DEF SortInv, SortTypes, Places
<1>3. /\ left \in 1 .. n + 1 /\ right \in 0 .. n /\ Head(todo) = <<left, right>>
      /\ Head(todo) = todo[1] /\ 1 \in DOMAIN todo
      /\ todo' \in Seq((1 .. n + 1) \X (0 .. n))
      /\ \A k \in DOMAIN todo' : k \in Nat /\ k + 1 \in DOMAIN todo /\ todo'[k] = todo[k + 1]
      /\ \A k \in DOMAIN todo : k # 1 => k - 1 \in DOMAIN todo' /\ todo[k] = todo'[k - 1]
  <2>0. Head(todo) \in (1 .. n + 1) \X (0 .. n) /\ Head(todo) = todo[1] /\ 1 \in DOMAIN todo
    BY <1>1, <1>2
  <2>1. left \in 1 .. n + 1 /\ right \in 0 .. n /\ Head(todo) = <<left, right>>
    BY <2>0
  <2>2. todo' \in Seq((1 .. n + 1) \X (0 .. n))
    BY <1>1, <1>2, SMTT(30)
  <2>3. \A k \in DOMAIN todo' : k \in Nat /\ k + 1 \in DOMAIN todo /\ todo'[k] = todo[k + 1]
    BY <1>1, <1>2, SMTT(30)
  <2>4. \A k \in DOMAIN todo : k # 1 => k - 1 \in DOMAIN todo' /\ todo[k] = todo'[k - 1]
    BY <1>1, <1>2
  <2> QED  BY <2>0, <2>1, <2>2, <2>3, <2>4
<1> HIDE DEF n, left, right
<1>4. \A k, l \in DOMAIN todo' : k < l => todo'[k][2] < todo'[l][1]
  <2> SUFFICES ASSUME NEW k \in DOMAIN todo', NEW l \in DOMAIN todo', k < l
               PROVE  todo'[k][2] < todo'[l][1]
    OBVIOUS
  <2>1. k + 1 < l + 1 /\ k + 1 \in DOMAIN todo /\ l + 1 \in DOMAIN todo
    BY <1>3
  <2> QED  BY <1>3, <2>1 DEF SortInv, Stacked
<1>5. \A k \in DOMAIN todo' : right < todo'[k][1]
  <2> SUFFICES ASSUME NEW k \in DOMAIN todo' PROVE right < todo'[k][1]
    OBVIOUS
  <2>1. 1 < k + 1 /\ k + 1 \in DOMAIN todo /\ todo'[k] = todo[k + 1]
    <3>1. todo' \in Seq((1 .. n + 1) \X (0 .. n))
      BY <1>3
    <3>2. k \in Nat /\ k >= 1
      BY <3>1
    <3> QED  BY <1>3, <3>2
  <2>2. todo[1][2] < todo[k + 1][1]
    BY <1>3, <2>1 DEF SortInv, Stacked
  <2> QED  BY <1>3, <2>1, <2>2 DEF right
<1>6. /\ {todo[k] : k \in DOMAIN todo} \subseteq {todo'[k] : k \in DOMAIN todo'} \cup {Head(todo)}
      /\ Head(todo) \in {todo[k] : k \in DOMAIN todo}
  BY <1>3
<1>7. Ranges = {todo[k] : k \in DOMAIN todo}
  BY <1>1 DEF Ranges
<1>8. CASE left < right
  <2>1. /\ range' = <<left, right>> /\ low' = left /\ high' = right /\ step' = "right"
        /\ key' = probs[left] /\ keyIndex' = order[left]
    BY <1>8 DEF Pop, left, right
  <2>2. left \in 1 .. n /\ right \in 1 .. n
    BY <1>2, <1>3, <1>8
  <2>3. SortTypes'
    <3>1. Places' = Places
      BY <1>1 DEF Places
    <3>2. /\ range' \in Places \X Places /\ low' \in Places /\ high' \in Places
          /\ range'[1] <= low' /\ low' <= high' /\ high' <= range'[2]
          /\ key' \in Nat /\ keyIndex' \in Places
      <4>1. left \in Places /\ right \in Places /\ probs[left] \in Nat /\ order[left] \in Places
        BY <1>2, <2>2
      <4>2. left <= left /\ left <= right /\ right <= right
        BY <1>2, <1>8, <2>2
      <4> QED  BY <2>1, <4>1, <4>2
    <3> QED  BY <1>1, <1>3, <2>1, <3>1, <3>2 DEF SortInv, SortTypes, n
  <2>4. Stacked'
    BY <1>4, <1>5, <2>1 DEF Stacked
  <2>5. Split'
    <3> SUFFICES ASSUME NEW i \in Places
                 PROVE  /\ range'[1] <= i /\ i < low' => probs'[i] >= key'
                        /\ high' < i /\ i <= range'[2] => probs'[i] <= key'
      BY <1>1 DEF Split, Places
    <3>1. ~(left <= i /\ i < left) /\ ~(right < i /\ i <= right)
      BY <1>2, <2>2
    <3> QED  BY <2>1, <3>1
  <2>6. Scores' = Scores /\ Indices' = Indices
    <3>1. [probs EXCEPT ![left] = probs[left]] = probs /\ [order EXCEPT ![left] = order[left]] = order
      BY <1>2
    <3> QED  BY <1>1, <2>1, <3>1 DEF Scores, Indices, Hole
  <2>7. OrderedBut(Scores, Ranges', n)
    <3>1. Ranges \subseteq Ranges'
      <4>1. Ranges' = {todo'[k] : k \in DOMAIN todo'} \cup {<<left, right>>}
        BY <2>1 DEF Ranges
      <4> QED  BY <1>3, <1>6, <1>7, <4>1
    <3>2. OrderedBut(Scores, Ranges, n)
      BY DEF SortInv, n
    <3> QED  BY <3>1, <3>2 DEF OrderedBut
  <2> QED  BY <1>1, <2>3, <2>4, <2>5, <2>6, <2>7 DEF SortInv, n
<1>9. CASE ~(left < right)
  <2>1. UNCHANGED <<step, range, low, high, key, keyIndex>>
    BY <1>9 DEF Pop, left, right
  <2>2. SortTypes'
    BY <1>1, <1>3, <2>1 DEF SortInv, SortTypes, n, Places
  <2>3. Stacked' /\ Split'
    BY <1>1, <1>4, <2>1 DEF Stacked, Split
  <2>4. Scores' = Scores /\ Indices' = Indices
    BY <1>1, <2>1 DEF Scores, Indices
  <2>5. OrderedBut(Scores, Ranges', n)
    <3> SUFFICES ASSUME NEW i \in 1 .. n, NEW j \in 1 .. n, i < j
                 PROVE  Scores[i] >= Scores[j] \/ \E r \in Ranges' : r[1] <= i /\ j <= r[2]
      BY DEF OrderedBut
    <3>1. Scores[i] >= Scores[j] \/ \E r \in Ranges : r[1] <= i /\ j <= r[2]
      BY DEF SortInv, OrderedBut, n
    <3>2. Ranges' = {todo'[k] : k \in DOMAIN todo'}
      BY <1>1, <2>1 DEF Ranges
    <3>3. ~(left <= i /\ j <= right)
      BY <1>2, <1>3, <1>9
    <3>4. Head(todo)[1] = left /\ Head(todo)[2] = right
      BY DEF left, right
    <3> QED  BY <1>6, <1>7, <3>1, <3>2, <3>3, <3>4
  <2> QED  BY <1>1, <2>2, <2>3, <2>4, <2>5 DEF SortInv, n
<1> QED  BY <1>8, <1>9

-----------------------------------------------------------------------------
(* What is collected, and that the sort starts with it.                    *)

Tensors == cells \in [1 .. NCells -> CellValues]

LEMMA SeqElements ==
  ASSUME NEW X, NEW s \in Seq(X)
  PROVE  DOMAIN s = 1 .. Len(s) /\ Len(s) \in Nat /\ \A k \in DOMAIN s : s[k] \in X
OBVIOUS

LEMMA CollectedTypes ==
  ASSUME Tensors, NEW good
  PROVE  /\ Collected(good) \in Seq(CellValues)
         /\ Len(cells) = NCells /\ DOMAIN cells = 1 .. NCells
<1> DEFINE found == InOrder(good, NCells)
<1>1. Len(cells) = NCells /\ DOMAIN cells = 1 .. NCells /\ NCells \in Nat
  BY SizeAssumption DEF Tensors
<1>2. found \in Seq(1 .. NCells)
  <2>1. Selected(good, NCells, found)
    BY <1>1, SelectsAll
  <2> QED  BY <2>1 DEF Selected
<1> HIDE DEF found
<1>3. Collected(good) = [k \in DOMAIN found |-> cells[found[k]]]
  BY <1>1 DEF Collected, found
<1>4. DOMAIN found = 1 .. Len(found) /\ Len(found) \in Nat
  BY <1>2
<1>5. \A k \in DOMAIN found : cells[found[k]] \in CellValues
  <2>1. \A k \in DOMAIN found : found[k] \in 1 .. NCells
    BY <1>2, SeqElements
  <2>2. \A i \in 1 .. NCells : cells[i] \in CellValues
    BY DEF Tensors
  <2> QED  BY <2>1, <2>2
<1>6. Collected(good) \in [1 .. Len(found) -> CellValues]
  BY <1>3, <1>4, <1>5
<1>7. \A m \in Nat : \A f \in [1 .. m -> CellValues] : f \in Seq(CellValues)
  OBVIOUS
<1> QED  BY <1>1, <1>4, <1>6, <1>7

LEMMA CollectSorts ==
  ASSUME Tensors, step = "pop", Collect, cands' # <<>>
  PROVE  SortInv'
<1> DEFINE n == Len(cands')
<1>1. /\ cands' \in Seq(CellValues) /\ cands' # <<>>
      /\ probs' = [i \in DOMAIN cands' |-> Score(cands'[i])]
      /\ order' = [i \in DOMAIN cands' |-> i]
      /\ todo' = <<<<1, n>>>> /\ step' = "pop"
  BY CollectedTypes DEF Collect
<1>2. n \in Nat \ {0} /\ DOMAIN cands' = 1 .. n /\ \A i \in 1 .. n : cands'[i] \in CellValues
  BY <1>1
<1>3. Places' = 1 .. n
  BY DEF Places
<1> HIDE DEF n
<1>4. \A i \in 1 .. n : probs'[i] = Score(cands'[i]) /\ order'[i] = i /\ probs'[i] \in Nat
  <2>1. \A i \in 1 .. n : probs'[i] = Score(cands'[i]) /\ order'[i] = i
    BY <1>1, <1>2
  <2>2. ASSUME NEW i \in 1 .. n PROVE Score(cands'[i]) \in Nat
    <3> DEFINE v == cands'[i]
    <3>1. v \in CellValues
      BY <1>2
    <3> HIDE DEF v
    <3>2. Score(v) \in Nat
      BY <3>1, ScoreTypes
    <3> QED  BY <3>2 DEF v
  <2> QED  BY <2>1, <2>2
<1>5. SortTypes'
  <2>1. probs' \in [1 .. n -> Nat] /\ order' \in [1 .. n -> 1 .. n]
    BY <1>1, <1>2, <1>4
  <2>2. todo' \in Seq((1 .. n + 1) \X (0 .. n))
    BY <1>1, <1>2, SMTT(30)
  <2> QED  BY <1>1, <1>3, <2>1, <2>2 DEF SortTypes, n
<1>6. Stacked' /\ Split'
  <2>1. DOMAIN todo' = {1}
    BY <1>1
  <2>2. \A k, l \in {1} : ~(k < l)
    OBVIOUS
  <2> QED  BY <1>1, <2>1, <2>2 DEF Stacked, Split
<1>7. Scores' = probs' /\ Indices' = order'
  BY <1>1 DEF Scores, Indices
<1>8. Arranged(probs', order', cands', n)
  BY <1>4 DEF Arranged
<1>9. <<1, n>> \in Ranges'
  BY <1>1 DEF Ranges
<1>10. OrderedBut(probs', Ranges', n)
  <2> SUFFICES ASSUME NEW i \in 1 .. n, NEW j \in 1 .. n
               PROVE  \E r \in Ranges' : r[1] <= i /\ j <= r[2]
    BY DEF OrderedBut
  <2>1. <<1, n>>[1] <= i /\ j <= <<1, n>>[2]
    BY <1>2
  <2> QED  BY <1>9, <2>1
<1> QED  BY <1>5, <1>6, <1>7, <1>8, <1>10 DEF SortInv, n

(* With no range left the arrays are sorted.                               *)
LEMMA SortedAtEnd ==
  ASSUME SortInv, SortDone
  PROVE  /\ \A i, j \in Places : i < j => probs[i] >= probs[j]
         /\ Arranged(probs, order, cands, Len(cands))
<1>1. step = "pop" /\ todo = <<>>
  BY DEF SortDone, Sorting
<1>2. Scores = probs /\ Indices = order
  BY <1>1 DEF Scores, Indices
<1>3. Ranges = {}
  BY <1>1 DEF Ranges
<1> QED  BY <1>2, <1>3 DEF SortInv, OrderedBut, Places

-----------------------------------------------------------------------------
(* The suppression.                                                        *)

BoxValues == Int \X Int \X Nat \X Nat

LEMMA BoxTypes ==
  ASSUME NEW v \in CellValues
  PROVE  v.box[1] \in Int /\ v.box[2] \in Int /\ v.box[3] \in Nat /\ v.box[4] \in Nat
<1>1. v.box \in Int \X Int \X Nat \X Nat
  BY CellAssumption
<1> QED  BY <1>1

LEMMA SideSymmetric ==
  ASSUME NEW p \in Int, NEW l \in Int, NEW q \in Int, NEW m \in Int
  PROVE  Side(p, l, q, m) = Side(q, m, p, l) /\ Side(p, l, q, m) \in Int
BY DEF Side, Least, Largest

LEMMA OverlapSymmetric ==
  ASSUME NEW v \in CellValues, NEW w \in CellValues, Overlaps(v.box, w.box)
  PROVE  Overlaps(w.box, v.box)
<1> DEFINE a == v.box
           b == w.box
           s == Side(a[1], a[3], b[1], b[3])
           t == Side(a[2], a[4], b[2], b[4])
           x == (a[3] + 1) * (a[4] + 1)
           y == (b[3] + 1) * (b[4] + 1)
<1>1. /\ a[1] \in Int /\ a[2] \in Int /\ a[3] \in Int /\ a[4] \in Int
      /\ b[1] \in Int /\ b[2] \in Int /\ b[3] \in Int /\ b[4] \in Int
  BY BoxTypes
<1> HIDE DEF a, b
<1>2. s = Side(b[1], b[3], a[1], a[3]) /\ t = Side(b[2], b[4], a[2], a[4])
      /\ s \in Int /\ t \in Int
  <2>1. a[3] \in Int /\ a[4] \in Int /\ b[3] \in Int /\ b[4] \in Int
    BY <1>1
  <2>2. s = Side(b[1], b[3], a[1], a[3]) /\ s \in Int
    BY <1>1, <2>1, SideSymmetric
  <2>3. t = Side(b[2], b[4], a[2], a[4]) /\ t \in Int
    BY <1>1, <2>1, SideSymmetric
  <2> QED  BY <2>2, <2>3
<1> DEFINE area == s * t
<1>3. x \in Int /\ y \in Int /\ area \in Int
  BY <1>1, <1>2
<1>4. Overlaps(a, b) <=> x + (y - area) > 0 /\ 20 * area > 9 * (x + (y - area))
  BY Zenon DEF Overlaps
<1>5. Overlaps(b, a) <=> y + (x - area) > 0 /\ 20 * area > 9 * (y + (x - area))
  BY <1>2, Zenon DEF Overlaps
<1> HIDE DEF s, t, x, y, area
<1>6. Overlaps(a, b) => Overlaps(b, a)
  <2>1. x + (y - area) = y + (x - area)
    BY <1>3
  <2> QED  BY <1>3, <1>4, <1>5, <2>1
<1> QED  BY <1>6 DEF a, b

Passing(o, n, c, g) ==
  g = [i \in 0 .. n |-> IF i = 0 THEN o ELSE SuppressFrom(g[i - 1], i, c)]

LEMMA PassingExists ==
  ASSUME NEW o, NEW n \in Nat, NEW c
  PROVE  \E g : Passing(o, n, c, g)
<1> DEFINE T == {m \in Nat : \E g : Passing(o, m, c, g)}
<1>1. 0 \in T
  <2>1. Passing(o, 0, c, [i \in 0 .. 0 |-> o])
    BY DEF Passing
  <2> QED  BY <2>1
<1>2. ASSUME NEW m \in Nat, m \in T PROVE m + 1 \in T
  <2>1. PICK g : Passing(o, m, c, g)
    BY <1>2
  <2> DEFINE h == [i \in 0 .. m + 1 |->
                     IF i <= m THEN g[i] ELSE SuppressFrom(g[m], m + 1, c)]
  <2>2. Passing(o, m + 1, c, h)
    <3> SUFFICES ASSUME NEW i \in 0 .. m + 1
                 PROVE  h[i] = IF i = 0 THEN o ELSE SuppressFrom(h[i - 1], i, c)
      BY DEF Passing
    <3>1. CASE i = m + 1
      <4>1. h[i] = SuppressFrom(g[m], m + 1, c) /\ h[i - 1] = g[m] /\ i # 0
        BY <3>1
      <4> QED  BY <3>1, <4>1
    <3>2. CASE i \in 0 .. m
      <4>1. g[i] = IF i = 0 THEN o ELSE SuppressFrom(g[i - 1], i, c)
        BY <2>1, <3>2, Zenon DEF Passing
      <4>2. h[i] = g[i] /\ (i # 0 => h[i - 1] = g[i - 1])
        BY <3>2
      <4> HIDE DEF h
      <4> QED  BY <4>1, <4>2
    <3> QED  BY <3>1, <3>2
  <2> QED  BY <2>2
<1> HIDE DEF T
<1>3. Nat \subseteq T
  BY <1>1, <1>2, Induction
<1> QED  BY <1>3 DEF T

Above(o, p, i, j) == i < j /\ Overlaps(cands[o[i]].box, cands[p[j]].box)

(* A pass for class c over the first k places made p of o.                 *)
Suppressed(o, p, c, k) ==
  /\ p \in [Places -> Places \cup {Dropped}]
  /\ \A j \in Places : p[j] = o[j] \/ p[j] = Dropped
  /\ \A j \in Places : o[j] # Dropped /\ p[j] = Dropped =>
       \E i \in Places : i <= k /\ p[i] # Dropped /\ Above(p, o, i, j)
  /\ \A i, j \in Places :
       i <= k /\ p[i] # Dropped /\ p[j] # Dropped /\ MaxClass(cands[i]) = c => ~Above(p, p, i, j)

LEMMA SuppressStep ==
  ASSUME Len(cands) \in Nat, NEW o, NEW p, NEW c, NEW k \in Nat, k + 1 \in Places, Suppressed(o, p, c, k)
  PROVE  Suppressed(o, SuppressFrom(p, k + 1, c), c, k + 1)
<1> DEFINE q == SuppressFrom(p, k + 1, c)
           s == k + 1
<1>0. \A i \in Places : i \in Int /\ (i <= s <=> i <= k \/ i = s) /\ (i <= k => i < s)
  BY DEF Places
<1>1. /\ p \in [Places -> Places \cup {Dropped}]
      /\ \A j \in Places : p[j] = o[j] \/ p[j] = Dropped
      /\ \A j \in Places : o[j] # Dropped /\ p[j] = Dropped =>
           \E i \in Places : i <= k /\ p[i] # Dropped /\ Above(p, o, i, j)
      /\ \A i, j \in Places :
           i <= k /\ p[i] # Dropped /\ p[j] # Dropped /\ MaxClass(cands[i]) = c => ~Above(p, p, i, j)
  BY DEF Suppressed
<1>2. CASE p[s] = Dropped \/ MaxClass(cands[s]) # c
  <2>1. q = p
    BY <1>2 DEF SuppressFrom
  <2>2. Suppressed(o, p, c, s)
    BY <1>0, <1>1, <1>2 DEF Suppressed
  <2> QED  BY <2>1, <2>2
<1>3. CASE p[s] # Dropped /\ MaxClass(cands[s]) = c
  <2> HIDE DEF s
  <2>1. q = [j \in Places |-> IF j > s /\ p[j] # Dropped /\ Overlaps(cands[p[s]].box, cands[p[j]].box)
                              THEN Dropped ELSE p[j]]
    BY <1>1, <1>3 DEF SuppressFrom, s
  <2>2. \A j \in Places : q[j] = IF j > s /\ p[j] # Dropped /\ Overlaps(cands[p[s]].box, cands[p[j]].box)
                                 THEN Dropped ELSE p[j]
    BY <2>1, Zenon
  <2> HIDE DEF q
  <2>3. \A i \in Places : i <= s => q[i] = p[i]
    <3>1. \A i \in Places : i <= s => ~(i > s)
      BY DEF s, Places
    <3> QED  BY <2>2, <3>1
  <2>4. s \in Places
    BY DEF s
  <2>5. q \in [Places -> Places \cup {Dropped}] /\ \A j \in Places : q[j] = o[j] \/ q[j] = Dropped
    <3>1. \A j \in Places : q[j] \in Places \cup {Dropped} /\ (q[j] = o[j] \/ q[j] = Dropped)
      BY <1>1, <2>2
    <3> QED  BY <2>1, <3>1
  <2>6. ASSUME NEW j \in Places, o[j] # Dropped, q[j] = Dropped
        PROVE  \E i \in Places : i <= s /\ q[i] # Dropped /\ Above(q, o, i, j)
    <3>1. CASE p[j] = Dropped
      <4>1. PICK i \in Places : i <= k /\ p[i] # Dropped /\ Above(p, o, i, j)
        BY <1>1, <2>6, <3>1
      <4>2. i <= s /\ q[i] = p[i]
        BY <1>0, <2>3, <4>1 DEF s
      <4> QED  BY <4>1, <4>2 DEF Above
    <3>2. CASE p[j] # Dropped
      <4>1. j > s /\ Overlaps(cands[p[s]].box, cands[p[j]].box) /\ p[j] = o[j]
        BY <1>1, <2>2, <2>6, <3>2
      <4>2. s <= s /\ s < j /\ q[s] = p[s]
        BY <1>0, <2>3, <2>4, <4>1
      <4> QED  BY <1>3, <2>4, <4>1, <4>2 DEF Above
    <3> QED  BY <3>1, <3>2
  <2>7. ASSUME NEW i \in Places, NEW j \in Places,
               i <= s, q[i] # Dropped, q[j] # Dropped, MaxClass(cands[i]) = c, Above(q, q, i, j)
        PROVE  FALSE
    <3>1. q[i] = p[i] /\ q[j] = p[j] /\ p[j] # Dropped
      BY <2>2, <2>7
    <3>2. Above(p, p, i, j)
      BY <2>7, <3>1 DEF Above
    <3>3. CASE i <= k
      BY <1>1, <2>7, <3>1, <3>2, <3>3
    <3>4. CASE i = s
      <4>1. j > s /\ Overlaps(cands[p[s]].box, cands[p[j]].box)
        BY <1>0, <3>2, <3>4 DEF Above
      <4> QED  BY <2>2, <2>7, <3>1, <4>1
    <3> QED  BY <1>0, <2>7, <3>3, <3>4 DEF s
  <2> QED  BY <2>5, <2>6, <2>7 DEF Suppressed, q, s
<1> QED  BY <1>2, <1>3

LEMMA NmsSuppresses ==
  ASSUME Len(cands) \in Nat, order \in [Places -> Places \cup {Dropped}], NEW c
  PROVE  Suppressed(order, Nms(c), c, Len(cands))
<1> DEFINE n == Len(cands)
<1>1. Len(order) = n /\ Places = 1 .. n
  BY DEF Places
<1>2. \E g : g = [i \in 0 .. n |-> IF i = 0 THEN order ELSE SuppressFrom(g[i - 1], i, c)]
  <2>1. \E g : Passing(order, n, c, g)
    BY PassingExists
  <2> QED  BY <2>1, Zenon DEF Passing
<1>3. PICK g : Passing(order, n, c, g) /\ Nms(c) = g[n]
  BY <1>1, <1>2, Zenon DEF Nms, Passing
<1>4. g[0] = order /\ \A i \in 1 .. n : g[i] = SuppressFrom(g[i - 1], i, c)
  <2>1. \A i \in 0 .. n : g[i] = IF i = 0 THEN order ELSE SuppressFrom(g[i - 1], i, c)
    BY <1>3, Zenon DEF Passing
  <2>2. 0 \in 0 .. n /\ \A i \in 1 .. n : i \in 0 .. n /\ i # 0
    OBVIOUS
  <2> QED  BY <2>1, <2>2, Zenon
<1> DEFINE T == {k \in Nat : k <= n => Suppressed(order, g[k], c, k)}
<1>5. 0 \in T
  <2>1. Suppressed(order, order, c, 0)
    BY DEF Suppressed, Places
  <2> QED  BY <1>4, <2>1
<1>6. ASSUME NEW k \in Nat, k \in T PROVE k + 1 \in T
  <2> SUFFICES ASSUME k + 1 <= n PROVE Suppressed(order, g[k + 1], c, k + 1)
    OBVIOUS
  <2>1. k + 1 \in Places /\ Suppressed(order, g[k], c, k)
    BY <1>1, <1>6
  <2>2. g[k + 1] = SuppressFrom(g[k], k + 1, c)
    BY <1>1, <1>4, <2>1
  <2> QED  BY <2>1, <2>2, SuppressStep
<1> HIDE DEF T
<1>7. Nat \subseteq T
  BY <1>5, <1>6, Induction
<1> QED  BY <1>3, <1>7 DEF T

-----------------------------------------------------------------------------
(* Between the sort and the end of the suppression.                        *)

Alive(i) == order[i] # Dropped

Ranking ==
  /\ cands \in Seq(CellValues)
  /\ probs \in [Places -> Nat] /\ order \in [Places -> Places \cup {Dropped}]
  /\ \A i, j \in Places : i < j => probs[i] >= probs[j]
  /\ \A i \in Places : Alive(i) => probs[i] = Score(cands[order[i]])
  /\ \A i, j \in Places : Alive(i) /\ order[i] = order[j] => i = j

(* Why m is no longer among the survivors.                                 *)
Outdone(m) ==
  \E i \in Places : /\ i # m /\ Overlaps(cands[i].box, cands[m].box)
                    /\ Score(cands[i]) >= Score(cands[m])
                    /\ Cardinality(ClassSet) = 1 => i \in Survivors

(* Every candidate keeps a place with its score, also when it is dropped.  *)
Accounted ==
  /\ \A m \in Places : \E j \in Places :
       /\ probs[j] = Score(cands[m])
       /\ order[j] = m \/ (~Alive(j) /\ Outdone(m))
  /\ 1 \in Places => Alive(1)

Swept ==
  /\ classes \subseteq ClassSet
  /\ classes = ClassSet => \A i \in Places : Alive(i)
  /\ \A i, j \in Places :
       /\ i < j /\ Alive(i) /\ Alive(j) /\ MaxClass(cands[i]) \notin classes
       => ~Overlaps(cands[order[i]].box, cands[order[j]].box)

NmsInv == Ranking /\ Accounted /\ Swept

LEMMA RankingDomains ==
  ASSUME Ranking
  PROVE  /\ Len(cands) \in Nat /\ DOMAIN cands = Places /\ Places = 1 .. Len(cands)
         /\ DOMAIN order = Places /\ DOMAIN probs = Places /\ Len(order) = Len(cands)
         /\ \A i \in Places : i \in Nat /\ i >= 1
         /\ \A m \in Places : cands[m] \in CellValues
<1>1. Len(cands) \in Nat /\ DOMAIN cands = Places /\ Places = 1 .. Len(cands)
      /\ \A m \in Places : cands[m] \in CellValues
  BY DEF Ranking, Places
<1>2. DOMAIN order = Places /\ DOMAIN probs = Places
  BY DEF Ranking
<1>3. Len(order) = Len(cands)
  BY <1>1, <1>2
<1>4. \A i \in Places : i \in Nat /\ i >= 1
  BY <1>1
<1> QED  BY <1>1, <1>2, <1>3, <1>4

LEMMA SurvivorsAre ==
  ASSUME Ranking
  PROVE  /\ \A m : m \in Survivors <=> \E i \in Places : order[i] = m /\ Alive(i)
         /\ Survivors \subseteq Places
<1>1. DOMAIN order = Places
  BY RankingDomains
<1>2. \A m : m \in Survivors <=> \E i \in Places : order[i] = m /\ Alive(i)
  BY <1>1 DEF Survivors, Alive
<1> QED  BY <1>2 DEF Ranking, Alive

LEMMA ClassesFinite ==
  ASSUME Ranking
  PROVE  IsFiniteSet(ClassSet)
<1>1. DOMAIN cands = Places /\ Places = 1 .. Len(cands) /\ Len(cands) \in Nat
  BY RankingDomains
<1>2. IsFiniteSet(Places)
  <2>1. 1 \in Int /\ Len(cands) \in Int
    BY <1>1
  <2> QED  BY <1>1, <2>1, FS_Interval
<1> DEFINE f == [n \in Places |-> MaxClass(cands[n])]
<1>3. f \in Surjection(Places, ClassSet)
  BY <1>1 DEF Surjection, ClassSet
<1> QED  BY <1>2, <1>3, FS_Surjection

LEMMA SortDoneRanks == ASSUME SortInv, SortDone PROVE NmsInv'
<1>1. /\ classes' = ClassSet /\ phase' = "nms" /\ UNCHANGED <<cands, probs, order>>
      /\ step = "pop"
  BY DEF SortDone, Sorting
<1>2. /\ \A i, j \in Places : i < j => probs[i] >= probs[j]
      /\ Arranged(probs, order, cands, Len(cands))
  BY SortedAtEnd
<1>3. /\ cands \in Seq(CellValues) /\ probs \in [Places -> Nat] /\ order \in [Places -> Places]
      /\ DOMAIN cands = Places /\ Places = 1 .. Len(cands) /\ Len(cands) \in Nat
  BY PlacesAre DEF SortInv, SortTypes, Places
<1>4. \A i \in Places : order[i] \in Places /\ order[i] # Dropped
  BY <1>3 DEF Dropped
<1>5. Places' = Places /\ ClassSet' = ClassSet /\ \A i \in Places : Alive(i)' /\ order'[i] = order[i]
  BY <1>1, <1>4 DEF Places, ClassSet, Alive
<1>6. Ranking'
  <2>1. order' \in [Places -> Places \cup {Dropped}]
    BY <1>1, <1>3
  <2>2. \A i \in Places : probs[i] = Score(cands[order[i]])
    BY <1>2, <1>3 DEF Arranged
  <2>3. \A i, j \in Places : order[i] = order[j] => i = j
    BY <1>2, <1>3 DEF Arranged
  <2> QED  BY <1>1, <1>2, <1>3, <1>5, <2>1, <2>2, <2>3 DEF Ranking
<1>7. Accounted'
  <2>1. ASSUME NEW m \in Places
        PROVE  \E j \in Places : /\ probs'[j] = Score(cands'[m])
                                 /\ order'[j] = m \/ (~Alive(j)' /\ Outdone(m)')
    <3>1. PICK j \in Places : order[j] = m
      BY <1>2, <1>3 DEF Arranged
    <3>2. probs[j] = Score(cands[order[j]])
      BY <1>2, <1>3 DEF Arranged
    <3>3. probs'[j] = Score(cands'[m]) /\ order'[j] = m
      BY <1>1, <3>1, <3>2
    <3> QED  BY <3>3, Zenon
  <2>2. 1 \in Places => Alive(1)'
    BY <1>5
  <2> QED  BY <1>5, <2>1, <2>2 DEF Accounted
<1>8. Swept'
  <2>1. \A i \in Places : MaxClass(cands[i]) \in ClassSet
    BY <1>3 DEF ClassSet
  <2> QED  BY <1>1, <1>5, <2>1 DEF Swept
<1> QED  BY <1>6, <1>7, <1>8 DEF NmsInv

LEMMA SuppressKeeps ==
  ASSUME NmsInv, Suppress
  PROVE  NmsInv'
<1> DEFINE c == CHOOSE k \in classes : \A k2 \in classes : k <= k2
<1>0. /\ Ranking /\ Accounted /\ Swept
      /\ Len(cands) \in Nat /\ DOMAIN cands = Places /\ Places = 1 .. Len(cands)
      /\ \A i \in Places : i \in Nat /\ i >= 1
      /\ \A m \in Places : cands[m] \in CellValues
  BY RankingDomains DEF NmsInv
<1>1. classes # {} /\ order' = Nms(c) /\ classes' = classes \ {c} /\ UNCHANGED <<cands, probs>>
  BY DEF Suppress
<1>2. c \in classes
  <2>1. \A k \in ClassSet : k \in Nat
    <3> SUFFICES ASSUME NEW m \in Places PROVE MaxClass(cands[m]) \in Nat
      BY <1>0 DEF ClassSet
    <3> DEFINE v == cands[m]
    <3>1. v \in CellValues
      BY <1>0
    <3> HIDE DEF v
    <3>2. MaxClass(v) \in DOMAIN v.probs /\ DOMAIN v.probs = 1 .. Len(v.probs)
      BY <3>1, LargestClass, ValueTypes
    <3>3. MaxClass(v) \in Nat
      BY <3>1, <3>2, ValueTypes
    <3> QED  BY <3>3 DEF v
  <2>2. classes \in SUBSET Nat /\ classes # {}
    BY <1>0, <1>1, <2>1 DEF Swept
  <2>3. \E k \in classes : \A k2 \in classes : k <= k2
    BY <2>2, LeastNumber
  <2> QED  BY <2>3
<1> HIDE DEF c
<1>3. Suppressed(order, order', c, Len(cands))
  BY <1>0, <1>1, NmsSuppresses DEF Ranking
<1>4. /\ Places' = Places /\ ClassSet' = ClassSet
      /\ order' \in [Places -> Places \cup {Dropped}]
      /\ \A j \in Places : order'[j] = order[j] \/ order'[j] = Dropped
      /\ \A j \in Places : Alive(j) /\ ~Alive(j)' =>
           \E i \in Places : Alive(i)' /\ i < j /\ Overlaps(cands[order'[i]].box, cands[order[j]].box)
      /\ \A i, j \in Places : Alive(i)' /\ Alive(j)' /\ MaxClass(cands[i]) = c /\ i < j =>
           ~Overlaps(cands[order'[i]].box, cands[order'[j]].box)
  <2>1. Places' = Places /\ ClassSet' = ClassSet
    BY <1>1 DEF Places, ClassSet
  <2>2. \A i \in Places : i <= Len(cands)
    BY <1>0
  <2> QED  BY <1>3, <2>1, <2>2 DEF Suppressed, Alive, Above
<1>5. \A i \in Places : Alive(i)' => Alive(i) /\ order'[i] = order[i]
  BY <1>4 DEF Alive
<1>6. Ranking'
  <2>1. \A i \in Places : Alive(i)' => probs'[i] = Score(cands'[order'[i]])
    BY <1>0, <1>1, <1>5 DEF Ranking
  <2>2. ASSUME NEW i \in Places, NEW j \in Places, Alive(i)', order'[i] = order'[j] PROVE i = j
    <3>1. Alive(j)'
      BY <2>2 DEF Alive
    <3> QED  BY <1>0, <1>5, <2>2, <3>1 DEF Ranking
  <2> QED  BY <1>0, <1>1, <1>4, <2>1, <2>2 DEF Ranking
<1>7. Cardinality(ClassSet) = 1 => classes = ClassSet
  <2> SUFFICES ASSUME Cardinality(ClassSet) = 1 PROVE classes = ClassSet
    OBVIOUS
  <2>1. IsFiniteSet(ClassSet)
    BY <1>0, ClassesFinite
  <2>2. PICK k : ClassSet = {k}
    BY <2>1, FS_Singleton
  <2> QED  BY <1>0, <1>1, <2>2 DEF Swept
<1>8. Accounted'
  <2>1. ASSUME NEW m \in Places
        PROVE  \E j \in Places : /\ probs'[j] = Score(cands'[m])
                                 /\ order'[j] = m \/ (~Alive(j)' /\ Outdone(m)')
    <3>1. PICK j \in Places : probs[j] = Score(cands[m]) /\ (order[j] = m \/ (~Alive(j) /\ Outdone(m)))
      BY <1>0 DEF Accounted
    <3>2. CASE order'[j] = m
      <4>1. probs'[j] = Score(cands'[m])
        BY <1>1, <3>1
      <4> QED  BY <3>2, <4>1, Zenon
    <3>3. CASE order[j] = m /\ order'[j] # m
      <4>1. ~Alive(j)' /\ Alive(j)
        <5>1. m # Dropped
          BY <1>0 DEF Dropped
        <5> QED  BY <1>4, <3>3, <5>1 DEF Alive
      <4>2. PICK i \in Places : Alive(i)' /\ i < j /\ Overlaps(cands[order'[i]].box, cands[order[j]].box)
        BY <1>4, <4>1
      <4>3. Alive(i) /\ order'[i] = order[i] /\ order[i] \in Places
        BY <1>0, <1>5, <4>2 DEF Ranking, Alive
      <4>4. order[i] # m
        BY <1>0, <3>3, <4>2, <4>3 DEF Ranking
      <4>5. Score(cands[order[i]]) >= Score(cands[m])
        BY <1>0, <3>1, <4>2, <4>3 DEF Ranking
      <4>6. order[i] \in Survivors'
        <5>1. i \in DOMAIN order' /\ order'[i] # Dropped
          BY <1>4, <4>2 DEF Alive
        <5> QED  BY <4>3, <5>1 DEF Survivors
      <4>7. Outdone(m)'
        BY <1>1, <1>4, <3>3, <4>2, <4>3, <4>4, <4>5, <4>6 DEF Outdone
      <4> QED  BY <1>1, <3>1, <4>1, <4>7
    <3>4. CASE ~Alive(j) /\ Outdone(m)
      <4>1. ~Alive(j)'
        BY <1>4, <3>4 DEF Alive
      <4>2. Cardinality(ClassSet) # 1
        BY <1>0, <1>7, <3>4 DEF Swept
      <4>3. Outdone(m)'
        BY <1>1, <1>4, <3>4, <4>2 DEF Outdone
      <4> QED  BY <1>1, <3>1, <4>1, <4>3
    <3> QED  BY <3>1, <3>2, <3>3, <3>4
  <2>2. 1 \in Places => Alive(1)'
    <3> SUFFICES ASSUME 1 \in Places, ~Alive(1)' PROVE FALSE
      OBVIOUS
    <3>1. Alive(1)
      BY <1>0 DEF Accounted
    <3>2. PICK i \in Places : i < 1
      BY <1>4, <3>1
    <3> QED  BY <1>0, <3>2
  <2> QED  BY <1>4, <2>1, <2>2 DEF Accounted
<1>9. Swept'
  <2>1. classes' \subseteq ClassSet /\ classes' # ClassSet
    BY <1>0, <1>1, <1>2 DEF Swept
  <2>2. ASSUME NEW i \in Places, NEW j \in Places,
               i < j, Alive(i)', Alive(j)', MaxClass(cands[i]) \notin classes'
        PROVE  ~Overlaps(cands[order'[i]].box, cands[order'[j]].box)
    <3>1. CASE MaxClass(cands[i]) = c
      BY <1>4, <2>2, <3>1
    <3>2. CASE MaxClass(cands[i]) \notin classes
      BY <1>0, <1>5, <2>2, <3>2 DEF Swept
    <3> QED  BY <1>1, <2>2, <3>1, <3>2
  <2> QED  BY <1>1, <1>4, <2>1, <2>2 DEF Swept
<1> QED  BY <1>6, <1>8, <1>9 DEF NmsInv

-----------------------------------------------------------------------------
(* The results.                                                            *)

(* Scaling a clamped coordinate keeps the order and goes no farther than   *)
(* scaling the bound.                                                      *)
LEMMA ToScreenOrdered ==
  ASSUME NEW u \in Int, NEW v \in Int, u <= v, NEW size \in Nat \ {0}
  PROVE  Within(ToScreen(u, size), ToScreen(v, size), size)
<1>1. InputSize \in Nat /\ ScreenSize \in Nat \ {0}
  BY SizeAssumption
<1> DEFINE a == Clamp(u)
           b == Clamp(v)
<1>2. a \in Nat /\ b \in Nat /\ a <= b /\ b <= InputSize
  BY <1>1 DEF Clamp, Least, Largest
<1> HIDE DEF a, b
<1> DEFINE x == a * ScreenSize
           y == b * ScreenSize
           z == InputSize * ScreenSize
<1>3. x \in Nat /\ y \in Nat /\ z \in Nat /\ x <= y /\ y <= z
  BY <1>1, <1>2
<1>4. /\ ToScreen(u, size) = x \div size /\ ToScreen(v, size) = y \div size
      /\ Trunc(InputSize * ScreenSize, size) = z \div size
  <2>1. x >= 0 /\ y >= 0 /\ z >= 0
    BY <1>3
  <2> QED  BY <2>1 DEF ToScreen, Trunc, a, b
<1>5. InputSize <= size => y <= size * ScreenSize
  <2> SUFFICES ASSUME InputSize <= size PROVE y <= size * ScreenSize
    OBVIOUS
  <2>1. b <= size
    BY <1>1, <1>2
  <2> QED  BY <1>1, <1>2, <2>1
<1> HIDE DEF x, y, z
<1>6. x \div size \in Nat /\ y \div size \in Nat
  BY <1>3
<1>7. x \div size <= y \div size
  BY <1>3
<1>8. y \div size <= z \div size
  BY <1>3
<1>9. InputSize <= size => y \div size <= ScreenSize
  BY <1>1, <1>3, <1>5
<1> QED  BY <1>4, <1>6, <1>7, <1>8, <1>9 DEF Within

OnScreen(b) == Within(b.left, b.right, ModelWidth) /\ Within(b.top, b.bottom, ModelHeight)

LEMMA BoxOnScreen ==
  ASSUME NEW v \in CellValues
  PROVE  OnScreen(ScreenBox(v.box))
<1> DEFINE b == v.box
<1>1. b[1] \in Int /\ b[2] \in Int /\ b[3] \in Nat /\ b[4] \in Nat
  BY BoxTypes
<1>2. ModelWidth \in Nat \ {0} /\ ModelHeight \in Nat \ {0}
  BY SizeAssumption
<1> HIDE DEF b
<1>3. b[1] + b[3] \in Int /\ b[1] <= b[1] + b[3] /\ b[2] + b[4] \in Int /\ b[2] <= b[2] + b[4]
  BY <1>1
<1>4. Within(ToScreen(b[1], ModelWidth), ToScreen(b[1] + b[3], ModelWidth), ModelWidth)
  BY <1>1, <1>2, <1>3, ToScreenOrdered
<1>5. Within(ToScreen(b[2], ModelHeight), ToScreen(b[2] + b[4], ModelHeight), ModelHeight)
  BY <1>1, <1>2, <1>3, ToScreenOrdered
<1> QED  BY <1>4, <1>5 DEF OnScreen, ScreenBox, b

(* The loop that emits meets the undropped positions from the left.        *)
LEMMA KeptPlaces ==
  ASSUME Ranking
  PROVE  /\ Kept \in Seq(Places)
         /\ DOMAIN Kept = 1 .. Len(Kept) /\ Len(Kept) \in Nat
         /\ \A k \in DOMAIN Kept : Kept[k] \in Places /\ Alive(Kept[k])
         /\ \A k, l \in DOMAIN Kept : k < l => Kept[k] < Kept[l]
         /\ \A i \in Places : Alive(i) => \E k \in DOMAIN Kept : Kept[k] = i
<1> DEFINE S == {i \in DOMAIN order : order[i] # Dropped}
           n == Len(cands)
<1>1. n \in Nat /\ Places = 1 .. n /\ DOMAIN order = Places /\ Len(order) = n
  BY RankingDomains
<1>2. Kept = InOrder(S, n)
  BY <1>1 DEF Kept
<1>3. \A i \in Places : i \in S <=> Alive(i)
  BY <1>1 DEF Alive
<1> HIDE DEF S, n
<1>4. Selected(S, n, Kept)
  BY <1>1, <1>2, SelectsAll
<1>5. Kept \in Seq(Places)
  BY <1>1, <1>4 DEF Selected
<1>6. DOMAIN Kept = 1 .. Len(Kept) /\ Len(Kept) \in Nat /\ \A k \in DOMAIN Kept : Kept[k] \in Places
  BY <1>5, SeqElements
<1>7. \A k \in DOMAIN Kept : Alive(Kept[k])
  BY <1>3, <1>4, <1>6 DEF Selected
<1>8. \A i \in Places : Alive(i) => \E k \in DOMAIN Kept : Kept[k] = i
  BY <1>1, <1>3, <1>4 DEF Selected
<1>9. \A k, l \in DOMAIN Kept : k < l => Kept[k] < Kept[l]
  BY <1>4 DEF Selected
<1> QED  BY <1>5, <1>6, <1>7, <1>8, <1>9

LEMMA KeptCounts ==
  ASSUME Ranking
  PROVE  Cardinality(Survivors) = Len(Kept)
<1> DEFINE f == [k \in 1 .. Len(Kept) |-> order[Kept[k]]]
<1>1. /\ DOMAIN Kept = 1 .. Len(Kept) /\ Len(Kept) \in Nat
      /\ \A k \in DOMAIN Kept : Kept[k] \in Places /\ Alive(Kept[k])
      /\ \A k, l \in DOMAIN Kept : k < l => Kept[k] < Kept[l]
      /\ \A i \in Places : Alive(i) => \E k \in DOMAIN Kept : Kept[k] = i
  BY KeptPlaces
<1>2. \A k \in 1 .. Len(Kept) : f[k] \in Survivors
  BY <1>1, SurvivorsAre
<1>3. ASSUME NEW k \in 1 .. Len(Kept), NEW l \in 1 .. Len(Kept), f[k] = f[l] PROVE k = l
  <2>1. Kept[k] = Kept[l]
    BY <1>1, <1>3 DEF Ranking
  <2>2. Kept[k] \in Int /\ Kept[l] \in Int
    BY <1>1, RankingDomains
  <2>3. ~(k < l) /\ ~(l < k)
    BY <1>1, <2>1, <2>2
  <2> QED  BY <2>3
<1>4. ASSUME NEW m \in Survivors PROVE \E k \in 1 .. Len(Kept) : f[k] = m
  <2>1. PICK i \in Places : order[i] = m /\ Alive(i)
    BY SurvivorsAre
  <2> QED  BY <1>1, <2>1
<1>5. f \in Bijection(1 .. Len(Kept), Survivors)
  BY <1>2, <1>3, <1>4 DEF Bijection, Injection, Surjection, IsInjective
<1> QED  BY <1>1, <1>5, FS_CountingElements DEF ExistsBijection

Emitted == [k \in 1 .. Least(Len(Kept), MaxResults) |-> ResultAt(Kept[k])]

LEMMA EmittedResults ==
  ASSUME Ranking
  PROVE  /\ Len(Emitted) = Least(Len(Kept), MaxResults)
         /\ Len(Emitted) \in Nat /\ Len(Emitted) <= MaxResults /\ Len(Emitted) <= Len(Kept)
         /\ DOMAIN Emitted = 1 .. Len(Emitted)
         /\ \A k \in DOMAIN Emitted :
              /\ k \in DOMAIN Kept /\ order[Kept[k]] \in Survivors
              /\ Emitted[k] = [class |-> MaxClass(cands[order[Kept[k]]]),
                               prop |-> Score(cands[order[Kept[k]]]),
                               box |-> ScreenBox(cands[order[Kept[k]]].box)]
              /\ probs[Kept[k]] = Score(cands[order[Kept[k]]])
<1> DEFINE L == Least(Len(Kept), MaxResults)
<1>1. /\ DOMAIN Kept = 1 .. Len(Kept) /\ Len(Kept) \in Nat
      /\ \A k \in DOMAIN Kept : Kept[k] \in Places /\ Alive(Kept[k])
  BY KeptPlaces
<1>2. MaxResults \in Nat
  BY SizeAssumption
<1>3. L \in Nat /\ L <= MaxResults /\ L <= Len(Kept)
  BY <1>1, <1>2 DEF Least
<1> HIDE DEF L
<1>4. DOMAIN Emitted = 1 .. L /\ \A k \in 1 .. L : Emitted[k] = ResultAt(Kept[k])
  BY DEF Emitted, L
<1>5. Len(Emitted) = L
  BY <1>3, <1>4
<1>6. ASSUME NEW k \in 1 .. L
      PROVE  /\ k \in DOMAIN Kept /\ order[Kept[k]] \in Survivors
             /\ probs[Kept[k]] = Score(cands[order[Kept[k]]])
  <2>1. k \in DOMAIN Kept
    BY <1>1, <1>3
  <2>2. Kept[k] \in Places /\ Alive(Kept[k])
    BY <1>1, <2>1
  <2> QED  BY <2>1, <2>2, SurvivorsAre DEF Ranking
<1>7. \A k \in 1 .. L : Emitted[k] = [class |-> MaxClass(cands[order[Kept[k]]]),
                                      prop |-> Score(cands[order[Kept[k]]]),
                                      box |-> ScreenBox(cands[order[Kept[k]]].box)]
  BY <1>4, <1>6 DEF ResultAt
<1> QED  BY <1>3, <1>4, <1>5, <1>6, <1>7 DEF L

LEMMA EmittedIsGroup == ASSUME Ranking PROVE Emitted \in Seq(Results)
<1>1. ASSUME NEW k \in DOMAIN Emitted PROVE Emitted[k] \in Results
  <2> DEFINE v == cands[order[Kept[k]]]
  <2>1. Emitted[k] = [class |-> MaxClass(v), prop |-> Score(v), box |-> ScreenBox(v.box)]
    BY EmittedResults
  <2>2. v \in CellValues
    <3>1. order[Kept[k]] \in Places
      BY EmittedResults, SurvivorsAre
    <3> QED  BY <3>1, RankingDomains
  <2> HIDE DEF v
  <2>3. MaxClass(v) \in Nat /\ Score(v) \in Nat
    <3>1. MaxClass(v) \in DOMAIN v.probs /\ DOMAIN v.probs = 1 .. Len(v.probs)
      BY <2>2, LargestClass, ValueTypes
    <3> QED  BY <2>2, <3>1, ScoreTypes
  <2>4. ASSUME NEW u \in Int, NEW size \in Nat \ {0} PROVE ToScreen(u, size) \in Int
    <3>1. Clamp(u) \in Nat /\ ScreenSize \in Nat
      BY SizeAssumption DEF Clamp, Least, Largest
    <3> DEFINE x == Clamp(u) * ScreenSize
    <3>2. x \in Nat
      BY <3>1
    <3> HIDE DEF x
    <3>3. Trunc(x, size) \in Int
      BY <3>2 DEF Trunc
    <3> QED  BY <3>3 DEF ToScreen, x
  <2>5. ScreenBox(v.box) \in [left : Int, top : Int, right : Int, bottom : Int]
    <3> DEFINE b == v.box
    <3>1. b[1] \in Int /\ b[2] \in Int /\ b[3] \in Nat /\ b[4] \in Nat
      BY <2>2, BoxTypes
    <3> HIDE DEF b
    <3>2. b[1] \in Int /\ b[2] \in Int /\ b[1] + b[3] \in Int /\ b[2] + b[4] \in Int
      BY <3>1
    <3>3. ScreenBox(b) \in [left : Int, top : Int, right : Int, bottom : Int]
      <4>1. ModelWidth \in Nat \ {0} /\ ModelHeight \in Nat \ {0}
        BY SizeAssumption
      <4> QED  BY <2>4, <3>2, <4>1 DEF ScreenBox
    <3> QED  BY <3>3 DEF b
  <2> QED  BY <2>1, <2>3, <2>5 DEF Results
<1>2. DOMAIN Emitted = 1 .. Len(Emitted) /\ Len(Emitted) \in Nat
  BY EmittedResults
<1>3. Emitted \in [1 .. Len(Emitted) -> Results]
  BY <1>1, <1>2 DEF Emitted
<1>4. \A m \in Nat : \A f \in [1 .. m -> Results] : f \in Seq(Results)
  OBVIOUS
<1> QED  BY <1>2, <1>3, <1>4

(* Survivors with a higher score than the last result are before it.       *)
LEMMA StrongestEmitted ==
  ASSUME Ranking, Len(Emitted) > 0
  PROVE  Cardinality({n \in Survivors : Score(cands[n]) > Emitted[Len(Emitted)].prop}) < Len(Emitted)
<1> DEFINE L == Len(Emitted)
           S == {n \in Survivors : Score(cands[n]) > Emitted[L].prop}
           B == {k \in 1 .. L - 1 : Score(cands[order[Kept[k]]]) > Emitted[L].prop}
           f == [k \in B |-> order[Kept[k]]]
<1>1. /\ L \in Nat \ {0} /\ DOMAIN Emitted = 1 .. L /\ L <= Len(Kept) /\ L \in DOMAIN Emitted
      /\ Emitted[L].prop = probs[Kept[L]]
      /\ \A k \in 1 .. L : order[Kept[k]] \in Survivors
  BY EmittedResults
<1>2. /\ DOMAIN Kept = 1 .. Len(Kept) /\ Len(Kept) \in Nat
      /\ \A k \in DOMAIN Kept : Kept[k] \in Places /\ Alive(Kept[k])
      /\ \A k, l \in DOMAIN Kept : k < l => Kept[k] < Kept[l]
      /\ \A i \in Places : Alive(i) => \E k \in DOMAIN Kept : Kept[k] = i
  BY KeptPlaces
<1> HIDE DEF L
<1>3. ASSUME NEW n \in S PROVE \E k \in B : f[k] = n
  <2>1. PICK i \in Places : order[i] = n /\ Alive(i)
    BY SurvivorsAre
  <2>2. PICK k \in DOMAIN Kept : Kept[k] = i
    BY <1>2, <2>1
  <2>3. L \in DOMAIN Kept /\ Kept[L] \in Places
    BY <1>1, <1>2
  <2>4. probs[i] = Score(cands[n]) /\ probs[i] > probs[Kept[L]] /\ probs[i] \in Nat /\ probs[Kept[L]] \in Nat
    BY <1>1, <2>1, <2>3 DEF Ranking
  <2>5. k < L
    <3> SUFFICES ASSUME ~(k < L) PROVE FALSE
      OBVIOUS
    <3>1. k = L \/ L < k
      BY <1>1, <1>2
    <3>2. CASE k = L
      BY <2>2, <2>4, <3>2
    <3>3. CASE L < k
      <4>1. probs[Kept[L]] >= probs[i]
        BY <1>2, <2>2, <2>3, <3>3 DEF Ranking
      <4> QED  BY <2>4, <4>1
    <3> QED  BY <3>1, <3>2, <3>3
  <2>6. k \in 1 .. L - 1
    BY <1>1, <1>2, <2>5
  <2> QED  BY <2>1, <2>2, <2>6
<1>4. \A k \in B : f[k] \in S
  BY <1>1
<1>5. f \in Surjection(B, S)
  BY <1>3, <1>4 DEF Surjection
<1>6. IsFiniteSet(1 .. L - 1) /\ Cardinality(1 .. L - 1) = L - 1
  <2>1. 1 \in Int /\ L - 1 \in Int
    BY <1>1
  <2>2. IsFiniteSet(1 .. L - 1) /\ Cardinality(1 .. L - 1) = IF 1 > L - 1 THEN 0 ELSE (L - 1) - 1 + 1
    BY <2>1, FS_Interval
  <2> QED  BY <1>1, <2>2
<1>7. B \in SUBSET (1 .. L - 1)
  OBVIOUS
<1> HIDE DEF B, S, f
<1>8. IsFiniteSet(B) /\ Cardinality(B) <= L - 1 /\ Cardinality(B) \in Nat
  BY <1>6, <1>7, FS_Subset, FS_CardinalityType
<1>9. Cardinality(S) <= Cardinality(B) /\ IsFiniteSet(S)
  BY <1>5, <1>8, FS_Surjection
<1>10. Cardinality(S) \in Nat
  BY <1>9, FS_CardinalityType
<1>11. Cardinality(S) < L
  BY <1>1, <1>8, <1>9, <1>10
<1> QED  BY <1>11 DEF S, L

-----------------------------------------------------------------------------
(* The call as a whole.                                                    *)

(* The locals as a call finds them.                                        *)
Fresh ==
  /\ cands = <<>> /\ probs = <<>> /\ order = <<>>
  /\ todo = <<>> /\ step = "pop" /\ classes = {}

AtRest == todo = <<>> /\ step = "pop"

Gathered == cands = Collected({i \in DOMAIN cells : Candidate(cells[i])})

Idle == Fresh /\ cells = <<>> /\ group = Raw /\ ret = 0
Collecting == Fresh /\ Tensors /\ group = <<>> /\ ret = 0
Arranging == SortInv /\ Tensors /\ Gathered /\ classes = {} /\ group = <<>> /\ ret = 0
Suppressing == NmsInv /\ Tensors /\ Gathered /\ AtRest /\ group = <<>> /\ ret = 0
Refused == Fresh /\ cells = <<>> /\ group = Raw /\ ret = -1
Answered == NmsInv /\ Tensors /\ Gathered /\ AtRest /\ classes = {} /\ group = Emitted /\ ret = 0

CallInv ==
  /\ phase \in {"idle", "collect", "sort", "nms", "done"} /\ loaded \in BOOLEAN
  /\ phase = "idle" => Idle
  /\ phase = "collect" => Collecting
  /\ phase = "sort" => Arranging
  /\ phase = "nms" => Suppressing
  /\ phase = "done" => Refused \/ Answered

LEMMA EmptyEmitted ==
  ASSUME cands = <<>>, probs = <<>>, order = <<>>, classes = {}
  PROVE  NmsInv /\ Emitted = <<>>
<1>1. Len(cands) = 0 /\ Places = {} /\ ClassSet = {}
  BY DEF Places, ClassSet
<1>2. Ranking
  <2>1. probs \in [{} -> Nat] /\ order \in [{} -> {Dropped}]
    OBVIOUS
  <2> QED  BY <1>1, <2>1 DEF Ranking
<1>3. Accounted /\ Swept
  BY <1>1 DEF Accounted, Swept
<1>4. Emitted = <<>>
  <2>1. Len(Kept) \in Nat /\ DOMAIN Kept = 1 .. Len(Kept) /\ \A k \in DOMAIN Kept : Kept[k] \in {}
    BY <1>1, <1>2, KeptPlaces
  <2>2. Len(Kept) = 0
    BY <2>1
  <2>3. Least(Len(Kept), MaxResults) = 0
    BY <2>2, SizeAssumption DEF Least
  <2> QED  BY <2>3 DEF Emitted
<1> QED  BY <1>2, <1>3, <1>4 DEF NmsInv

LEMMA CallInvInit == Init => CallInv
BY DEF Init, CallInv, Idle, Fresh

LEMMA CallInvNext == CallInv /\ [Next]_vars => CallInv'
<1> SUFFICES ASSUME CallInv, [Next]_vars PROVE CallInv'
  OBVIOUS
<1>0. phase \in {"idle", "collect", "sort", "nms", "done"} /\ loaded \in BOOLEAN
  BY DEF CallInv
<1>1. CASE LabelsUnreadable
  BY <1>0, <1>1 DEF LabelsUnreadable, CallInv, Idle, Refused, Fresh, partition
<1>2. CASE Call
  <2>1. Idle /\ phase' = "collect" /\ loaded' = TRUE
    BY <1>2 DEF Call, CallInv
  <2>2. Collecting'
    BY <1>2, <2>1 DEF Call, Idle, Collecting, Fresh, Tensors, partition
  <2> QED  BY <2>1, <2>2 DEF CallInv
<1>3. CASE Collect
  <2>1. Collecting /\ UNCHANGED <<loaded, cells, step, classes, group, ret>>
    BY <1>3 DEF Collect, CallInv
  <2>2. Tensors'
    BY <2>1 DEF Collecting, Tensors
  <2>3. Gathered'
    <3>1. Collected({i \in DOMAIN cells : Candidate(cells[i])})'
            = Collected({i \in DOMAIN cells : Candidate(cells[i])})
      BY <2>1 DEF Collected
    <3> QED  BY <1>3, <3>1 DEF Collect, Gathered
  <2>4. CASE cands' # <<>>
    <3>1. phase' = "sort" /\ SortInv'
      BY <1>3, <2>1, <2>4, CollectSorts DEF Collect, Collecting, Fresh
    <3>2. Arranging'
      BY <2>1, <2>2, <2>3, <3>1 DEF Arranging, Collecting, Fresh
    <3> QED  BY <1>0, <2>1, <3>1, <3>2 DEF CallInv
  <2>5. CASE cands' = <<>>
    <3>1. /\ probs' = <<>> /\ order' = <<>> /\ phase' = "done" /\ todo' = <<>>
      BY <1>3, <2>1, <2>5 DEF Collect, Collecting, Fresh
    <3>2. classes' = {} /\ group' = <<>> /\ ret' = 0 /\ step' = "pop"
      BY <2>1 DEF Collecting, Fresh
    <3>3. (cands = <<>> /\ probs = <<>> /\ order = <<>> /\ classes = {} => NmsInv /\ Emitted = <<>>)'
      BY EmptyEmitted, PTL
    <3>4. Answered'
      BY <2>2, <2>3, <2>5, <3>1, <3>2, <3>3 DEF Answered, AtRest
    <3> QED  BY <1>0, <2>1, <3>1, <3>4 DEF CallInv
  <2> QED  BY <2>4, <2>5
<1>4. CASE Pop \/ ScanRight \/ ScanLeft \/ Place
  <2>1. Arranging /\ phase' = "sort" /\ UNCHANGED <<loaded, cells, cands, classes, group, ret>>
    BY <1>4 DEF Pop, ScanRight, ScanLeft, Place, Sorting, CallInv
  <2>2. SortInv'
    BY <1>4, <2>1, PopSorts, ScanRightSorts, ScanLeftSorts, PlaceSorts DEF Arranging
  <2>3. Tensors' /\ Gathered'
    BY <2>1 DEF Arranging, Tensors, Gathered, Collected
  <2>4. Arranging'
    BY <2>1, <2>2, <2>3 DEF Arranging
  <2> QED  BY <1>0, <2>1, <2>4 DEF CallInv
<1>5. CASE SortDone
  <2>1. Arranging /\ phase' = "nms" /\ UNCHANGED <<loaded, cells, cands, todo, step, group, ret>>
        /\ todo = <<>> /\ step = "pop"
    BY <1>5 DEF SortDone, Sorting, CallInv, partition
  <2>2. NmsInv'
    BY <1>5, <2>1, SortDoneRanks DEF Arranging
  <2>3. Suppressing'
    BY <2>1, <2>2 DEF Suppressing, Arranging, Tensors, Gathered, Collected, AtRest
  <2> QED  BY <1>0, <2>1, <2>3 DEF CallInv
<1>6. CASE Suppress
  <2>1. Suppressing /\ phase' = "nms" /\ UNCHANGED <<loaded, cells, cands, todo, step, group, ret>>
    BY <1>6 DEF Suppress, CallInv, partition
  <2>2. NmsInv'
    BY <1>6, <2>1, SuppressKeeps DEF Suppressing
  <2>3. Suppressing'
    BY <2>1, <2>2 DEF Suppressing, Tensors, Gathered, Collected, AtRest
  <2> QED  BY <1>0, <2>1, <2>3 DEF CallInv
<1>7. CASE Emit
  <2>1. Suppressing /\ phase' = "done" /\ classes = {} /\ group' = Emitted
        /\ UNCHANGED <<loaded, cells, cands, probs, order, todo, step, classes, ret>>
    BY <1>7 DEF Emit, CallInv, partition, Emitted
  <2>2. Emitted' = Emitted
    BY <2>1 DEF Emitted, Kept, ResultAt
  <2>3. NmsInv'
    <3>1. NmsInv /\ UNCHANGED <<cands, probs, order, classes>>
      BY <2>1 DEF Suppressing
    <3>2. NmsInv' <=> NmsInv
      BY <3>1 DEF NmsInv, Ranking, Accounted, Swept, Outdone, Survivors, ClassSet, Alive, Places
    <3> QED  BY <3>1, <3>2
  <2>4. Answered'
    BY <2>1, <2>2, <2>3 DEF Answered, Suppressing, Tensors, Gathered, Collected, AtRest
  <2> QED  BY <1>0, <2>1, <2>4 DEF CallInv
<1>8. CASE Return
  BY <1>0, <1>8 DEF Return, CallInv, Idle, Fresh
<1>9. CASE UNCHANGED vars
  <2>1. UNCHANGED <<phase, loaded, cells, cands, probs, order, todo, step, range, low, high, key,
                    keyIndex, classes, group, ret>>
    BY <1>9 DEF vars, partition
  <2>2. Idle' <=> Idle
    BY <2>1 DEF Idle, Fresh
  <2>3. Collecting' <=> Collecting
    BY <2>1 DEF Collecting, Fresh, Tensors
  <2>4. SortInv' <=> SortInv
    BY <2>1 DEF SortInv, SortTypes, Stacked, Split, Scores, Indices, Hole, Ranges, Places
  <2>5. Arranging' <=> Arranging
    BY <2>1, <2>4 DEF Arranging, Tensors, Gathered, Collected
  <2>6. NmsInv' <=> NmsInv
    BY <2>1 DEF NmsInv, Ranking, Accounted, Swept, Outdone, Survivors, ClassSet, Alive, Places
  <2>7. Suppressing' <=> Suppressing
    BY <2>1, <2>6 DEF Suppressing, Tensors, Gathered, Collected, AtRest
  <2>8. Refused' <=> Refused
    BY <2>1 DEF Refused, Fresh
  <2>9. Emitted' = Emitted
    BY <2>1 DEF Emitted, Kept, ResultAt
  <2>10. Answered' <=> Answered
    BY <2>1, <2>6, <2>9 DEF Answered, Tensors, Gathered, Collected, AtRest
  <2> QED  BY <2>1, <2>2, <2>3, <2>5, <2>7, <2>8, <2>10 DEF CallInv
<1> QED  BY <1>1, <1>2, <1>3, <1>4, <1>5, <1>6, <1>7, <1>8, <1>9 DEF Next

LEMMA CallInvAlways == Spec => []CallInv
<1>1. Init => CallInv
  BY CallInvInit
<1>2. CallInv /\ [Next]_vars => CallInv'
  BY CallInvNext
<1> QED  BY <1>1, <1>2, PTL DEF Spec

-----------------------------------------------------------------------------
LEMMA InvTypes == CallInv => TypeOK
<1> SUFFICES ASSUME CallInv PROVE TypeOK
  OBVIOUS
<1>0. <<>> \in Seq(CellValues) /\ MaxResults \in Nat /\ Len(<<>>) = 0
  BY SizeAssumption
<1>1. CASE phase = "idle" \/ phase = "collect" \/ (phase = "done" /\ Refused)
  <2>1. Fresh /\ (cells = <<>> \/ Tensors) /\ (group = Raw \/ group = <<>>) /\ ret \in {0, -1}
    BY <1>1 DEF CallInv, Idle, Collecting, Refused
  <2>2. cells \in Seq(CellValues)
    <3>1. \A m \in Nat : \A f \in [1 .. m -> CellValues] : f \in Seq(CellValues)
      OBVIOUS
    <3> QED  BY <1>0, <2>1, <3>1, SizeAssumption DEF Tensors
  <2>3. cands \in Seq(CellValues) /\ step \in {"pop", "right", "left", "place"} /\ classes = {}
        /\ DOMAIN todo = {} /\ (phase \notin {"sort", "nms"})
    BY <1>0, <1>1, <2>1 DEF Fresh
  <2>4. group = Raw \/ Len(group) <= MaxResults
    BY <1>0, <2>1
  <2>5. phase \in {"idle", "collect", "sort", "nms", "done"} /\ loaded \in BOOLEAN
    BY DEF CallInv
  <2> QED  BY <2>1, <2>2, <2>3, <2>4, <2>5 DEF TypeOK
<1>2. CASE phase = "sort"
  <2>1. SortInv /\ Tensors /\ classes = {} /\ group = <<>> /\ ret = 0
    BY <1>2 DEF CallInv, Arranging
  <2>2. cells \in Seq(CellValues)
    <3>1. \A m \in Nat : \A f \in [1 .. m -> CellValues] : f \in Seq(CellValues)
      OBVIOUS
    <3> QED  BY <2>1, <3>1, SizeAssumption DEF Tensors
  <2>3. DOMAIN cands = Places /\ SortTypes
    BY <2>1, PlacesAre DEF SortInv
  <2>4. probs \in [Places -> Nat] /\ order \in [Places -> Places \cup {Dropped}]
        /\ cands \in Seq(CellValues) /\ step \in {"pop", "right", "left", "place"}
    BY <2>3 DEF SortTypes
  <2>5. step # "pop" =>
          /\ range[1] \in Places /\ range[2] \in Places /\ keyIndex \in Places
          /\ range[1] <= low /\ low <= high /\ high <= range[2]
    <3>1. \A r \in Places \X Places : r[1] \in Places /\ r[2] \in Places
      OBVIOUS
    <3> QED  BY <2>3, <3>1 DEF SortTypes
  <2>6. \A k \in DOMAIN todo : todo[k] \in (1 .. Len(cands) + 1) \X (0 .. Len(cands))
    BY <2>3, SeqElements DEF SortTypes
  <2>7. Len(group) <= MaxResults
    BY <1>0, <2>1
  <2>8. phase \in {"idle", "collect", "sort", "nms", "done"} /\ loaded \in BOOLEAN
    BY DEF CallInv
  <2> QED  BY <2>1, <2>2, <2>3, <2>4, <2>5, <2>6, <2>7, <2>8 DEF TypeOK
<1>3. CASE phase = "nms" \/ (phase = "done" /\ Answered)
  <2>1. /\ NmsInv /\ Tensors /\ AtRest /\ ret = 0 /\ (group = <<>> \/ group = Emitted)
        /\ phase # "sort"
    BY <1>3 DEF CallInv, Suppressing, Answered
  <2>2. cells \in Seq(CellValues)
    <3>1. \A m \in Nat : \A f \in [1 .. m -> CellValues] : f \in Seq(CellValues)
      OBVIOUS
    <3> QED  BY <2>1, <3>1, SizeAssumption DEF Tensors
  <2>3. Ranking /\ classes \subseteq ClassSet
    BY <2>1 DEF NmsInv, Swept
  <2>4. /\ DOMAIN cands = Places /\ cands \in Seq(CellValues)
        /\ probs \in [Places -> Nat] /\ order \in [Places -> Places \cup {Dropped}]
        /\ \A m \in Places : cands[m] \in CellValues
    BY <2>3, RankingDomains DEF Ranking
  <2>5. classes \subseteq UNION {DOMAIN v.probs : v \in CellValues}
    <3>1. ASSUME NEW m \in Places PROVE MaxClass(cands[m]) \in DOMAIN cands[m].probs
      <4> DEFINE v == cands[m]
      <4>1. v \in CellValues
        BY <2>4
      <4> HIDE DEF v
      <4>2. MaxClass(v) \in DOMAIN v.probs
        BY <4>1, LargestClass
      <4> QED  BY <4>2 DEF v
    <3> QED  BY <2>3, <2>4, <3>1 DEF ClassSet
  <2>6. Len(group) <= MaxResults
    BY <1>0, <2>1, <2>3, EmittedResults
  <2>7. DOMAIN todo = {} /\ step = "pop"
    BY <2>1 DEF AtRest
  <2>8. phase \in {"idle", "collect", "sort", "nms", "done"} /\ loaded \in BOOLEAN
    BY DEF CallInv
  <2> QED  BY <2>1, <2>2, <2>4, <2>5, <2>6, <2>7, <2>8 DEF TypeOK
<1> QED  BY <1>1, <1>2, <1>3 DEF CallInv

(* Every state the call goes through has the types declared: the locals of *)
(* the sort stay within the arrays, and the group within its maximum.      *)
THEOREM TypeCorrect == Spec => []TypeOK
BY CallInvAlways, InvTypes, PTL

LEMMA InvCollects == CallInv => CollectExact
<1> SUFFICES ASSUME CallInv PROVE CollectExact
  OBVIOUS
<1> SUFFICES ASSUME phase \in {"sort", "nms"} \/ Finished
             PROVE  cands = Collected({i \in DOMAIN cells : Passes(cells[i])})
  BY DEF CollectExact
<1>1. Tensors /\ cands = Collected({i \in DOMAIN cells : Candidate(cells[i])})
  BY DEF CallInv, Arranging, Suppressing, Answered, Refused, Finished, Gathered
<1>2. \A i \in DOMAIN cells : Candidate(cells[i]) <=> Passes(cells[i])
  BY <1>1, PrefilterLossless DEF Tensors
<1>3. {i \in DOMAIN cells : Candidate(cells[i])} = {i \in DOMAIN cells : Passes(cells[i])}
  BY <1>2
<1> QED  BY <1>1, <1>3

(* The int8 comparison that skips a cell before its class probabilities    *)
(* are read, with its rounded threshold, skips none whose score passes.    *)
THEOREM CollectsExactly == Spec => []CollectExact
BY CallInvAlways, InvCollects, PTL

LEMMA InvRanks == CallInv => Ranked
<1> SUFFICES ASSUME CallInv PROVE Ranked
  OBVIOUS
<1> SUFFICES ASSUME phase = "nms"
             PROVE  /\ \A i, j \in DOMAIN probs : i < j => probs[i] >= probs[j]
                    /\ \A i \in DOMAIN order :
                         order[i] # Dropped => probs[i] = Score(cands[order[i]])
                    /\ classes = ClassSet => Survivors = DOMAIN cands
  BY DEF Ranked
<1>1. Ranking /\ Accounted /\ Swept
  BY DEF CallInv, Suppressing, NmsInv
<1>2. DOMAIN probs = Places /\ DOMAIN order = Places /\ DOMAIN cands = Places
  BY <1>1, RankingDomains
<1>3. ASSUME classes = ClassSet PROVE Survivors = DOMAIN cands
  <2>1. ASSUME NEW m \in Places PROVE m \in Survivors
    <3>1. PICK j \in Places : order[j] = m /\ Alive(j)
      BY <1>1, <1>3 DEF Accounted, Swept
    <3> QED  BY <1>1, <3>1, SurvivorsAre
  <2> QED  BY <1>1, <1>2, <2>1, SurvivorsAre
<1> QED  BY <1>1, <1>2, <1>3 DEF Ranking, Alive

(* The quicksort leaves the scores descending, each place with the index   *)
(* of the candidate its score is of, and drops or doubles none.            *)
THEOREM SortRanks == Spec => []Ranked
BY CallInvAlways, InvRanks, PTL

LEMMA FinishedAnswered == CallInv /\ Finished => Answered
BY DEF CallInv, Finished, Refused

(* With every class passed no survivor overlaps another.                   *)
LEMMA ApartAtEnd ==
  ASSUME NmsInv, classes = {}, NEW m \in Survivors, NEW n \in Survivors, m # n
  PROVE  ~Overlaps(cands[m].box, cands[n].box)
<1>1. Ranking /\ Swept
  BY DEF NmsInv
<1>2. PICK i \in Places : order[i] = m /\ Alive(i)
  BY <1>1, SurvivorsAre
<1>3. PICK j \in Places : order[j] = n /\ Alive(j)
  BY <1>1, SurvivorsAre
<1>4. i \in Nat /\ j \in Nat /\ i # j /\ m \in Places /\ n \in Places
  BY <1>1, <1>2, <1>3, RankingDomains, SurvivorsAre
<1>5. CASE i < j
  BY <1>1, <1>2, <1>3, <1>5 DEF Swept
<1>6. CASE j < i
  <2>1. ~Overlaps(cands[n].box, cands[m].box)
    BY <1>1, <1>2, <1>3, <1>6 DEF Swept
  <2> DEFINE v == cands[m]
             w == cands[n]
  <2>2. v \in CellValues /\ w \in CellValues
    BY <1>1, <1>4, RankingDomains
  <2> HIDE DEF v, w
  <2>3. Overlaps(v.box, w.box) => Overlaps(w.box, v.box)
    BY <2>2, OverlapSymmetric
  <2> QED  BY <2>1, <2>3 DEF v, w
<1> QED  BY <1>4, <1>5, <1>6

LEMMA InvApart == CallInv => SurvivorsApart
BY FinishedAnswered, ApartAtEnd DEF Answered, SurvivorsApart

(* No two boxes of the result overlap: the passes made class by class, and *)
(* reading the class at the position instead of the index, add up to       *)
(* suppression among all of them.                                          *)
THEOREM SurvivorsSeparate == Spec => []SurvivorsApart
BY CallInvAlways, InvApart, PTL

(* What is lost has lost to something.                                     *)
LEMMA LostOutdone ==
  ASSUME Ranking, Accounted, NEW m \in Places, m \notin Survivors
  PROVE  Outdone(m)
<1>1. PICK j \in Places : order[j] = m \/ (~Alive(j) /\ Outdone(m))
  BY DEF Accounted
<1>2. order[j] # m
  <2> SUFFICES ASSUME order[j] = m PROVE FALSE
    OBVIOUS
  <2>1. Alive(j)
    BY RankingDomains DEF Alive, Dropped
  <2> QED  BY <2>1, SurvivorsAre
<1> QED  BY <1>1, <1>2

LEMMA InvLosses == CallInv => LossExplained
<1> SUFFICES ASSUME CallInv, Finished
             PROVE  /\ \A n \in DOMAIN cands \ Survivors : \E m \in DOMAIN cands :
                         /\ m # n /\ Overlaps(cands[m].box, cands[n].box)
                         /\ Score(cands[m]) >= Score(cands[n])
                    /\ cands # <<>> => \E n \in Survivors :
                         \A m \in DOMAIN cands : Score(cands[m]) <= Score(cands[n])
  BY DEF LossExplained
<1>1. Ranking /\ Accounted /\ DOMAIN cands = Places /\ \A m \in Places : cands[m] \in CellValues
      /\ Places = 1 .. Len(cands) /\ Len(cands) \in Nat
  BY FinishedAnswered, RankingDomains DEF Answered, NmsInv
<1>2. \A n \in DOMAIN cands \ Survivors : Outdone(n)
  BY <1>1, LostOutdone
<1>3. ASSUME cands # <<>>
      PROVE  \E n \in Survivors : \A m \in DOMAIN cands : Score(cands[m]) <= Score(cands[n])
  <2>1. 1 \in Places
    <3>1. cands \in Seq(CellValues)
      BY <1>1 DEF Ranking
    <3>2. Len(cands) # 0
      BY <1>3, <3>1
    <3> QED  BY <1>1, <3>2
  <2>2. Alive(1) /\ order[1] \in Survivors /\ probs[1] = Score(cands[order[1]])
    BY <1>1, <2>1, SurvivorsAre DEF Accounted, Ranking
  <2>3. ASSUME NEW m \in Places PROVE Score(cands[m]) <= probs[1]
    <3>1. PICK j \in Places : probs[j] = Score(cands[m])
      BY <1>1 DEF Accounted
    <3>2. j = 1 \/ 1 < j
      BY <1>1
    <3>3. probs[j] \in Nat /\ probs[1] \in Nat /\ (1 < j => probs[1] >= probs[j])
      BY <1>1, <2>1 DEF Ranking
    <3> QED  BY <3>1, <3>2, <3>3
  <2> QED  BY <1>1, <2>2, <2>3
<1> QED  BY <1>1, <1>2, <1>3 DEF Outdone

(* A candidate is lost only to an overlapping one that scores at least as  *)
(* much, although the one that suppressed it may itself be suppressed by a *)
(* later pass; and one with the top score always survives.                 *)
THEOREM LossesExplained == Spec => []LossExplained
BY CallInvAlways, InvLosses, PTL

LEMMA InvGreedy == CallInv => OneClassGreedy
<1> SUFFICES ASSUME CallInv, Finished, Cardinality(ClassSet) = 1, NEW n \in DOMAIN cands
             PROVE  n \in Survivors <=>
                      ~\E m \in Survivors : /\ m # n /\ Overlaps(cands[m].box, cands[n].box)
                                            /\ Score(cands[m]) >= Score(cands[n])
  BY DEF OneClassGreedy
<1>1. NmsInv /\ classes = {} /\ Ranking /\ Accounted /\ n \in Places
  BY FinishedAnswered, RankingDomains DEF Answered, NmsInv
<1>2. ASSUME n \in Survivors, NEW m \in Survivors, m # n PROVE ~Overlaps(cands[m].box, cands[n].box)
  BY <1>1, <1>2, ApartAtEnd
<1>3. ASSUME n \notin Survivors
      PROVE  \E m \in Survivors : /\ m # n /\ Overlaps(cands[m].box, cands[n].box)
                                  /\ Score(cands[m]) >= Score(cands[n])
  <2>1. Outdone(n)
    BY <1>1, <1>3, LostOutdone
  <2> QED  BY <2>1 DEF Outdone
<1> QED  BY <1>2, <1>3

(* If all candidates are of one class, suppression is the textbook greedy  *)
(* one: a candidate survives iff no better survivor overlaps it.           *)
THEOREM GreedyForOneClass == Spec => []OneClassGreedy
BY CallInvAlways, InvGreedy, PTL

LEMMA InvGroup == CallInv => GroupFaithful
<1> SUFFICES ASSUME CallInv, Finished PROVE GroupFaithful
  BY DEF GroupFaithful
<1>1. Ranking /\ group = Emitted
  BY FinishedAnswered DEF Answered, NmsInv
<1>2. /\ Len(Emitted) = Least(Len(Kept), MaxResults)
      /\ Len(Emitted) \in Nat /\ Len(Emitted) <= MaxResults /\ Len(Emitted) <= Len(Kept)
      /\ DOMAIN Emitted = 1 .. Len(Emitted)
      /\ \A k \in DOMAIN Emitted :
           /\ k \in DOMAIN Kept /\ order[Kept[k]] \in Survivors
           /\ Emitted[k] = [class |-> MaxClass(cands[order[Kept[k]]]),
                            prop |-> Score(cands[order[Kept[k]]]),
                            box |-> ScreenBox(cands[order[Kept[k]]].box)]
           /\ probs[Kept[k]] = Score(cands[order[Kept[k]]])
  BY <1>1, EmittedResults
<1>3. group # Raw
  BY <1>1, EmittedIsGroup, RawAssumption
<1>4. Len(group) = Least(Cardinality(Survivors), MaxResults)
  BY <1>1, <1>2, KeptCounts
<1>5. \E of \in [DOMAIN group -> Survivors] :
        /\ \A k, l \in DOMAIN group : k # l => of[k] # of[l]
        /\ \A k \in DOMAIN group :
             group[k] = [class |-> MaxClass(cands[of[k]]), prop |-> Score(cands[of[k]]),
                         box |-> ScreenBox(cands[of[k]].box)]
  <2> DEFINE of == [k \in DOMAIN group |-> order[Kept[k]]]
  <2>1. of \in [DOMAIN group -> Survivors]
    BY <1>1, <1>2
  <2>2. ASSUME NEW k \in DOMAIN group, NEW l \in DOMAIN group, k # l PROVE of[k] # of[l]
    <3>1. /\ k \in DOMAIN Kept /\ l \in DOMAIN Kept /\ DOMAIN Kept = 1 .. Len(Kept)
          /\ Kept[k] \in Places /\ Kept[l] \in Places /\ Alive(Kept[k]) /\ Alive(Kept[l])
          /\ k < l => Kept[k] < Kept[l]
          /\ l < k => Kept[l] < Kept[k]
      BY <1>1, <1>2, KeptPlaces
    <3>2. k \in Int /\ l \in Int /\ Kept[k] \in Int /\ Kept[l] \in Int
      BY <3>1, KeptPlaces DEF Places
    <3>3. Kept[k] # Kept[l]
      BY <2>2, <3>1, <3>2
    <3> QED  BY <1>1, <3>1, <3>3 DEF Ranking
  <2>3. \A k \in DOMAIN group :
          group[k] = [class |-> MaxClass(cands[of[k]]), prop |-> Score(cands[of[k]]),
                      box |-> ScreenBox(cands[of[k]].box)]
    BY <1>1, <1>2
  <2> HIDE DEF of
  <2> QED  BY <2>1, <2>2, <2>3
<1>6. ASSUME NEW k \in DOMAIN group, NEW l \in DOMAIN group, k < l PROVE group[k].prop >= group[l].prop
  <2>1. group[k].prop = probs[Kept[k]] /\ group[l].prop = probs[Kept[l]]
    BY <1>1, <1>2
  <2>2. Kept[k] \in Places /\ Kept[l] \in Places /\ Kept[k] < Kept[l]
    BY <1>1, <1>2, <1>6, KeptPlaces
  <2> QED  BY <1>1, <2>1, <2>2 DEF Ranking
<1>7. Len(group) > 0 => Cardinality({n \in Survivors :
        Score(cands[n]) > group[Len(group)].prop}) < Len(group)
  BY <1>1, StrongestEmitted
<1> QED  BY <1>3, <1>4, <1>5, <1>6, <1>7 DEF GroupFaithful

(* A finished call reports the strongest survivors, as many as there are   *)
(* up to the maximum, best first, each once and with the class, score and  *)
(* box of the same candidate.                                              *)
THEOREM GroupComplete == Spec => []GroupFaithful
BY CallInvAlways, InvGroup, PTL

LEMMA InvBoxes == CallInv => InScreen
<1> SUFFICES ASSUME CallInv, group # Raw, NEW k \in DOMAIN group PROVE OnScreen(group[k].box)
  BY DEF InScreen, OnScreen
<1>1. group = <<>> \/ (Ranking /\ group = Emitted)
  BY DEF CallInv, Idle, Collecting, Arranging, Suppressing, Refused, Answered, NmsInv
<1>2. Ranking /\ group = Emitted
  BY <1>1
<1> DEFINE v == cands[order[Kept[k]]]
<1>3. order[Kept[k]] \in Survivors /\ group[k].box = ScreenBox(v.box)
  BY <1>2, EmittedResults
<1>4. v \in CellValues
  BY <1>2, <1>3, SurvivorsAre, RankingDomains
<1> HIDE DEF v
<1>5. OnScreen(ScreenBox(v.box))
  BY <1>4, BoxOnScreen
<1> QED  BY <1>3, <1>5

(* Every reported box starts on the screen and has its corners in order,   *)
(* wherever the network placed it; its far corner is at most where the     *)
(* bound main passes is scaled to, which is on the screen if the model's   *)
(* own size is not below that bound.                                       *)
THEOREM BoxesOnScreen == Spec => []InScreen
BY CallInvAlways, InvBoxes, PTL
=============================================================================
