---------------------------- MODULE QsortPoolProofs ----------------------------
(***************************************************************************)
(* Theorems about qsort_mt.c: what one pass of qsort_algo does to any      *)
(* array and any piece of it, and then the pool of threads, for any number *)
(* of threads, any array and any size of the pieces worth sharing.         *)
(***************************************************************************)
EXTENDS QsortPool, FiniteSetTheorems, WellFoundedInduction, TLAPS

-----------------------------------------------------------------------------
(* Part one: one pass of qsort_algo.                                       *)

\* A set of numbers has a least one.
LEMMA LeastExists ==
    ASSUME NEW S, S \subseteq Nat, S # {}
    PROVE  \E x \in S : \A y \in S : x <= y
<1> DEFINE R == OpToRel(<, Nat)
<1>1. IsWellFoundedOn(R, Nat)
  BY NatLessThanWellFounded
<1> HIDE DEF R
<1>2. PICK x \in S : \A y \in S : ~ (<<y, x>> \in R)
  BY <1>1, WFMin
<1>3. \A y \in S : y < x => <<y, x>> \in R
  BY DEF R, OpToRel
<1>4. \A y \in S : ~(y < x)
  BY <1>2, <1>3
<1> QED
  BY <1>4

-----------------------------------------------------------------------------
(* Loops.  A loop over the states D goes on with step until it is in stop;   *)
(* its result is a recursive function of the state it begins with.           *)

\* The recursive function of a loop exists, whether the loop ends or not: its
\* value is the state of stop that is in every set that has the first state and
\* is closed under step.
LEMMA LoopExists ==
    ASSUME NEW D, NEW stop \in SUBSET D, NEW step \in [D -> D]
    PROVE  \E f : f = [s \in D |-> IF s \in stop THEN s ELSE f[step[s]]]
<1> DEFINE Closed(Q) == \A x \in Q : x \notin stop => step[x] \in Q
           Ends(s) == {e \in stop : \A Q \in SUBSET D : s \in Q /\ Closed(Q) => e \in Q}
           f == [s \in D |-> CHOOSE e : e \in Ends(s)]
<1>1. ASSUME NEW s \in D, s \in stop
      PROVE  f[s] = s
  <2>1. Closed({s}) /\ {s} \in SUBSET D
    BY <1>1
  <2>2. Ends(s) = {s}
    BY <1>1, <2>1
  <2> QED
    BY <2>2
<1>2. ASSUME NEW s \in D, s \notin stop
      PROVE  f[s] = f[step[s]]
  <2>1. step[s] \in D
    OBVIOUS
  <2>2. ASSUME NEW e \in Ends(s)
        PROVE  e \in Ends(step[s])
    <3>1. SUFFICES ASSUME NEW Q \in SUBSET D, step[s] \in Q, Closed(Q)
                   PROVE  e \in Q
      OBVIOUS
    <3>2. Closed(Q \cup {s}) /\ Q \cup {s} \in SUBSET D
      BY <3>1
    <3>3. e \in Q \cup {s} /\ e \in stop
      BY <3>2
    <3> QED
      BY <1>2, <3>3
  <2>3. ASSUME NEW e \in Ends(step[s])
        PROVE  e \in Ends(s)
    <3>1. SUFFICES ASSUME NEW Q \in SUBSET D, s \in Q, Closed(Q)
                   PROVE  e \in Q
      OBVIOUS
    <3>2. step[s] \in Q
      BY <1>2, <3>1
    <3> QED
      BY <3>1, <3>2
  <2>4. Ends(s) = Ends(step[s])
    <3> HIDE DEF Ends
    <3> QED
      BY <2>2, <2>3
  <2> HIDE DEF Ends
  <2> QED
    BY <2>1, <2>4
<1>3. f = [s \in D |-> IF s \in stop THEN s ELSE f[step[s]]]
  <2>1. \A s \in D : f[s] = IF s \in stop THEN s ELSE f[step[s]]
    <3> HIDE DEF f
    <3> QED
      BY <1>1, <1>2
  <2>2. f = [s \in D |-> f[s]]
    OBVIOUS
  <2> HIDE DEF f
  <2> QED
    BY <2>1, <2>2
<1> HIDE DEF f
<1> QED
  BY <1>3

\* f is the result of a loop whose variant m decreases.
IsLoop(D, stop, step, f, m) ==
    /\ stop \in SUBSET D /\ step \in [D -> D] /\ m \in [D -> Nat]
    /\ \A s \in D : f[s] = IF s \in stop THEN s ELSE f[step[s]]
    /\ \A s \in D : s \notin stop => m[step[s]] < m[s]

\* The loop does not leave P.
StaysIn(P, D, stop, step) ==
    P \in SUBSET D /\ \A s \in P : s \notin stop => step[s] \in P

\* Such a loop ends, in a state of every set that it does not leave.
LEMMA LoopEnds ==
    ASSUME NEW D, NEW stop, NEW step, NEW f, NEW m, IsLoop(D, stop, step, f, m),
           NEW P, StaysIn(P, D, stop, step), NEW s0 \in P
    PROVE  f[s0] \in P /\ f[s0] \in stop
<1> USE DEF IsLoop, StaysIn
<1> DEFINE Bad == {s \in P : ~(f[s] \in P /\ f[s] \in stop)}
           N == {m[s] : s \in Bad}
<1>1. SUFFICES ASSUME Bad # {} PROVE FALSE
  OBVIOUS
<1>2. N \subseteq Nat /\ N # {}
  BY <1>1
<1>5. PICK x \in N : \A y \in N : x <= y
  <2> HIDE DEF N
  <2> QED
    BY <1>2, LeastExists
<1>6. PICK s \in Bad : m[s] = x
  OBVIOUS
<1>7. \A t \in Bad : ~(m[t] < m[s])
  <2>1. ASSUME NEW t \in Bad
        PROVE  ~(m[t] < m[s])
    <3>1. m[t] \in N /\ m[t] \in Nat /\ m[s] \in Nat
      OBVIOUS
    <3>2. m[s] <= m[t]
      BY <1>5, <1>6, <3>1
    <3> QED
      BY <3>1, <3>2
  <2> QED
    BY <2>1
<1>8. s \notin stop /\ s \in D /\ s \in P
  OBVIOUS
<1>9. f[s] = f[step[s]] /\ step[s] \in P /\ m[step[s]] < m[s]
  BY <1>8
<1>10. step[s] \notin Bad
  BY <1>7, <1>9
<1> QED
  BY <1>9, <1>10

-----------------------------------------------------------------------------
(* Rearranging a piece of an array *)

\* The elements from lo to hi change places.  p[k] is where the element at k
\* comes from.
Moves(n, lo, hi) ==
    {p \in [1 .. n -> 1 .. n] :
        /\ \A j, k \in 1 .. n : p[j] = p[k] => j = k
        /\ \A k \in 1 .. n : \E j \in 1 .. n : p[j] = k
        /\ \A k \in 1 .. n : k \notin lo .. hi => p[k] = k}

Rearranged(vec, res, lo, hi) ==
    /\ res \in Seq(Elements) /\ Len(res) = Len(vec)
    /\ \E p \in Moves(Len(vec), lo, hi) : \A k \in 1 .. Len(vec) : res[k] = vec[p[k]]

\* No element before b is greater than one from b on.
Cut(vec, lo, hi, b) == \A j \in lo .. b - 1, k \in b .. hi : vec[j] <= vec[k]

\* An array is a function on its positions.
LEMMA ArrayFunction ==
    ASSUME NEW S, NEW vec \in Seq(S)
    PROVE  Len(vec) \in Nat /\ vec \in [1 .. Len(vec) -> S] /\ DOMAIN vec = 1 .. Len(vec)
OBVIOUS

\* A function on the positions is an array.
LEMMA FunctionArray ==
    ASSUME NEW S, NEW n \in Nat, NEW vec \in [1 .. n -> S]
    PROVE  vec \in Seq(S) /\ Len(vec) = n
OBVIOUS

\* num_compare has the sign it should have: the difference of two elements of
\* main's array fits in an int.
LEMMA NumCompare ==
    ASSUME NEW x \in Elements, NEW y \in Elements
    PROVE  /\ num_compare(x, y) \in Int
           /\ num_compare(x, y) < 0 <=> x < y
           /\ num_compare(x, y) = 0 <=> x = y
           /\ num_compare(x, y) > 0 <=> x > y
<1> DEFINE H == 2 ^ (W - 1)
<1>1. H \in Nat \ {0} /\ 2 ^ W = 2 * H /\ x \in 0 .. H - 1 /\ y \in 0 .. H - 1
  BY QsortAssumption DEF Elements
<1> HIDE DEF H
<1> DEFINE M == 2 * H
           d == (x - y) % M
<1>2. num_compare(x, y) = IF d < H THEN d ELSE d - M
  BY <1>1 DEF num_compare, H
<1>3. M \in Nat \ {0}
  BY <1>1
<1>4. CASE x >= y
  <2>1. x - y \in 0 .. M - 1 /\ x - y < H
    BY <1>1, <1>4
  <2>2. d = x - y
    <3> HIDE DEF M
    <3> QED
      BY <1>3, <2>1
  <2> HIDE DEF d
  <2> QED
    BY <1>1, <1>2, <1>4, <2>1, <2>2
<1>5. CASE x < y
  <2> DEFINE e == x - y + M
  <2>1. e \in 0 .. M - 1 /\ e >= H /\ x - y = e - M
    BY <1>1, <1>5
  <2>2. d = e
    <3> HIDE DEF M, e
    <3> QED
      BY <1>3, <2>1
  <2> HIDE DEF d
  <2> QED
    BY <1>1, <1>2, <1>5, <2>1, <2>2
<1> QED
  BY <1>1, <1>4, <1>5

\* Elements are numbers.
LEMMA ElementsNat == Elements \subseteq Nat
BY QsortAssumption DEF Elements

\* What p says is a rearrangement.
LEMMA RearrangedBy ==
    ASSUME NEW vec \in Seq(Elements), NEW lo, NEW hi, NEW p \in Moves(Len(vec), lo, hi),
           NEW res, res = [k \in DOMAIN vec |-> vec[p[k]]]
    PROVE  Rearranged(vec, res, lo, hi)
<1>1. Len(vec) \in Nat /\ vec \in [1 .. Len(vec) -> Elements] /\ DOMAIN vec = 1 .. Len(vec)
  BY ArrayFunction
<1>2. p \in [1 .. Len(vec) -> 1 .. Len(vec)]
  BY DEF Moves
<1>3. res \in [1 .. Len(vec) -> Elements]
  BY <1>1, <1>2
<1>4. res \in Seq(Elements) /\ Len(res) = Len(vec)
  BY <1>1, <1>3, FunctionArray
<1> QED
  BY <1>1, <1>4 DEF Rearranged

\* Nothing rearranged is a rearrangement.
LEMMA RearrangedNot ==
    ASSUME NEW vec \in Seq(Elements), NEW lo, NEW hi
    PROVE  Rearranged(vec, vec, lo, hi)
<1>1. Len(vec) \in Nat /\ vec \in [1 .. Len(vec) -> Elements] /\ DOMAIN vec = 1 .. Len(vec)
  BY ArrayFunction
<1> DEFINE p == [k \in 1 .. Len(vec) |-> k]
<1>2. p \in Moves(Len(vec), lo, hi)
  BY <1>1 DEF Moves
<1>3. \A k \in 1 .. Len(vec) : vec[k] = vec[p[k]]
  OBVIOUS
<1> HIDE DEF p
<1> QED
  BY <1>2, <1>3 DEF Rearranged

\* Rearranging the same piece twice is rearranging it.
LEMMA RearrangedTwice ==
    ASSUME NEW vec \in Seq(Elements), NEW res, NEW crr, NEW lo, NEW hi,
           Rearranged(vec, res, lo, hi), Rearranged(res, crr, lo, hi)
    PROVE  Rearranged(vec, crr, lo, hi)
<1> DEFINE n == Len(vec)
<1>1. n \in Nat /\ Len(res) = n /\ Len(crr) = n /\ crr \in Seq(Elements)
  BY DEF Rearranged
<1>2. PICK p \in Moves(n, lo, hi) : \A k \in 1 .. n : res[k] = vec[p[k]]
  BY DEF Rearranged
<1>3. PICK q \in Moves(n, lo, hi) : \A k \in 1 .. n : crr[k] = res[q[k]]
  BY <1>1 DEF Rearranged
<1> HIDE DEF n
<1> DEFINE r == [k \in 1 .. n |-> p[q[k]]]
<1>4. r \in Moves(n, lo, hi)
  <2>1. p \in [1 .. n -> 1 .. n] /\ q \in [1 .. n -> 1 .. n]
    BY DEF Moves
  <2>2. r \in [1 .. n -> 1 .. n]
    BY <2>1
  <2>6. \A j, k \in 1 .. n : /\ p[j] = p[k] => j = k
                             /\ q[j] = q[k] => j = k
    BY DEF Moves
  <2>3. ASSUME NEW j \in 1 .. n, NEW k \in 1 .. n, r[j] = r[k]
        PROVE  j = k
    <3>1. p[q[j]] = p[q[k]] /\ q[j] \in 1 .. n /\ q[k] \in 1 .. n
      BY <2>1, <2>3
    <3> QED
      BY <2>6, <3>1
  <2>4. ASSUME NEW k \in 1 .. n
        PROVE  \E j \in 1 .. n : r[j] = k
    <3>1. PICK l \in 1 .. n : p[l] = k
      BY DEF Moves
    <3>2. PICK j \in 1 .. n : q[j] = l
      BY DEF Moves
    <3> QED
      BY <3>1, <3>2
  <2>5. \A k \in 1 .. n : k \notin lo .. hi => r[k] = k
    BY <2>1 DEF Moves
  <2> HIDE DEF r
  <2> QED
    BY <2>2, <2>3, <2>4, <2>5 DEF Moves
<1>5. \A k \in 1 .. n : crr[k] = vec[r[k]]
  BY <1>2, <1>3 DEF Moves
<1> HIDE DEF r
<1> QED
  BY <1>1, <1>4, <1>5 DEF Rearranged, n

\* A larger piece is rearranged, too.
LEMMA RearrangedWider ==
    ASSUME NEW vec \in Seq(Elements), NEW res, NEW lo \in Int, NEW hi \in Int,
           Rearranged(vec, res, lo, hi), NEW l \in Int, NEW h \in Int, l <= lo, hi <= h
    PROVE  Rearranged(vec, res, l, h)
<1>1. Moves(Len(vec), lo, hi) \subseteq Moves(Len(vec), l, h)
  <2>1. \A k \in Int : k \notin l .. h => k \notin lo .. hi
    OBVIOUS
  <2>2. ASSUME NEW p \in Moves(Len(vec), lo, hi)
        PROVE  p \in Moves(Len(vec), l, h)
    <3>1. \A k \in 1 .. Len(vec) : k \notin lo .. hi => p[k] = k
      BY DEF Moves
    <3>2. \A k \in 1 .. Len(vec) : k \notin l .. h => p[k] = k
      BY <2>1, <3>1
    <3> QED
      BY <3>2 DEF Moves
  <2> QED
    BY <2>2
<1> QED
  BY <1>1 DEF Rearranged

\* Two elements of the piece are swapped.
LEMMA SwapRearranges ==
    ASSUME NEW vec \in Seq(Elements), NEW lo \in Int, NEW hi \in Int,
           NEW i \in 1 .. Len(vec), NEW j \in 1 .. Len(vec), i \in lo .. hi, j \in lo .. hi
    PROVE  Rearranged(vec, swap(vec, i, j), lo, hi)
<1>1. Len(vec) \in Nat /\ vec \in [1 .. Len(vec) -> Elements] /\ DOMAIN vec = 1 .. Len(vec)
  BY ArrayFunction
<1> DEFINE p == [k \in 1 .. Len(vec) |-> IF k = i THEN j ELSE IF k = j THEN i ELSE k]
<1>2. p \in Moves(Len(vec), lo, hi)
  <2>1. p \in [1 .. Len(vec) -> 1 .. Len(vec)]
    OBVIOUS
  <2>2. \A k \in 1 .. Len(vec) : p[p[k]] = k
    OBVIOUS
  <2>3. \A k \in 1 .. Len(vec) : k \notin lo .. hi => p[k] = k
    OBVIOUS
  <2> HIDE DEF p
  <2> QED
    BY <2>1, <2>2, <2>3 DEF Moves
<1>3. swap(vec, i, j) = [k \in DOMAIN vec |-> vec[p[k]]]
  BY <1>1 DEF swap
<1> HIDE DEF p
<1> QED
  BY <1>2, <1>3, RearrangedBy

\* res is vec, the n elements from i on exchanged with those from j on.
Exchanged(vec, res, i, j, n) ==
    /\ \A k \in i .. i + n - 1 : res[k] = vec[k - i + j]
    /\ \A k \in j .. j + n - 1 : res[k] = vec[k - j + i]
    /\ \A k \in 1 .. Len(vec) :
          k \notin i .. i + n - 1 /\ k \notin j .. j + n - 1 => res[k] = vec[k]

\* The elements of two parts of the piece that do not overlap are exchanged.
LEMMA VecswapRearranges ==
    ASSUME NEW vec \in Seq(Elements), NEW lo \in Int, NEW hi \in Int,
           NEW i \in Int, NEW j \in Int, NEW m \in Nat,
           0 < i, i + m <= j, j + m - 1 <= Len(vec), lo <= i, j + m - 1 <= hi
    PROVE  /\ Rearranged(vec, vecswap(vec, i, j, m), lo, hi)
           /\ Exchanged(vec, vecswap(vec, i, j, m), i, j, m)
<1>1. Len(vec) \in Nat /\ vec \in [1 .. Len(vec) -> Elements] /\ DOMAIN vec = 1 .. Len(vec)
  BY ArrayFunction
<1> DEFINE n == Len(vec)
           p == [k \in 1 .. n |-> IF k \in i .. i + m - 1 THEN k - i + j
                                  ELSE IF k \in j .. j + m - 1 THEN k - j + i
                                  ELSE k]
<1>2. /\ \A k \in i .. i + m - 1 : k \in 1 .. n /\ k \notin j .. j + m - 1
                                   /\ k - i + j \in j .. j + m - 1 /\ k \in lo .. hi
      /\ \A k \in j .. j + m - 1 : k \in 1 .. n /\ k \notin i .. i + m - 1
                                   /\ k - j + i \in i .. i + m - 1 /\ k \in lo .. hi
  BY <1>1
<1>3. vecswap(vec, i, j, m) = [k \in DOMAIN vec |-> vec[p[k]]]
  <2>1. \A k \in DOMAIN vec :
            vec[p[k]] = CASE k \in i .. i + m - 1 -> vec[k - i + j]
                          [] k \in j .. j + m - 1 -> vec[k - j + i]
                          [] OTHER -> vec[k]
    BY <1>1, <1>2
  <2> QED
    BY <2>1 DEF vecswap
<1>4. p \in Moves(n, lo, hi)
  <2>1. p \in [1 .. n -> 1 .. n]
    BY <1>2
  <2>2. ASSUME NEW k \in 1 .. n
        PROVE  p[p[k]] = k
    <3>1. CASE k \in i .. i + m - 1
      <4>1. p[k] = k - i + j /\ k - i + j \in j .. j + m - 1
        BY <1>2, <3>1
      <4>2. p[k - i + j] = k - i + j - j + i
        BY <1>2, <4>1
      <4> QED
        BY <4>1, <4>2
    <3>2. CASE k \in j .. j + m - 1
      <4>1. p[k] = k - j + i /\ k - j + i \in i .. i + m - 1
        BY <1>2, <3>2
      <4>2. p[k - j + i] = k - j + i - i + j
        BY <1>2, <4>1
      <4> QED
        BY <4>1, <4>2
    <3>3. CASE k \notin i .. i + m - 1 /\ k \notin j .. j + m - 1
      BY <3>3
    <3> QED
      BY <3>1, <3>2, <3>3
  <2>3. \A k \in 1 .. n : k \notin lo .. hi => p[k] = k
    BY <1>2
  <2> HIDE DEF p
  <2> QED
    BY <2>1, <2>2, <2>3 DEF Moves
<1>5. Rearranged(vec, vecswap(vec, i, j, m), lo, hi)
  <2> HIDE DEF p
  <2> QED
    BY <1>3, <1>4, RearrangedBy
<1>6. /\ \A k \in i .. i + m - 1 : vecswap(vec, i, j, m)[k] = vec[k - i + j]
      /\ \A k \in j .. j + m - 1 : vecswap(vec, i, j, m)[k] = vec[k - j + i]
      /\ \A k \in 1 .. Len(vec) : k \notin i .. i + m - 1 /\ k \notin j .. j + m - 1 =>
            vecswap(vec, i, j, m)[k] = vec[k]
  BY <1>1, <1>2, <1>3
<1> QED
  BY <1>5, <1>6 DEF Exchanged

-----------------------------------------------------------------------------
(* Insertion sort *)

\* The place of the next element: what it passes is greater; and unless the
\* limit stops it, it goes as far as it can.
LEMMA PlaceFound ==
    ASSUME NEW s \in Inserting, s.pm < s.pn, s.swaps <= s.limit
    PROVE  /\ Place(s) \in s.a .. s.pm
           /\ \A k \in Place(s) .. s.pm - 1 : s.arr[k] > s.arr[s.pm]
           /\ s.pm - Place(s) <= s.limit + 1 - s.swaps
           /\ \/ Place(s) = s.a \/ s.pm - Place(s) = s.limit + 1 - s.swaps
              \/ s.arr[Place(s) - 1] <= s.arr[s.pm]
<1>1. /\ s.arr \in [1 .. Len(s.arr) -> Elements] /\ Len(s.arr) \in Nat
      /\ s.a \in Nat /\ s.pm \in Nat /\ s.pn \in Nat /\ s.swaps \in Nat /\ s.limit \in Nat
      /\ 0 < s.a /\ s.a <= s.pm /\ s.pm <= s.pn /\ s.pn <= Len(s.arr) + 1
  BY ArrayFunction DEF Inserting
<1>2. \A k \in s.a .. s.pm : k \in 1 .. Len(s.arr) /\ s.arr[k] \in Elements
  BY <1>1
<1>3. \A k \in s.a .. s.pm : /\ CMP(s.arr, k, s.pm) > 0 <=> s.arr[k] > s.arr[s.pm]
                             /\ CMP(s.arr, k, s.pm) <= 0 <=> s.arr[k] <= s.arr[s.pm]
  <2>1. s.pm \in s.a .. s.pm
    BY <1>1
  <2>2. ASSUME NEW k \in s.a .. s.pm
        PROVE  /\ CMP(s.arr, k, s.pm) > 0 <=> s.arr[k] > s.arr[s.pm]
               /\ CMP(s.arr, k, s.pm) <= 0 <=> s.arr[k] <= s.arr[s.pm]
    <3>1. s.arr[k] \in Elements /\ s.arr[s.pm] \in Elements
      BY <1>2, <2>1
    <3>2. s.arr[k] \in Nat /\ s.arr[s.pm] \in Nat
      BY <3>1, ElementsNat
    <3> QED
      BY <3>1, <3>2, NumCompare DEF CMP
  <2> QED
    BY <2>2
<1> DEFINE room == s.limit + 1 - s.swaps
           Past(q) == (\A k \in q .. s.pm - 1 : CMP(s.arr, k, s.pm) > 0) /\ s.pm - q <= room
           S == {q \in s.a .. s.pm : Past(q)}
           Good(q) == /\ \A k \in q .. s.pm - 1 : CMP(s.arr, k, s.pm) > 0
                      /\ s.pm - q <= room
                      /\ q = s.a \/ s.pm - q = room \/ CMP(s.arr, q - 1, s.pm) <= 0
<1>4. room \in Nat \ {0}
  BY <1>1
<1> HIDE DEF room
<1>5. s.pm \in S /\ S \subseteq Nat
  BY <1>1, <1>4
<1>6. PICK q \in S : \A x \in S : q <= x
  <2> HIDE DEF S
  <2> QED
    BY <1>5, LeastExists
<1>7. Good(q)
  <2>1. q \in s.a .. s.pm /\ Past(q)
    BY <1>6
  <2>2. CASE q # s.a
    <3>1. q - 1 \in s.a .. s.pm /\ ~(q <= q - 1)
      BY <1>1, <2>1, <2>2
    <3>2. ~Past(q - 1)
      BY <1>6, <3>1
    <3>3. \A k \in q - 1 .. s.pm - 1 : k = q - 1 \/ k \in q .. s.pm - 1
      BY <1>1, <2>1
    <3>4. ~(CMP(s.arr, q - 1, s.pm) > 0) \/ ~(s.pm - (q - 1) <= room)
      BY <2>1, <3>2, <3>3
    <3>5. CASE ~(CMP(s.arr, q - 1, s.pm) > 0)
      <4>1. CMP(s.arr, q - 1, s.pm) <= 0
        <5>1. s.arr[q - 1] \in Nat /\ s.arr[s.pm] \in Nat
          <6>1. s.pm \in s.a .. s.pm
            BY <1>1
          <6> QED
            BY <1>2, <3>1, <6>1, ElementsNat
        <5> QED
          BY <1>3, <3>1, <3>5, <5>1
      <4> QED
        BY <2>1, <4>1
    <3>6. CASE ~(s.pm - (q - 1) <= room)
      <4>1. s.pm - q = room
        <5>1. s.pm \in Int /\ q \in Int /\ room \in Int /\ s.pm - q <= room
          BY <1>1, <1>4, <2>1
        <5> QED
          BY <3>6, <5>1
      <4> QED
        BY <2>1, <4>1
    <3> QED
      BY <3>4, <3>5, <3>6
  <2> QED
    BY <2>1, <2>2
<1>8. Place(s) \in s.a .. s.pm /\ Good(Place(s))
  <2>1. Place(s) = CHOOSE x \in s.a .. s.pm : Good(x)
    BY DEF Place, room
  <2> HIDE DEF Good
  <2> QED
    BY <1>6, <1>7, <2>1
<1>9. Place(s) # s.a => Place(s) - 1 \in s.a .. s.pm
  BY <1>1, <1>8
<1>10. \A k \in Place(s) .. s.pm - 1 : k \in s.a .. s.pm
  BY <1>1, <1>8
<1> QED
  BY <1>3, <1>8, <1>9, <1>10 DEF room

Ordered(vec, lo, hi) == \A j, k \in lo .. hi : j < k => vec[j] <= vec[k]

\* One element is inserted: it stays in the piece, what was ordered before it is
\* ordered with it unless the limit stopped it, and it never passes a cut.
LEMMA InsertStep ==
    ASSUME NEW s \in Inserting, s.pm < s.pn, s.swaps <= s.limit,
           NEW t, t = Insert(s, Place(s))
    PROVE  /\ t \in Inserting /\ t.a = s.a /\ t.pm = s.pm + 1 /\ t.pn = s.pn
           /\ t.limit = s.limit /\ t.swaps <= s.swaps + (s.pm - s.a)
           /\ Rearranged(s.arr, t.arr, s.a, s.pn - 1)
           /\ t.swaps <= t.limit /\ Ordered(s.arr, s.a, s.pm - 1) =>
                 Ordered(t.arr, s.a, s.pm)
           /\ \A b \in Int : Cut(s.arr, s.a, s.pn - 1, b) => Cut(t.arr, s.a, s.pn - 1, b)
<1> DEFINE vec == s.arr
           pm == s.pm
           q == Place(s)
           n == Len(vec)
           p == [k \in 1 .. n |-> IF k = q THEN pm ELSE IF k \in q + 1 .. pm THEN k - 1 ELSE k]
<1>1. /\ vec \in Seq(Elements) /\ vec \in [1 .. n -> Elements] /\ n \in Nat /\ DOMAIN vec = 1 .. n
      /\ s.a \in Nat /\ pm \in Nat /\ s.pn \in Nat /\ s.swaps \in Nat /\ s.limit \in Nat
      /\ 0 < s.a /\ s.a <= pm /\ pm < s.pn /\ s.pn <= n + 1
  BY ArrayFunction DEF Inserting
<1>2. /\ q \in s.a .. pm
      /\ \A k \in q .. pm - 1 : vec[k] > vec[pm]
      /\ \/ q = s.a \/ pm - q = s.limit + 1 - s.swaps \/ vec[q - 1] <= vec[pm]
  BY PlaceFound
<1>3. /\ t.arr = [k \in 1 .. n |-> IF k = q THEN vec[pm]
                                   ELSE IF k \in q + 1 .. pm THEN vec[k - 1] ELSE vec[k]]
      /\ t = [s EXCEPT !.arr = t.arr, !.swaps = s.swaps + pm - q, !.pm = pm + 1]
  <2>1. s \in [arr : Seq(Elements), a : Nat, pm : Nat, pn : Nat, swaps : Nat, limit : Nat]
    BY DEF Inserting
  <2>2. t.arr = [k \in DOMAIN vec |-> CASE k = q -> vec[pm]
                                        [] k \in q + 1 .. pm -> vec[k - 1]
                                        [] OTHER -> vec[k]]
    BY <2>1 DEF Insert
  <2>3. ASSUME NEW k \in 1 .. n
        PROVE  (CASE k = q -> vec[pm] [] k \in q + 1 .. pm -> vec[k - 1] [] OTHER -> vec[k])
                  = IF k = q THEN vec[pm] ELSE IF k \in q + 1 .. pm THEN vec[k - 1] ELSE vec[k]
    <3>1. k = q => k \notin q + 1 .. pm
      BY <1>2
    <3> HIDE DEF vec, pm, q, n, p
    <3> QED
      BY <3>1
  <2>4. t = [s EXCEPT !.arr = t.arr, !.swaps = s.swaps + pm - q, !.pm = pm + 1]
    BY <2>1 DEF Insert
  <2> HIDE DEF vec, pm, q, n, p
  <2> QED
    BY <1>1, <2>2, <2>3, <2>4
<1>4. /\ t.a = s.a /\ t.pn = s.pn /\ t.limit = s.limit /\ t.pm = pm + 1
      /\ t.swaps = s.swaps + pm - q
      /\ t \in [arr : {t.arr}, a : Nat, pm : Nat, pn : Nat, swaps : Nat, limit : Nat]
  <2>1. s \in [arr : Seq(Elements), a : Nat, pm : Nat, pn : Nat, swaps : Nat, limit : Nat]
    BY DEF Inserting
  <2>2. s.swaps + pm - q \in Nat /\ pm + 1 \in Nat
    <3>1. s.swaps \in Nat /\ pm \in Nat /\ s.a \in Nat /\ q \in s.a .. pm
      BY <1>1, <1>2
    <3> QED
      BY ONLY <3>1
  <2> HIDE DEF pm, q, vec, n, p
  <2> QED
    BY <1>3, <2>1, <2>2
<1> HIDE DEF vec, pm, q, n
<1>5. p \in Moves(n, s.a, s.pn - 1)
  <2> DEFINE r == [k \in 1 .. n |-> IF k = pm THEN q ELSE IF k \in q .. pm - 1 THEN k + 1 ELSE k]
  <2>1. p \in [1 .. n -> 1 .. n] /\ r \in [1 .. n -> 1 .. n]
    BY <1>1, <1>2
  <2>2. \A k \in 1 .. n : p[r[k]] = k
    BY <1>1, <1>2
  <2>3. \A k \in 1 .. n : r[p[k]] = k
    BY <1>1, <1>2
  <2>4. \A k \in 1 .. n : k \notin s.a .. s.pn - 1 => p[k] = k
    BY <1>1, <1>2
  <2> HIDE DEF p, r
  <2> QED
    BY <2>1, <2>2, <2>3, <2>4 DEF Moves
<1>6. t.arr = [k \in DOMAIN vec |-> vec[p[k]]]
  BY <1>1, <1>2, <1>3
<1>7. Rearranged(vec, t.arr, s.a, s.pn - 1)
  <2> HIDE DEF p
  <2> QED
    BY <1>1, <1>5, <1>6, RearrangedBy DEF n
<1>8. t \in Inserting
  <2>1. t.arr \in Seq(Elements) /\ Len(t.arr) = n
    BY <1>7 DEF Rearranged, n
  <2>2. t \in [arr : Seq(Elements), a : Nat, pm : Nat, pn : Nat, swaps : Nat, limit : Nat]
    BY <1>4, <2>1
  <2>3. 0 < t.a /\ t.a <= t.pm /\ t.pm <= t.pn /\ t.pn <= Len(t.arr) + 1
    BY <1>1, <1>4, <2>1
  <2> QED
    BY <2>2, <2>3 DEF Inserting
<1>9. \A k \in s.a .. s.pn - 1 : k \in 1 .. n /\ vec[k] \in Nat
  <2>1. \A k \in s.a .. s.pn - 1 : k \in 1 .. n
    BY <1>1
  <2>2. \A k \in 1 .. n : vec[k] \in Elements
    BY <1>1
  <2> QED
    BY <2>1, <2>2, ElementsNat
<1>10. ASSUME t.swaps <= t.limit, Ordered(vec, s.a, pm - 1)
       PROVE  Ordered(t.arr, s.a, pm)
  <2>1. q = s.a \/ vec[q - 1] <= vec[pm]
    <3>1. /\ s.swaps \in Nat /\ pm \in Nat /\ s.a \in Nat /\ s.limit \in Nat /\ q \in s.a .. pm
          /\ s.swaps + pm - q <= s.limit
      BY <1>1, <1>2, <1>4, <1>10
    <3>2. pm - q # s.limit + 1 - s.swaps
      BY ONLY <3>1
    <3> QED
      BY <1>2, <3>2
  <2>2. \A k \in s.a .. q - 1 : vec[k] <= vec[pm]
    <3>1. SUFFICES ASSUME NEW k \in s.a .. q - 1
                   PROVE  vec[k] <= vec[pm]
      OBVIOUS
    <3>2. q # s.a /\ q - 1 \in s.a .. pm - 1 /\ k \in s.a .. pm - 1 /\ pm \in s.a .. s.pn - 1
      BY <1>1, <1>2
    <3>3. vec[k] \in Nat /\ vec[q - 1] \in Nat /\ vec[pm] \in Nat
      <4>1. s.a \in Nat /\ pm \in Nat /\ s.pn \in Nat /\ pm < s.pn
        BY <1>1
      <4>2. k \in s.a .. s.pn - 1 /\ q - 1 \in s.a .. s.pn - 1
        BY ONLY <3>2, <4>1
      <4> QED
        BY <1>9, <3>2, <4>2
    <3>4. k = q - 1 \/ k < q - 1
      BY <1>1, <1>2
    <3>5. vec[k] <= vec[q - 1]
      BY <1>10, <3>2, <3>3, <3>4 DEF Ordered
    <3> QED
      BY <2>1, <3>2, <3>3, <3>5
  <2>3. SUFFICES ASSUME NEW j \in s.a .. pm, NEW k \in s.a .. pm, j < k
                 PROVE  t.arr[j] <= t.arr[k]
    BY DEF Ordered
  <2>4. j \in 1 .. n /\ k \in 1 .. n
    BY <1>1
  <2>11. \A l \in 1 .. n : /\ l < q => t.arr[l] = vec[l]
                           /\ l = q => t.arr[l] = vec[pm]
                           /\ q < l /\ l <= pm => t.arr[l] = vec[l - 1]
    BY <1>1, <1>2, <1>3
  <2>12. /\ s.a \in Nat /\ pm \in Nat /\ q \in s.a .. pm /\ j \in s.a .. pm /\ k \in s.a .. pm
         /\ j < k
    BY <1>1, <1>2, <2>3
  <2>5. CASE k < q
    <3>3. j < q
      BY ONLY <2>5, <2>12
    <3>1. t.arr[j] = vec[j] /\ t.arr[k] = vec[k]
      BY <2>4, <2>5, <2>11, <3>3
    <3>2. j \in s.a .. pm - 1 /\ k \in s.a .. pm - 1
      BY <1>1, <1>2, <2>3, <2>5
    <3> QED
      BY <1>10, <2>3, <3>1, <3>2 DEF Ordered
  <2>6. CASE j < q /\ k = q
    <3>2. j \in s.a .. q - 1
      BY ONLY <2>6, <2>12
    <3>1. t.arr[j] = vec[j] /\ t.arr[k] = vec[pm]
      BY <2>4, <2>6, <2>11
    <3> QED
      BY <2>2, <3>1, <3>2
  <2>7. CASE j < q /\ q < k
    <3>4. k <= pm
      BY ONLY <2>12
    <3>1. t.arr[j] = vec[j] /\ t.arr[k] = vec[k - 1]
      BY <2>4, <2>7, <2>11, <3>4
    <3>2. j \in s.a .. pm - 1 /\ k - 1 \in s.a .. pm - 1 /\ j <= k - 1
      BY <1>1, <1>2, <2>3, <2>7
    <3>3. vec[j] <= vec[k - 1]
      <4>1. j = k - 1 \/ j < k - 1
        BY <3>2
      <4>2. vec[j] \in Nat
        BY <1>1, <1>9, <3>2
      <4> QED
        BY <1>10, <3>2, <4>1, <4>2 DEF Ordered
    <3> QED
      BY <3>1, <3>3
  <2>8. CASE j = q
    <3>1. t.arr[j] = vec[pm] /\ t.arr[k] = vec[k - 1] /\ k - 1 \in q .. pm - 1
      <4>1. q < k /\ k <= pm /\ k - 1 \in q .. pm - 1
        BY ONLY <2>8, <2>12
      <4> QED
        BY <2>4, <2>8, <2>11, <4>1
    <3>2. vec[k - 1] \in Nat /\ vec[pm] \in Nat
      <4>1. k - 1 \in s.a .. s.pn - 1 /\ pm \in s.a .. s.pn - 1
        BY <1>1, <1>2, <3>1
      <4> QED
        BY <1>9, <4>1
    <3> QED
      BY <1>2, <3>1, <3>2
  <2>10. CASE q < j
    <3>1. t.arr[j] = vec[j - 1] /\ t.arr[k] = vec[k - 1]
      <4>1. q < j /\ j <= pm /\ q < k /\ k <= pm
        BY ONLY <2>10, <2>12
      <4> QED
        BY <2>4, <2>11, <4>1
    <3>2. j - 1 \in s.a .. pm - 1 /\ k - 1 \in s.a .. pm - 1 /\ j - 1 < k - 1
      BY <1>1, <1>2, <2>3, <2>10
    <3> QED
      BY <1>10, <3>1, <3>2 DEF Ordered
  <2> QED
    BY <1>1, <1>2, <2>3, <2>5, <2>6, <2>7, <2>8, <2>10
<1>11. ASSUME NEW b \in Int, Cut(vec, s.a, s.pn - 1, b)
       PROVE  Cut(t.arr, s.a, s.pn - 1, b)
  <2>1. SUFFICES ASSUME NEW j \in s.a .. b - 1, NEW k \in b .. s.pn - 1
                 PROVE  t.arr[j] <= t.arr[k]
    BY DEF Cut
  <2>2. CASE j > s.pn - 1 \/ k < s.a
    <3>1. CASE k \in s.a .. s.pn - 1
      <4>1. j > s.pn - 1
        BY <1>1, <2>2, <3>1
      <4>2. b > k
        BY <1>1, <3>1, <4>1
      <4> QED
        BY <4>2
    <3>2. CASE k \notin s.a .. s.pn - 1
      <4>1. k < s.a
        BY <1>1, <3>2
      <4>2. b < s.a /\ b > j
        BY <1>1, <4>1
      <4> QED
        BY <1>1, <4>2
    <3> QED
      BY <3>1, <3>2
  <2>3. CASE j <= s.pn - 1 /\ k >= s.a
    <3>1. j \in 1 .. n /\ k \in 1 .. n /\ j \in s.a .. s.pn - 1 /\ k \in s.a .. s.pn - 1
      BY <1>1, <2>3
    <3>2. ~(q < b /\ b <= pm)
      <4>1. SUFFICES ASSUME q < b, b <= pm PROVE FALSE
        OBVIOUS
      <4>2. q \in s.a .. b - 1 /\ pm \in b .. s.pn - 1 /\ q \in q .. pm - 1
        BY <1>1, <1>2, <4>1
      <4>3. vec[q] \in Nat /\ vec[pm] \in Nat
        BY <1>1, <1>2, <1>9
      <4> QED
        BY <1>2, <1>11, <4>2, <4>3 DEF Cut
    <3>3. t.arr[j] = vec[p[j]] /\ t.arr[k] = vec[p[k]]
      BY <1>1, <1>6, <3>1
    <3>4. p[j] \in s.a .. b - 1
      BY <1>1, <1>2, <3>1, <3>2
    <3>5. p[k] \in b .. s.pn - 1
      BY <1>1, <1>2, <3>1, <3>2
    <3> HIDE DEF p
    <3> QED
      BY <1>11, <3>3, <3>4, <3>5 DEF Cut
  <2> QED
    BY <1>1, <2>2, <2>3
<1>12. t.swaps <= s.swaps + (pm - s.a)
  BY <1>1, <1>2, <1>4
<1> HIDE DEF p
<1> QED
  BY <1>4, <1>7, <1>8, <1>10, <1>11, <1>12 DEF vec, pm

InsertStop == {s \in Inserting : s.pm = s.pn \/ s.swaps > s.limit}
InsertNext == [s \in Inserting |-> IF s \in InsertStop THEN s ELSE Insert(s, Place(s))]

\* The loop of the insertion sort stays in its states.
LEMMA InsertLoop ==
    /\ InsertNext \in [Inserting -> Inserting]
    /\ \A s \in Inserting :
          InsertAll[s] = IF s \in InsertStop THEN s ELSE InsertAll[InsertNext[s]]
<1>1. ASSUME NEW s \in Inserting, s \notin InsertStop
      PROVE  s.pm < s.pn /\ s.swaps <= s.limit
  BY <1>1 DEF InsertStop, Inserting
<1>2. InsertNext \in [Inserting -> Inserting]
  <2>1. \A s \in Inserting : s \notin InsertStop => Insert(s, Place(s)) \in Inserting
    BY <1>1, InsertStep
  <2> QED
    BY <2>1 DEF InsertNext
<1>3. InsertStop \in SUBSET Inserting
  BY DEF InsertStop
<1>4. \A f : [s \in Inserting |-> IF s \in InsertStop THEN s ELSE f[InsertNext[s]]]
               = [s \in Inserting |-> IF s.pm = s.pn \/ s.swaps > s.limit THEN s
                                      ELSE f[Insert(s, Place(s))]]
  BY DEF InsertStop, InsertNext
<1>5. \E f : f = [s \in Inserting |-> IF s \in InsertStop THEN s ELSE f[InsertNext[s]]]
  BY <1>2, <1>3, LoopExists
<1>6. \E f : f = [s \in Inserting |-> IF s.pm = s.pn \/ s.swaps > s.limit THEN s
                                      ELSE f[Insert(s, Place(s))]]
  BY <1>4, <1>5
<1>7. InsertAll = [s \in Inserting |-> IF s.pm = s.pn \/ s.swaps > s.limit THEN s
                                       ELSE InsertAll[Insert(s, Place(s))]]
  BY <1>6 DEF InsertAll
<1>8. InsertAll = [s \in Inserting |-> IF s \in InsertStop THEN s
                                       ELSE InsertAll[InsertNext[s]]]
  BY <1>4, <1>7
<1> QED
  BY <1>2, <1>8

\* An insertion that takes at most one exchange for each element before it keeps
\* the exchanges within n for each element inserted.
LEMMA MoreSwaps ==
    ASSUME NEW a \in Nat, NEW n \in Nat, NEW p \in Nat, NEW v \in Nat, NEW w \in Nat,
           a <= p, p < a + n, v <= w + (p - a), w <= (p - a) * n
    PROVE  v <= ((p + 1) - a) * n
<1> DEFINE d == p - a
           e == d * n
           f == (d + 1) * n
<1>1. d \in Nat /\ d <= n /\ (p + 1) - a = d + 1
  OBVIOUS
<1> HIDE DEF d
<1>2. e \in Nat /\ f = e + n
  BY <1>1
<1>3. w <= e /\ v <= w + d
  BY DEF d
<1> HIDE DEF e, f
<1>4. v <= f
  BY <1>1, <1>2, <1>3
<1> QED
  BY <1>1, <1>4 DEF f

\* Insertion sort of the n elements from a on orders them, unless it takes more
\* swaps than it may.  In any case it rearranges nothing but these elements and
\* leaves every cut a cut.
LEMMA InsertionSorts ==
    ASSUME NEW vec \in Seq(Elements), NEW a \in Nat \ {0}, NEW n \in Nat \ {0},
           a + n <= Len(vec) + 1, NEW limit \in Nat,
           NEW r, r = InsertionSort(vec, a, n, limit)
    PROVE  /\ r.swaps \in Nat
           /\ Rearranged(vec, r.arr, a, a + n - 1)
           /\ r.swaps <= limit => Ordered(r.arr, a, a + n - 1)
           /\ \A b \in Int : Cut(vec, a, a + n - 1, b) => Cut(r.arr, a, a + n - 1, b)
           /\ limit = n * n => r.swaps <= limit
<1> DEFINE s0 == [arr |-> vec, a |-> a, pm |-> a + 1, pn |-> a + n, swaps |-> 0, limit |-> limit]
           P == {s \in Inserting :
                    /\ s.a = a /\ s.pn = a + n /\ s.limit = limit
                    /\ Rearranged(vec, s.arr, a, a + n - 1)
                    /\ s.swaps <= limit => Ordered(s.arr, a, s.pm - 1)
                    /\ \A b \in Int : Cut(vec, a, a + n - 1, b) => Cut(s.arr, a, a + n - 1, b)
                    /\ s.swaps <= (s.pm - a) * n}
           m == [s \in Inserting |-> s.pn - s.pm]
<1>1. s0 \in P
  <2>1. s0 \in Inserting
    BY DEF Inserting
  <2>2. Rearranged(vec, vec, a, a + n - 1)
    BY RearrangedNot
  <2>3. Ordered(vec, a, a)
    BY DEF Ordered
  <2>4. 0 <= (s0.pm - a) * n
    BY DEF s0
  <2>5. s0.pm - 1 = a
    OBVIOUS
  <2> QED
    BY <2>1, <2>2, <2>3, <2>4, <2>5
<1>2. m \in [Inserting -> Nat]
  BY DEF Inserting
<1>3. ASSUME NEW s \in Inserting, s \notin InsertStop
      PROVE  /\ s.pm < s.pn /\ s.swaps <= s.limit /\ InsertNext[s] = Insert(s, Place(s))
             /\ m[InsertNext[s]] < m[s]
  <2>1. s.pm < s.pn /\ s.swaps <= s.limit /\ s.pm \in Nat /\ s.pn \in Nat
    BY <1>3 DEF InsertStop, Inserting
  <2>2. InsertNext[s] = Insert(s, Place(s))
    BY <1>3 DEF InsertNext
  <2> DEFINE t == Insert(s, Place(s))
  <2>3. t \in Inserting /\ t.pm = s.pm + 1 /\ t.pn = s.pn
    BY <2>1, InsertStep
  <2> HIDE DEF t
  <2>4. m[t] < m[s]
    BY <2>1, <2>3
  <2> QED
    BY <2>1, <2>2, <2>4 DEF t
<1>4. ASSUME NEW s \in P, s \notin InsertStop
      PROVE  InsertNext[s] \in P
  <2> DEFINE t == InsertNext[s]
  <2>1. s \in Inserting /\ s.a = a /\ s.pn = a + n /\ s.limit = limit
    OBVIOUS
  <2>2. s.pm < s.pn /\ s.swaps <= s.limit /\ t = Insert(s, Place(s))
    BY <1>3, <1>4
  <2> HIDE DEF t
  <2>3. /\ t \in Inserting /\ t.a = s.a /\ t.pm = s.pm + 1 /\ t.pn = s.pn
        /\ t.limit = s.limit /\ t.swaps <= s.swaps + (s.pm - s.a)
        /\ Rearranged(s.arr, t.arr, s.a, s.pn - 1)
        /\ t.swaps <= t.limit /\ Ordered(s.arr, s.a, s.pm - 1) => Ordered(t.arr, s.a, s.pm)
        /\ \A b \in Int : Cut(s.arr, s.a, s.pn - 1, b) => Cut(t.arr, s.a, s.pn - 1, b)
    BY <2>1, <2>2, InsertStep
  <2>4. Rearranged(vec, t.arr, a, a + n - 1)
    BY <2>1, <2>3, RearrangedTwice
  <2>5. t.swaps <= limit => Ordered(t.arr, a, t.pm - 1)
    <3>1. Ordered(s.arr, s.a, s.pm - 1)
      BY <2>1, <2>2
    <3>2. s.pm = t.pm - 1
      BY <2>3 DEF Inserting
    <3> QED
      BY <2>1, <2>3, <3>1, <3>2
  <2>6. t.swaps <= (t.pm - a) * n
    <3>1. s.pm \in Nat /\ s.swaps \in Nat /\ t.swaps \in Nat /\ a <= s.pm /\ s.pm < a + n
      BY <2>1, <2>2, <2>3 DEF Inserting
    <3>6. a \in Nat /\ n \in Nat /\ t.pm = s.pm + 1 /\ t.swaps <= s.swaps + (s.pm - a)
      BY <2>1, <2>3
    <3>2. t.swaps <= ((s.pm + 1) - a) * n
      BY <3>1, <3>6, MoreSwaps
    <3> QED
      BY <3>2, <3>6
  <2>7. \A b \in Int : Cut(vec, a, a + n - 1, b) => Cut(t.arr, a, a + n - 1, b)
    BY <2>1, <2>3
  <2> QED
    BY <2>1, <2>3, <2>4, <2>5, <2>6, <2>7 DEF t
<1>5. InsertStop \in SUBSET Inserting /\ P \in SUBSET Inserting
  BY DEF InsertStop
<1>6. r = InsertAll[s0]
  BY DEF InsertionSort
<1> HIDE DEF s0, P, m
<1>7. r \in P /\ r \in InsertStop
  <2>1. IsLoop(Inserting, InsertStop, InsertNext, InsertAll, m)
    BY <1>2, <1>3, <1>5, InsertLoop DEF IsLoop
  <2>2. StaysIn(P, Inserting, InsertStop, InsertNext)
    BY <1>4, <1>5 DEF StaysIn
  <2> QED
    BY <1>1, <1>6, <2>1, <2>2, LoopEnds
<1>8. r \in Inserting /\ (r.pm = r.pn \/ r.swaps > r.limit) /\ r.pn = a + n /\ r.limit = limit
      /\ r.pm \in Nat /\ r.swaps \in Nat /\ a <= r.pm /\ r.pm <= r.pn
  BY <1>7 DEF P, InsertStop, Inserting
<1>9. r.swaps <= limit => Ordered(r.arr, a, a + n - 1)
  <2>1. r.swaps <= limit => r.pm = a + n
    BY <1>8
  <2> QED
    BY <1>7, <2>1 DEF P
<1>10. limit = n * n => r.swaps <= limit
  <2> DEFINE d == r.pm - a
  <2>1. d \in Nat /\ d <= n /\ r.swaps <= d * n
    BY <1>7, <1>8 DEF P
  <2> HIDE DEF d
  <2>2. d * n <= n * n /\ d * n \in Nat /\ n * n \in Nat
    BY <2>1
  <2> QED
    BY <1>8, <2>1, <2>2
<1> QED
  BY <1>7, <1>8, <1>9, <1>10 DEF P

-----------------------------------------------------------------------------
(* The partition *)

\* What a swap does to the elements.
LEMMA SwapValues ==
    ASSUME NEW vec \in Seq(Elements), NEW i \in 1 .. Len(vec), NEW j \in 1 .. Len(vec)
    PROVE  /\ swap(vec, i, j)[i] = vec[j] /\ swap(vec, i, j)[j] = vec[i]
           /\ \A k \in 1 .. Len(vec) : k # i /\ k # j => swap(vec, i, j)[k] = vec[k]
<1>1. vec \in [1 .. Len(vec) -> Elements]
  BY ArrayFunction
<1> QED
  BY <1>1 DEF swap

\* What the pointers of the partition have left behind them, qc being its pc: equal
\* to the pivot, less, and from the right end equal and greater.
ZonesOf(vec, a, pn, pa, pb, qc, pd, v) ==
    /\ \A k \in a .. pa - 1 : vec[k] = v
    /\ \A k \in pa .. pb - 1 : vec[k] < v
    /\ \A k \in qc + 1 .. pd : vec[k] > v
    /\ \A k \in pd + 1 .. pn - 1 : vec[k] = v

Zones(s, v) == ZonesOf(s.arr, s.a, s.pn, s.pa, s.pb, s.pc, s.pd, v)

\* What a step of the partition has to show: it stays in its states and in the
\* piece, the pointers come closer, and the zones stay what they are.
ScanGoes(s, t) ==
    /\ t \in Scans /\ t.a = s.a /\ t.pn = s.pn /\ t.pc - t.pb < s.pc - s.pb
    /\ Rearranged(s.arr, t.arr, s.a, s.pn - 1)
    /\ \A v \in Elements : Zones(s, v) => Zones(t, v)

\* The fields of a state of the partition.
LEMMA ScanFields ==
    ASSUME NEW s \in Scans
    PROVE  /\ s.arr \in Seq(Elements) /\ s.arr \in [1 .. Len(s.arr) -> Elements]
           /\ Len(s.arr) \in Nat
           /\ s.a \in Nat /\ s.pn \in Nat /\ s.pa \in Nat /\ s.pb \in Nat /\ s.pc \in Nat
           /\ s.pd \in Nat /\ s.swap_cnt \in {0, 1}
           /\ 0 < s.a /\ s.a < s.pa /\ s.pa <= s.pb /\ s.pb <= s.pc + 1
           /\ s.pc <= s.pd /\ s.pd < s.pn /\ s.pn <= Len(s.arr) + 1
           /\ s = [arr |-> s.arr, a |-> s.a, pn |-> s.pn, pa |-> s.pa, pb |-> s.pb,
                   pc |-> s.pc, pd |-> s.pd, swap_cnt |-> s.swap_cnt]
<1>1. s \in [arr : Seq(Elements), a : Nat, pn : Nat, pa : Nat, pb : Nat, pc : Nat,
             pd : Nat, swap_cnt : {0, 1}]
  BY DEF Scans
<1>2. /\ s.arr \in Seq(Elements)
      /\ s.a \in Nat /\ s.pn \in Nat /\ s.pa \in Nat /\ s.pb \in Nat /\ s.pc \in Nat
      /\ s.pd \in Nat /\ s.swap_cnt \in {0, 1}
  BY <1>1
<1>3. /\ 0 < s.a /\ s.a < s.pa /\ s.pa <= s.pb /\ s.pb <= s.pc + 1
      /\ s.pc <= s.pd /\ s.pd < s.pn /\ s.pn <= Len(s.arr) + 1
  BY DEF Scans
<1>4. s = [arr |-> s.arr, a |-> s.a, pn |-> s.pn, pa |-> s.pa, pb |-> s.pb,
           pc |-> s.pc, pd |-> s.pd, swap_cnt |-> s.swap_cnt]
  BY <1>1
<1> QED
  BY <1>2, <1>3, <1>4, ArrayFunction

\* A step is one of five, by how the elements that the pointers are at compare
\* with the pivot.
ScanCase(s, t) ==
    \/ s.arr[s.pb] < s.arr[s.a] /\ t = [s EXCEPT !.pb = s.pb + 1]
    \/ s.arr[s.pb] = s.arr[s.a]
       /\ t = [s EXCEPT !.arr = swap(s.arr, s.pa, s.pb), !.swap_cnt = 1,
                        !.pa = s.pa + 1, !.pb = s.pb + 1]
    \/ s.arr[s.pc] > s.arr[s.a] /\ t = [s EXCEPT !.pc = s.pc - 1]
    \/ s.arr[s.pc] = s.arr[s.a]
       /\ t = [s EXCEPT !.arr = swap(s.arr, s.pc, s.pd), !.swap_cnt = 1,
                        !.pd = s.pd - 1, !.pc = s.pc - 1]
    \/ s.arr[s.pb] > s.arr[s.a] /\ s.arr[s.pc] < s.arr[s.a]
       /\ t = [s EXCEPT !.arr = swap(s.arr, s.pb, s.pc), !.swap_cnt = 1,
                        !.pb = s.pb + 1, !.pc = s.pc - 1]

\* Every step of the partition is one of these.
LEMMA ScanCases ==
    ASSUME NEW s \in Scans, s.pb <= s.pc, NEW t, t = ScanStep(s)
    PROVE  ScanCase(s, t)
<1> DEFINE x == s.arr[s.pb]
           y == s.arr[s.pc]
           v == s.arr[s.a]
           l == num_compare(x, v)
           r == num_compare(y, v)
<1>1. x \in Elements /\ y \in Elements /\ v \in Elements
  <2>1. s.pb \in 1 .. Len(s.arr) /\ s.pc \in 1 .. Len(s.arr) /\ s.a \in 1 .. Len(s.arr)
    BY ScanFields
  <2>2. s.arr \in [1 .. Len(s.arr) -> Elements]
    BY ScanFields
  <2> QED
    BY <2>1, <2>2
<1> HIDE DEF x, y, v
<1>2. /\ l \in Int /\ (l < 0 <=> x < v) /\ (l = 0 <=> x = v) /\ (l > 0 <=> x > v)
      /\ r \in Int /\ (r < 0 <=> y < v) /\ (r = 0 <=> y = v) /\ (r > 0 <=> y > v)
  BY <1>1, NumCompare
<1>3. t = CASE l < 0 -> [s EXCEPT !.pb = s.pb + 1]
            [] l = 0 -> [s EXCEPT !.arr = swap(s.arr, s.pa, s.pb), !.swap_cnt = 1,
                                  !.pa = s.pa + 1, !.pb = s.pb + 1]
            [] l > 0 /\ r > 0 -> [s EXCEPT !.pc = s.pc - 1]
            [] l > 0 /\ r = 0 -> [s EXCEPT !.arr = swap(s.arr, s.pc, s.pd), !.swap_cnt = 1,
                                           !.pd = s.pd - 1, !.pc = s.pc - 1]
            [] l > 0 /\ r < 0 -> [s EXCEPT !.arr = swap(s.arr, s.pb, s.pc), !.swap_cnt = 1,
                                           !.pb = s.pb + 1, !.pc = s.pc - 1]
  BY DEF ScanStep, CMP, x, y, v
<1> HIDE DEF l, r
<1>4. CASE l < 0
  <2>1. t = [s EXCEPT !.pb = s.pb + 1]
    BY <1>2, <1>3, <1>4
  <2> QED
    BY <1>2, <1>4, <2>1 DEF ScanCase, x, v
<1>5. CASE l = 0
  <2>1. t = [s EXCEPT !.arr = swap(s.arr, s.pa, s.pb), !.swap_cnt = 1,
                      !.pa = s.pa + 1, !.pb = s.pb + 1]
    BY <1>2, <1>3, <1>5
  <2> QED
    BY <1>2, <1>5, <2>1 DEF ScanCase, x, v
<1>6. CASE l > 0 /\ r > 0
  <2>1. t = [s EXCEPT !.pc = s.pc - 1]
    BY <1>2, <1>3, <1>6
  <2> QED
    BY <1>2, <1>6, <2>1 DEF ScanCase, y, v
<1>7. CASE l > 0 /\ r = 0
  <2>1. t = [s EXCEPT !.arr = swap(s.arr, s.pc, s.pd), !.swap_cnt = 1,
                      !.pd = s.pd - 1, !.pc = s.pc - 1]
    BY <1>2, <1>3, <1>7
  <2> QED
    BY <1>2, <1>7, <2>1 DEF ScanCase, y, v
<1>8. CASE l > 0 /\ r < 0
  <2>1. t = [s EXCEPT !.arr = swap(s.arr, s.pb, s.pc), !.swap_cnt = 1,
                      !.pb = s.pb + 1, !.pc = s.pc - 1]
    BY <1>2, <1>3, <1>8
  <2> QED
    BY <1>2, <1>8, <2>1 DEF ScanCase, x, y, v
<1> QED
  BY <1>2, <1>4, <1>5, <1>6, <1>7, <1>8

PointersOK(vec, a, pn, pa, pb, qc, pd, c) ==
    /\ vec \in Seq(Elements) /\ c \in {0, 1}
    /\ a \in Int /\ pn \in Int /\ pa \in Int /\ pb \in Int /\ qc \in Int /\ pd \in Int
    /\ 0 < a /\ a < pa /\ pa <= pb /\ pb <= qc + 1 /\ qc <= pd /\ pd < pn
    /\ pn <= Len(vec) + 1

\* Pointers that stay in the piece make a state of the partition.
LEMMA ScanMember ==
    ASSUME NEW vec, NEW a, NEW pn, NEW pa, NEW pb, NEW qc, NEW pd, NEW c,
           PointersOK(vec, a, pn, pa, pb, qc, pd, c)
    PROVE  [arr |-> vec, a |-> a, pn |-> pn, pa |-> pa, pb |-> pb, pc |-> qc,
            pd |-> pd, swap_cnt |-> c] \in Scans
<1>1. vec \in Seq(Elements) /\ a \in Nat /\ pn \in Nat /\ pa \in Nat /\ pb \in Nat
      /\ qc \in Nat /\ pd \in Nat /\ c \in {0, 1}
  BY DEF PointersOK
<1> QED
  BY <1>1 DEF Scans, PointersOK

\* Every step of the partition goes on as it should.
LEMMA ScanStepGoes ==
    ASSUME NEW s \in Scans, s.pb <= s.pc, NEW t, t = ScanStep(s)
    PROVE  ScanGoes(s, t)
<1> DEFINE vec == s.arr
           a == s.a
           pn == s.pn
           pa == s.pa
           pb == s.pb
           qc == s.pc
           pd == s.pd
           n == Len(vec)
<1>1. /\ vec \in Seq(Elements) /\ vec \in [1 .. n -> Elements] /\ n \in Nat
      /\ a \in Nat /\ pn \in Nat /\ pa \in Nat /\ pb \in Nat /\ qc \in Nat /\ pd \in Nat
      /\ 0 < a /\ a < pa /\ pa <= pb /\ pb <= qc /\ qc <= pd /\ pd < pn /\ pn <= n + 1
      /\ s.swap_cnt \in {0, 1}
      /\ s = [arr |-> vec, a |-> a, pn |-> pn, pa |-> pa, pb |-> pb, pc |-> qc, pd |-> pd,
              swap_cnt |-> s.swap_cnt]
  BY ScanFields
<1>2. \A k \in a .. pn - 1 : k \in 1 .. n
  BY <1>1
<1>3. pa \in a .. pn - 1 /\ pb \in a .. pn - 1 /\ qc \in a .. pn - 1 /\ pd \in a .. pn - 1
  BY <1>1
<1>4. pa \in 1 .. n /\ pb \in 1 .. n /\ qc \in 1 .. n /\ pd \in 1 .. n /\ a \in a .. pa - 1
  BY <1>1
<1>5. \A v : Zones(s, v) => vec[a] = v
  BY <1>4 DEF Zones, ZonesOf
<1>6. \A k \in 1 .. n : vec[k] \in Nat
  BY <1>1, ElementsNat
<1>7. Rearranged(vec, vec, a, pn - 1)
  BY <1>1, RearrangedNot
<1>13. /\ a \in Int /\ pn \in Int /\ pn - 1 \in Int /\ pa \in Int /\ pa + 1 \in Int
       /\ pb \in Int /\ pb + 1 \in Int /\ qc \in Int /\ qc - 1 \in Int
       /\ pd \in Int /\ pd - 1 \in Int
  BY <1>1
<1>14. /\ pa \in 1 .. Len(vec) /\ pb \in 1 .. Len(vec) /\ qc \in 1 .. Len(vec)
       /\ pd \in 1 .. Len(vec) /\ pn <= Len(vec) + 1 /\ Len(vec) = n
  BY <1>1, <1>4
<1>16. /\ vec \in Seq(Elements) /\ s.swap_cnt \in {0, 1} /\ Len(vec) \in Nat
       /\ a \in Nat /\ pn \in Nat /\ pa \in Nat /\ pb \in Nat /\ qc \in Nat /\ pd \in Nat
       /\ 0 < a /\ a < pa /\ pa <= pb /\ pb <= qc /\ qc <= pd /\ pd < pn /\ pn <= Len(vec) + 1
  BY <1>1
<1>8. CASE vec[pb] < vec[a] /\ t = [s EXCEPT !.pb = pb + 1]
  <2>1. t = [arr |-> vec, a |-> a, pn |-> pn, pa |-> pa, pb |-> pb + 1, pc |-> qc,
             pd |-> pd, swap_cnt |-> s.swap_cnt]
    BY <1>1, <1>8
  <2> HIDE DEF vec, a, pn, pa, pb, qc, pd, n
  <2>9. PointersOK(vec, a, pn, pa, pb + 1, qc, pd, s.swap_cnt)
    BY ONLY <1>16 DEF PointersOK
  <2>2. /\ t \in Scans /\ t.arr = vec /\ t.a = a /\ t.pn = pn /\ t.pa = pa /\ t.pb = pb + 1
        /\ t.pc = qc /\ t.pd = pd
    <3>1. t \in Scans
      BY <2>1, <2>9, ScanMember
    <3> QED
      BY <2>1, <3>1
  <2>3. ASSUME NEW v \in Elements, Zones(s, v)
        PROVE  Zones(t, v)
    <3>1. ZonesOf(vec, a, pn, pa, pb, qc, pd, v)
      BY <2>3 DEF Zones, vec, a, pn, pa, pb, qc, pd
    <3>2. vec[pb] < v
      BY <1>8, <1>5, <2>3
    <3>3. \A k \in pa .. pb + 1 - 1 : k = pb \/ k \in pa .. pb - 1
      BY <1>1
    <3>4. \A k \in pa .. pb + 1 - 1 : vec[k] < v
      BY <3>1, <3>2, <3>3 DEF ZonesOf
    <3>5. ZonesOf(vec, a, pn, pa, pb + 1, qc, pd, v)
      BY <1>13, <3>1, <3>4 DEF ZonesOf
    <3> QED
      BY <2>2, <3>5 DEF Zones
  <2>4. t.pc - t.pb < qc - pb
    BY <1>1, <2>2
  <2> QED
    BY <1>7, <2>2, <2>3, <2>4 DEF ScanGoes, vec, a, pn, pb, qc
<1>9. CASE vec[pb] = vec[a] /\ t = [s EXCEPT !.arr = swap(vec, pa, pb), !.swap_cnt = 1,
                                             !.pa = pa + 1, !.pb = pb + 1]
  <2> DEFINE res == swap(vec, pa, pb)
  <2>1. t = [arr |-> res, a |-> a, pn |-> pn, pa |-> pa + 1, pb |-> pb + 1, pc |-> qc,
             pd |-> pd, swap_cnt |-> 1]
    BY <1>1, <1>9
  <2> HIDE DEF vec, a, pn, pa, pb, qc, pd, n
  <2>2. Rearranged(vec, res, a, pn - 1)
    BY <1>1, <1>3, <1>13, <1>14, SwapRearranges
  <2>3. /\ res[pa] = vec[pb] /\ res[pb] = vec[pa]
        /\ \A k \in 1 .. n : k # pa /\ k # pb => res[k] = vec[k]
    BY <1>1, <1>14, SwapValues
  <2> HIDE DEF res
  <2>4. res \in Seq(Elements) /\ Len(res) = n
    BY <1>14, <2>2 DEF Rearranged
  <2>9. PointersOK(res, a, pn, pa + 1, pb + 1, qc, pd, 1)
    <3>1. 0 < a /\ a < pa + 1 /\ pa + 1 <= pb + 1 /\ pb + 1 <= qc + 1 /\ qc <= pd /\ pd < pn
      BY <1>1
    <3>2. res \in Seq(Elements) /\ pn <= Len(res) + 1
      BY <1>1, <2>4
    <3> QED
      BY <1>13, <3>1, <3>2 DEF PointersOK
  <2>5. /\ t \in Scans /\ t.arr = res /\ t.a = a /\ t.pn = pn /\ t.pa = pa + 1
        /\ t.pb = pb + 1 /\ t.pc = qc /\ t.pd = pd
    <3>1. t \in Scans
      BY <2>1, <2>9, ScanMember
    <3> QED
      BY <2>1, <3>1
  <2>6. ASSUME NEW v \in Elements, Zones(s, v)
        PROVE  Zones(t, v)
    <3>1. /\ \A k \in a .. pa - 1 : vec[k] = v
          /\ \A k \in pa .. pb - 1 : vec[k] < v
          /\ \A k \in qc + 1 .. pd : vec[k] > v
          /\ \A k \in pd + 1 .. pn - 1 : vec[k] = v
      BY <2>6 DEF Zones, ZonesOf, vec, a, pn, pa, pb, qc, pd
    <3>2. vec[pb] = v
      BY <1>5, <1>9, <2>6
    <3>3. \A k \in a .. pa + 1 - 1 : res[k] = v
      <4>1. \A k \in a .. pa + 1 - 1 : k = pa \/ (k \in a .. pa - 1 /\ k # pb /\ k \in 1 .. n)
        BY <1>1
      <4> QED
        BY <2>3, <3>1, <3>2, <4>1
    <3>4. \A k \in pa + 1 .. pb + 1 - 1 : res[k] < v
      <4>1. \A k \in pa + 1 .. pb + 1 - 1 :
                \/ k = pb /\ pa \in pa .. pb - 1
                \/ k \in pa .. pb - 1 /\ k # pa /\ k # pb /\ k \in 1 .. n
        BY <1>1
      <4> QED
        BY <2>3, <3>1, <4>1
    <3>5. \A k \in qc + 1 .. pn - 1 : res[k] = vec[k]
      <4>1. \A k \in qc + 1 .. pn - 1 : k # pa /\ k # pb /\ k \in 1 .. n
        BY <1>1
      <4> QED
        BY <2>3, <4>1
    <3>6. \A k \in qc + 1 .. pd : k \in qc + 1 .. pn - 1
      BY <1>1
    <3>7. \A k \in pd + 1 .. pn - 1 : k \in qc + 1 .. pn - 1
      BY <1>1
    <3>8. ZonesOf(res, a, pn, pa + 1, pb + 1, qc, pd, v)
      BY <1>13, <3>1, <3>3, <3>4, <3>5, <3>6, <3>7 DEF ZonesOf
    <3> QED
      BY <2>5, <3>8 DEF Zones
  <2>7. t.pc - t.pb < qc - pb
    BY <1>1, <2>5
  <2> QED
    BY <2>2, <2>5, <2>6, <2>7 DEF ScanGoes, vec, a, pn, pb, qc
<1>10. CASE vec[qc] > vec[a] /\ t = [s EXCEPT !.pc = qc - 1]
  <2>1. t = [arr |-> vec, a |-> a, pn |-> pn, pa |-> pa, pb |-> pb, pc |-> qc - 1,
             pd |-> pd, swap_cnt |-> s.swap_cnt]
    BY <1>1, <1>10
  <2> HIDE DEF vec, a, pn, pa, pb, qc, pd, n
  <2>9. PointersOK(vec, a, pn, pa, pb, qc - 1, pd, s.swap_cnt)
    BY ONLY <1>16 DEF PointersOK
  <2>2. /\ t \in Scans /\ t.arr = vec /\ t.a = a /\ t.pn = pn /\ t.pa = pa /\ t.pb = pb
        /\ t.pc = qc - 1 /\ t.pd = pd
    <3>1. t \in Scans
      BY <2>1, <2>9, ScanMember
    <3> QED
      BY <2>1, <3>1
  <2>3. ASSUME NEW v \in Elements, Zones(s, v)
        PROVE  Zones(t, v)
    <3>1. ZonesOf(vec, a, pn, pa, pb, qc, pd, v)
      BY <2>3 DEF Zones, vec, a, pn, pa, pb, qc, pd
    <3>2. vec[qc] > v
      BY <1>10, <1>5, <2>3
    <3>3. \A k \in qc - 1 + 1 .. pd : k = qc \/ k \in qc + 1 .. pd
      BY <1>1
    <3>4. \A k \in qc - 1 + 1 .. pd : vec[k] > v
      BY <3>1, <3>2, <3>3 DEF ZonesOf
    <3>5. ZonesOf(vec, a, pn, pa, pb, qc - 1, pd, v)
      BY <1>13, <3>1, <3>4 DEF ZonesOf
    <3> QED
      BY <2>2, <3>5 DEF Zones
  <2>4. t.pc - t.pb < qc - pb
    BY <1>1, <2>2
  <2> QED
    BY <1>7, <2>2, <2>3, <2>4 DEF ScanGoes, vec, a, pn, pb, qc
<1>11. CASE vec[qc] = vec[a] /\ t = [s EXCEPT !.arr = swap(vec, qc, pd), !.swap_cnt = 1,
                                              !.pd = pd - 1, !.pc = qc - 1]
  <2> DEFINE res == swap(vec, qc, pd)
  <2>1. t = [arr |-> res, a |-> a, pn |-> pn, pa |-> pa, pb |-> pb, pc |-> qc - 1,
             pd |-> pd - 1, swap_cnt |-> 1]
    BY <1>1, <1>11
  <2> HIDE DEF vec, a, pn, pa, pb, qc, pd, n
  <2>2. Rearranged(vec, res, a, pn - 1)
    BY <1>1, <1>3, <1>13, <1>14, SwapRearranges
  <2>3. /\ res[qc] = vec[pd] /\ res[pd] = vec[qc]
        /\ \A k \in 1 .. n : k # qc /\ k # pd => res[k] = vec[k]
    BY <1>1, <1>14, SwapValues
  <2> HIDE DEF res
  <2>4. res \in Seq(Elements) /\ Len(res) = n
    BY <1>14, <2>2 DEF Rearranged
  <2>9. PointersOK(res, a, pn, pa, pb, qc - 1, pd - 1, 1)
    <3>1. 0 < a /\ a < pa /\ pa <= pb /\ pb <= qc - 1 + 1 /\ qc - 1 <= pd - 1 /\ pd - 1 < pn
      BY <1>1
    <3>2. res \in Seq(Elements) /\ pn <= Len(res) + 1
      BY <1>1, <2>4
    <3> QED
      BY <1>13, <3>1, <3>2 DEF PointersOK
  <2>5. /\ t \in Scans /\ t.arr = res /\ t.a = a /\ t.pn = pn /\ t.pa = pa
        /\ t.pb = pb /\ t.pc = qc - 1 /\ t.pd = pd - 1
    <3>1. t \in Scans
      BY <2>1, <2>9, ScanMember
    <3> QED
      BY <2>1, <3>1
  <2>6. ASSUME NEW v \in Elements, Zones(s, v)
        PROVE  Zones(t, v)
    <3>1. /\ \A k \in a .. pa - 1 : vec[k] = v
          /\ \A k \in pa .. pb - 1 : vec[k] < v
          /\ \A k \in qc + 1 .. pd : vec[k] > v
          /\ \A k \in pd + 1 .. pn - 1 : vec[k] = v
      BY <2>6 DEF Zones, ZonesOf, vec, a, pn, pa, pb, qc, pd
    <3>2. vec[qc] = v
      BY <1>5, <1>11, <2>6
    <3>3. \A k \in pd - 1 + 1 .. pn - 1 : res[k] = v
      <4>1. \A k \in pd - 1 + 1 .. pn - 1 :
                k = pd \/ (k \in pd + 1 .. pn - 1 /\ k # qc /\ k # pd /\ k \in 1 .. n)
        BY <1>1
      <4> QED
        BY <2>3, <3>1, <3>2, <4>1
    <3>4. \A k \in qc - 1 + 1 .. pd - 1 : res[k] > v
      <4>1. \A k \in qc - 1 + 1 .. pd - 1 :
                \/ k = qc /\ pd \in qc + 1 .. pd
                \/ k \in qc + 1 .. pd /\ k # qc /\ k # pd /\ k \in 1 .. n
        BY <1>1
      <4> QED
        BY <2>3, <3>1, <4>1
    <3>5. \A k \in a .. pb - 1 : res[k] = vec[k]
      <4>1. \A k \in a .. pb - 1 : k # qc /\ k # pd /\ k \in 1 .. n
        BY <1>1
      <4> QED
        BY <2>3, <4>1
    <3>6. \A k \in a .. pa - 1 : k \in a .. pb - 1
      BY <1>1
    <3>7. \A k \in pa .. pb - 1 : k \in a .. pb - 1
      BY <1>1
    <3>8. ZonesOf(res, a, pn, pa, pb, qc - 1, pd - 1, v)
      BY <1>13, <3>1, <3>3, <3>4, <3>5, <3>6, <3>7 DEF ZonesOf
    <3> QED
      BY <2>5, <3>8 DEF Zones
  <2>7. t.pc - t.pb < qc - pb
    BY <1>1, <2>5
  <2> QED
    BY <2>2, <2>5, <2>6, <2>7 DEF ScanGoes, vec, a, pn, pb, qc
<1>12. CASE /\ vec[pb] > vec[a] /\ vec[qc] < vec[a]
            /\ t = [s EXCEPT !.arr = swap(vec, pb, qc), !.swap_cnt = 1,
                             !.pb = pb + 1, !.pc = qc - 1]
  <2> DEFINE res == swap(vec, pb, qc)
  <2>1. t = [arr |-> res, a |-> a, pn |-> pn, pa |-> pa, pb |-> pb + 1, pc |-> qc - 1,
             pd |-> pd, swap_cnt |-> 1]
    BY <1>1, <1>12
  <2> HIDE DEF vec, a, pn, pa, pb, qc, pd, n
  <2>2. Rearranged(vec, res, a, pn - 1)
    BY <1>1, <1>3, <1>13, <1>14, SwapRearranges
  <2>3. /\ res[pb] = vec[qc] /\ res[qc] = vec[pb]
        /\ \A k \in 1 .. n : k # pb /\ k # qc => res[k] = vec[k]
    BY <1>1, <1>14, SwapValues
  <2> HIDE DEF res
  <2>4. res \in Seq(Elements) /\ Len(res) = n
    BY <1>14, <2>2 DEF Rearranged
  <2>8. pb < qc
    <3>1. vec[pb] \in Nat /\ vec[qc] \in Nat /\ vec[a] \in Nat
      BY <1>1, <1>2, <1>4, <1>6
    <3>2. pb # qc
      BY <1>12, <3>1
    <3> QED
      BY <1>1, <3>2
  <2>9. PointersOK(res, a, pn, pa, pb + 1, qc - 1, pd, 1)
    <3>1. 0 < a /\ a < pa /\ pa <= pb + 1 /\ pb + 1 <= qc - 1 + 1 /\ qc - 1 <= pd /\ pd < pn
      BY <1>1, <2>8
    <3>2. res \in Seq(Elements) /\ pn <= Len(res) + 1
      BY <1>1, <2>4
    <3> QED
      BY <1>13, <3>1, <3>2 DEF PointersOK
  <2>5. /\ t \in Scans /\ t.arr = res /\ t.a = a /\ t.pn = pn /\ t.pa = pa
        /\ t.pb = pb + 1 /\ t.pc = qc - 1 /\ t.pd = pd
    <3>1. t \in Scans
      BY <2>1, <2>9, ScanMember
    <3> QED
      BY <2>1, <3>1
  <2>6. ASSUME NEW v \in Elements, Zones(s, v)
        PROVE  Zones(t, v)
    <3>1. /\ \A k \in a .. pa - 1 : vec[k] = v
          /\ \A k \in pa .. pb - 1 : vec[k] < v
          /\ \A k \in qc + 1 .. pd : vec[k] > v
          /\ \A k \in pd + 1 .. pn - 1 : vec[k] = v
      BY <2>6 DEF Zones, ZonesOf, vec, a, pn, pa, pb, qc, pd
    <3>2. vec[pb] > v /\ vec[qc] < v
      BY <1>5, <1>12, <2>6
    <3>3. \A k \in a .. pa - 1 : res[k] = v
      <4>1. \A k \in a .. pa - 1 : k # pb /\ k # qc /\ k \in 1 .. n
        BY <1>1
      <4> QED
        BY <2>3, <3>1, <4>1
    <3>4. \A k \in pa .. pb + 1 - 1 : res[k] < v
      <4>1. \A k \in pa .. pb + 1 - 1 :
                k = pb \/ (k \in pa .. pb - 1 /\ k # pb /\ k # qc /\ k \in 1 .. n)
        BY <1>1
      <4> QED
        BY <2>3, <3>1, <3>2, <4>1
    <3>5. \A k \in qc - 1 + 1 .. pd : res[k] > v
      <4>1. \A k \in qc - 1 + 1 .. pd :
                k = qc \/ (k \in qc + 1 .. pd /\ k # pb /\ k # qc /\ k \in 1 .. n)
        BY <1>1
      <4> QED
        BY <2>3, <3>1, <3>2, <4>1
    <3>6. \A k \in pd + 1 .. pn - 1 : res[k] = v
      <4>1. \A k \in pd + 1 .. pn - 1 : k # pb /\ k # qc /\ k \in 1 .. n
        BY <1>1
      <4> QED
        BY <2>3, <3>1, <4>1
    <3>8. ZonesOf(res, a, pn, pa, pb + 1, qc - 1, pd, v)
      BY <1>13, <3>3, <3>4, <3>5, <3>6 DEF ZonesOf
    <3> QED
      BY <2>5, <3>8 DEF Zones
  <2>7. t.pc - t.pb < qc - pb
    BY <1>1, <2>5
  <2> QED
    BY <2>2, <2>5, <2>6, <2>7 DEF ScanGoes, vec, a, pn, pb, qc
<1>15. \/ vec[pb] < vec[a] /\ t = [s EXCEPT !.pb = pb + 1]
       \/ vec[pb] = vec[a] /\ t = [s EXCEPT !.arr = swap(vec, pa, pb), !.swap_cnt = 1,
                                            !.pa = pa + 1, !.pb = pb + 1]
       \/ vec[qc] > vec[a] /\ t = [s EXCEPT !.pc = qc - 1]
       \/ vec[qc] = vec[a] /\ t = [s EXCEPT !.arr = swap(vec, qc, pd), !.swap_cnt = 1,
                                            !.pd = pd - 1, !.pc = qc - 1]
       \/ vec[pb] > vec[a] /\ vec[qc] < vec[a]
          /\ t = [s EXCEPT !.arr = swap(vec, pb, qc), !.swap_cnt = 1,
                           !.pb = pb + 1, !.pc = qc - 1]
  <2>1. ScanCase(s, t)
    BY ScanCases
  <2> QED
    BY <2>1 DEF ScanCase
<1> HIDE DEF vec, a, pn, pa, pb, qc, pd, n
<1> QED
  BY <1>8, <1>9, <1>10, <1>11, <1>12, <1>15

\* The least of two numbers.
LEMMA MinOfTwo ==
    ASSUME NEW x \in Int, NEW y \in Int
    PROVE  Min({x, y}) = IF x <= y THEN x ELSE y
<1> DEFINE m == IF x <= y THEN x ELSE y
<1>1. m \in {x, y} /\ \A z \in {x, y} : m <= z
  OBVIOUS
<1>2. \A w \in {x, y} : (\A z \in {x, y} : w <= z) => w = m
  OBVIOUS
<1> HIDE DEF m
<1> QED
  BY <1>1, <1>2 DEF Min, m

\* Two neighbouring parts, lo to mid - 1 and mid to hi, change sides when as many
\* elements as the shorter one has are exchanged between the ends.
ChangedSides(vec, res, lo, mid, hi) ==
    /\ \A k \in lo .. lo + hi - mid : \E j \in mid .. hi : res[k] = vec[j]
    /\ \A k \in lo + hi - mid + 1 .. hi : \E j \in lo .. mid - 1 : res[k] = vec[j]
    /\ \A k \in 1 .. Len(vec) : k \notin lo .. hi => res[k] = vec[k]

\* An exchange of the ends makes two neighbouring parts change sides.
LEMMA PartsChangeSides ==
    ASSUME NEW vec \in Seq(Elements), NEW l \in Int, NEW h \in Int,
           NEW lo \in Int, NEW mid \in Int, NEW hi \in Int,
           0 < lo, lo <= mid, mid <= hi + 1, hi <= Len(vec), l <= lo, hi <= h,
           NEW m \in Nat, m <= mid - lo, m <= hi + 1 - mid,
           m = mid - lo \/ m = hi + 1 - mid
    PROVE  /\ Rearranged(vec, vecswap(vec, lo, hi + 1 - m, m), l, h)
           /\ ChangedSides(vec, vecswap(vec, lo, hi + 1 - m, m), lo, mid, hi)
<1> DEFINE n == Len(vec)
           x == mid - lo
           y == hi + 1 - mid
           e == hi + 1 - m
           res == vecswap(vec, lo, e, m)
<1>1. n \in Nat
  OBVIOUS
<1>2. x \in Nat /\ y \in Nat /\ mid = lo + x /\ hi = lo + x + y - 1
  OBVIOUS
<1>4. m \in Nat /\ m <= x /\ m <= y /\ (m = x \/ m = y)
  OBVIOUS
<1>5. e \in Int /\ e = lo + x + y - m /\ lo + m <= e /\ e + m - 1 = hi
  OBVIOUS
<1> HIDE DEF n, x, y, e
<1>7. e + m - 1 <= Len(vec) /\ l <= lo /\ e + m - 1 <= h
  BY <1>1, <1>5 DEF n
<1>8. Rearranged(vec, res, l, h) /\ Exchanged(vec, res, lo, e, m)
  <2>1. 0 < lo /\ lo + m <= e /\ e + m - 1 <= Len(vec) /\ l <= lo /\ e + m - 1 <= h
    BY <1>5, <1>7
  <2>2. vec \in Seq(Elements) /\ l \in Int /\ h \in Int /\ lo \in Int /\ e \in Int /\ m \in Nat
    BY <1>5
  <2> QED
    BY <2>1, <2>2, VecswapRearranges
<1>9. /\ Rearranged(vec, res, l, h)
      /\ \A k \in lo .. lo + m - 1 : res[k] = vec[k - lo + e]
      /\ \A k \in e .. hi : res[k] = vec[k - e + lo]
      /\ \A k \in 1 .. n : k \notin lo .. lo + m - 1 /\ k \notin e .. hi => res[k] = vec[k]
  BY <1>5, <1>8 DEF n, Exchanged
<1> HIDE DEF res
<1>10. ASSUME NEW k \in lo .. lo + hi - mid
       PROVE  \E j \in mid .. hi : res[k] = vec[j]
  <2>1. k \in Int /\ lo <= k /\ k <= lo + y - 1
    BY <1>2
  <2>2. CASE k <= lo + m - 1
    <3>1. k \in lo .. lo + m - 1
      BY <2>1, <2>2, <1>4
    <3>2. k - lo + e \in mid .. hi
      BY <1>2, <1>4, <1>5, <2>1, <2>2
    <3> QED
      BY <1>9, <3>1, <3>2
  <2>3. CASE k > lo + m - 1
    <3>1. m = x
      BY <1>2, <1>4, <2>1, <2>3
    <3>2. k \in mid .. hi
      BY <1>2, <2>1, <2>3, <3>1
    <3>3. k \in 1 .. n /\ k \notin lo .. lo + m - 1 /\ k \notin e .. hi
      BY <1>1, <1>2, <1>4, <1>5, <2>1, <2>3, <3>1 DEF n
    <3> QED
      BY <1>9, <3>2, <3>3
  <2>4. k <= lo + m - 1 \/ k > lo + m - 1
    BY <1>4, <2>1
  <2> QED
    BY <2>2, <2>3, <2>4
<1>11. ASSUME NEW k \in lo + hi - mid + 1 .. hi
       PROVE  \E j \in lo .. mid - 1 : res[k] = vec[j]
  <2>1. k \in Int /\ lo + y <= k /\ k <= hi
    BY <1>2
  <2>2. CASE k >= e
    <3>1. k \in e .. hi
      BY <1>5, <2>1, <2>2
    <3>2. k - e + lo \in lo .. mid - 1
      BY <1>2, <1>4, <1>5, <2>1, <2>2
    <3> QED
      BY <1>9, <3>1, <3>2
  <2>3. CASE k < e
    <3>1. m = y
      BY <1>2, <1>4, <1>5, <2>1, <2>3
    <3>2. k \in lo .. mid - 1
      BY <1>2, <1>5, <2>1, <2>3, <3>1
    <3>3. k \in 1 .. n /\ k \notin lo .. lo + m - 1 /\ k \notin e .. hi
      BY <1>1, <1>2, <1>4, <1>5, <2>1, <2>3, <3>1 DEF n
    <3> QED
      BY <1>9, <3>2, <3>3
  <2> QED
    BY <1>5, <2>1, <2>2, <2>3
<1>12. ASSUME NEW k \in 1 .. n, k \notin lo .. hi
       PROVE  res[k] = vec[k]
  <2>1. k \notin lo .. lo + m - 1 /\ k \notin e .. hi
    BY <1>1, <1>2, <1>4, <1>5, <1>12
  <2> QED
    BY <1>9, <2>1
<1>13. Rearranged(vec, res, l, h) /\ ChangedSides(vec, res, lo, mid, hi)
  BY <1>9, <1>10, <1>11, <1>12 DEF n, ChangedSides
<1> QED
  BY <1>13 DEF res, e

\* The pivot is one of the elements.
LEMMA PivotInside ==
    ASSUME NEW vec, NEW a \in Nat, NEW n \in Nat, SMALL <= n
    PROVE  Pivot(vec, a, n) \in a .. a + n - 1
<1>1. n >= 2 /\ (n > NINTHER => n >= 3)
  BY QsortAssumption
<1>2. \A x, y, z \in a .. a + n - 1 : med3(vec, x, y, z) \in a .. a + n - 1
  BY DEF med3
<1> DEFINE d == n \div 8
           m == n \div 2
<1>3. d \in Nat /\ m \in Nat /\ m <= n - 1 /\ 2 * d <= n - 1 /\ d <= m
  BY <1>1
<1>4. n >= 3 => m + d <= n - 1
  OBVIOUS
<1>5. Pivot(vec, a, n) =
          IF n <= SMALL THEN a + m
          ELSE IF n <= NINTHER THEN med3(vec, a, a + m, a + n - 1)
          ELSE med3(vec, med3(vec, a, a + d, a + 2 * d),
                         med3(vec, a + m - d, a + m, a + m + d),
                         med3(vec, a + n - 1 - 2 * d, a + n - 1 - d, a + n - 1))
  BY DEF Pivot
<1> HIDE DEF d, m
<1>6. /\ a \in a .. a + n - 1 /\ a + m \in a .. a + n - 1 /\ a + n - 1 \in a .. a + n - 1
      /\ a + d \in a .. a + n - 1 /\ a + 2 * d \in a .. a + n - 1
      /\ a + m - d \in a .. a + n - 1
      /\ a + n - 1 - 2 * d \in a .. a + n - 1 /\ a + n - 1 - d \in a .. a + n - 1
      /\ (n >= 3 => a + m + d \in a .. a + n - 1)
  BY <1>1, <1>3, <1>4
<1>7. CASE n <= SMALL
  BY <1>5, <1>6, <1>7
<1>8. CASE ~(n <= SMALL) /\ n <= NINTHER
  BY <1>2, <1>5, <1>6, <1>8
<1>9. CASE ~(n <= SMALL) /\ ~(n <= NINTHER)
  <2>1. n >= 3
    BY <1>1, <1>9, QsortAssumption
  <2>2. /\ med3(vec, a, a + d, a + 2 * d) \in a .. a + n - 1
        /\ med3(vec, a + m - d, a + m, a + m + d) \in a .. a + n - 1
        /\ med3(vec, a + n - 1 - 2 * d, a + n - 1 - d, a + n - 1) \in a .. a + n - 1
    BY <1>2, <1>6, <2>1
  <2> QED
    BY <1>2, <1>5, <1>9, <2>2
<1> QED
  BY <1>7, <1>8, <1>9

ScanStop == {s \in Scans : s.pb > s.pc}
ScanNext == [s \in Scans |-> IF s \in ScanStop THEN s ELSE ScanStep(s)]

\* The loop of the partition stays in its states.
LEMMA ScanLoop ==
    /\ ScanNext \in [Scans -> Scans]
    /\ \A s \in Scans : Scan[s] = IF s \in ScanStop THEN s ELSE Scan[ScanNext[s]]
<1>1. ASSUME NEW s \in Scans, s \notin ScanStop
      PROVE  s.pb <= s.pc
  <2>1. s.pb \in Nat /\ s.pc \in Nat
    BY ScanFields
  <2> QED
    BY <1>1, <2>1 DEF ScanStop
<1>2. ScanNext \in [Scans -> Scans]
  <2>1. \A s \in Scans : s \notin ScanStop => ScanStep(s) \in Scans
    BY <1>1, ScanStepGoes DEF ScanGoes
  <2> QED
    BY <2>1 DEF ScanNext
<1>3. ScanStop \in SUBSET Scans
  BY DEF ScanStop
<1>4. \A f : [s \in Scans |-> IF s \in ScanStop THEN s ELSE f[ScanNext[s]]]
               = [s \in Scans |-> IF s.pb > s.pc THEN s ELSE f[ScanStep(s)]]
  BY DEF ScanStop, ScanNext
<1>5. \E f : f = [s \in Scans |-> IF s \in ScanStop THEN s ELSE f[ScanNext[s]]]
  BY <1>2, <1>3, LoopExists
<1>6. \E f : f = [s \in Scans |-> IF s.pb > s.pc THEN s ELSE f[ScanStep(s)]]
  BY <1>4, <1>5
<1>7. Scan = [s \in Scans |-> IF s.pb > s.pc THEN s ELSE Scan[ScanStep(s)]]
  BY <1>6 DEF Scan
<1>8. Scan = [s \in Scans |-> IF s \in ScanStop THEN s ELSE Scan[ScanNext[s]]]
  BY <1>4, <1>7
<1> QED
  BY <1>2, <1>8

\* e is a state in which the partition of the n elements from a on may end.
PartitionEnds(vec, a, n, e) ==
    /\ e \in Scans /\ e.a = a /\ e.pn = a + n /\ e.pb = e.pc + 1
    /\ Rearranged(vec, e.arr, a, a + n - 1)
    /\ \E v \in Elements : Zones(e, v)

\* The state in which the partition begins.
LEMMA ScanBegins ==
    ASSUME NEW vec \in Seq(Elements), NEW a \in Nat \ {0}, NEW n \in Nat,
           SMALL <= n, a + n <= Len(vec) + 1,
           NEW s, s = ScanInit(vec, a, n)
    PROVE  /\ s \in Scans /\ s.a = a /\ s.pn = a + n
           /\ Rearranged(vec, s.arr, a, a + n - 1)
           /\ \E v \in Elements : Zones(s, v)
<1> DEFINE p == Pivot(vec, a, n)
           res == swap(vec, a, p)
<1>1. n >= 2 /\ Len(vec) \in Nat
  BY QsortAssumption
<1>2. p \in a .. a + n - 1
  BY PivotInside
<1> HIDE DEF p
<1>3. a \in 1 .. Len(vec) /\ p \in 1 .. Len(vec) /\ a \in a .. a + n - 1
  BY <1>1, <1>2
<1>4. Rearranged(vec, res, a, a + n - 1)
  <2>1. a \in Int /\ a + n - 1 \in Int
    OBVIOUS
  <2> QED
    BY <1>2, <1>3, <2>1, SwapRearranges
<1> HIDE DEF res
<1>5. res \in Seq(Elements) /\ Len(res) = Len(vec)
  BY <1>4 DEF Rearranged
<1>6. s = [arr |-> res, a |-> a, pn |-> a + n, pa |-> a + 1, pb |-> a + 1,
           pc |-> a + n - 1, pd |-> a + n - 1, swap_cnt |-> 0]
  BY DEF ScanInit, res, p
<1>7. PointersOK(res, a, a + n, a + 1, a + 1, a + n - 1, a + n - 1, 0)
  BY <1>1, <1>5 DEF PointersOK
<1>8. s \in Scans
  BY <1>6, <1>7, ScanMember
<1>9. res[a] \in Elements
  <2>1. res \in [1 .. Len(vec) -> Elements]
    BY <1>5, ArrayFunction
  <2> QED
    BY <1>3, <2>1
<1>10. ZonesOf(res, a, a + n, a + 1, a + 1, a + n - 1, a + n - 1, res[a])
  <2>1. \A k \in a .. a + 1 - 1 : k = a
    OBVIOUS
  <2>2. \A k \in a + 1 .. a + 1 - 1 : FALSE
    OBVIOUS
  <2>3. \A k \in a + n - 1 + 1 .. a + n - 1 : FALSE
    OBVIOUS
  <2> QED
    BY <2>1, <2>2, <2>3 DEF ZonesOf
<1>11. s.arr = res /\ s.a = a /\ s.pn = a + n /\ Zones(s, res[a])
  BY <1>6, <1>10 DEF Zones
<1> QED
  BY <1>4, <1>8, <1>9, <1>11

\* The partition ends, its pointers side by side.
LEMMA PartitionResult ==
    ASSUME NEW vec \in Seq(Elements), NEW a \in Nat \ {0}, NEW n \in Nat,
           SMALL <= n, a + n <= Len(vec) + 1
    PROVE  PartitionEnds(vec, a, n, Scan[ScanInit(vec, a, n)])
<1> DEFINE s0 == ScanInit(vec, a, n)
           e == Scan[s0]
           P == {s \in Scans :
                    /\ s.a = a /\ s.pn = a + n
                    /\ Rearranged(vec, s.arr, a, a + n - 1)
                    /\ \E v \in Elements : Zones(s, v)}
           m == [s \in Scans |-> s.pc + 1 - s.pb]
<1>1. s0 \in P
  <2> HIDE DEF s0
  <2>1. s0 = ScanInit(vec, a, n)
    BY DEF s0
  <2> QED
    BY <2>1, ScanBegins
<1>2. m \in [Scans -> Nat]
  <2>1. \A s \in Scans : s.pc + 1 - s.pb \in Nat
    BY ScanFields
  <2> QED
    BY <2>1
<1>3. ASSUME NEW s \in Scans, s \notin ScanStop
      PROVE  ScanNext[s] \in Scans /\ ScanGoes(s, ScanNext[s])
  <2>1. s.pb <= s.pc
    BY <1>3, ScanFields DEF ScanStop
  <2>2. ScanNext[s] = ScanStep(s)
    BY <1>3 DEF ScanNext
  <2>3. ScanGoes(s, ScanNext[s])
    BY <2>1, <2>2, ScanStepGoes
  <2> QED
    BY <2>3 DEF ScanGoes
<1>4. ASSUME NEW s \in Scans, s \notin ScanStop
      PROVE  m[ScanNext[s]] < m[s]
  <2> DEFINE t == ScanNext[s]
  <2>1. t \in Scans /\ t.pc - t.pb < s.pc - s.pb
    BY <1>3, <1>4 DEF ScanGoes
  <2> HIDE DEF t
  <2>2. m[t] = t.pc + 1 - t.pb /\ m[s] = s.pc + 1 - s.pb
    BY <2>1
  <2>3. /\ s.pc \in Nat /\ s.pb \in Nat
        /\ t.pc \in Nat /\ t.pb \in Nat
    <3>1. \A u \in Scans : u.pc \in Nat /\ u.pb \in Nat
      BY ScanFields
    <3> QED
      BY <2>1, <3>1
  <2>4. t.pc + 1 - t.pb < s.pc + 1 - s.pb
    <3>1. t.pc - t.pb < s.pc - s.pb
      BY <2>1
    <3> QED
      BY ONLY <2>3, <3>1
  <2>5. m[t] < m[s]
    BY <2>2, <2>4
  <2> QED
    BY <2>5 DEF t
<1>5. ASSUME NEW s \in P, s \notin ScanStop
      PROVE  ScanNext[s] \in P
  <2> DEFINE t == ScanNext[s]
  <2>1. s \in Scans /\ s.a = a /\ s.pn = a + n /\ Rearranged(vec, s.arr, a, a + n - 1)
    OBVIOUS
  <2>2. PICK v \in Elements : Zones(s, v)
    OBVIOUS
  <2>3. t \in Scans /\ ScanGoes(s, t)
    BY <1>3, <1>5, <2>1
  <2> HIDE DEF t
  <2>4. t.a = a /\ t.pn = a + n /\ Zones(t, v) /\ Rearranged(s.arr, t.arr, a, a + n - 1)
    BY <2>1, <2>2, <2>3 DEF ScanGoes
  <2>5. Rearranged(vec, t.arr, a, a + n - 1)
    BY <2>1, <2>4, RearrangedTwice
  <2>6. t \in P
    BY <2>3, <2>4, <2>5
  <2> QED
    BY <2>6 DEF t
<1>6. ScanStop \in SUBSET Scans /\ P \in SUBSET Scans
  BY DEF ScanStop
<1> HIDE DEF s0, m, P
<1>7. e \in P /\ e \in ScanStop
  <2>1. IsLoop(Scans, ScanStop, ScanNext, Scan, m)
    BY <1>2, <1>4, <1>6, ScanLoop DEF IsLoop
  <2>2. StaysIn(P, Scans, ScanStop, ScanNext)
    BY <1>5, <1>6 DEF StaysIn
  <2> QED
    BY <1>1, <2>1, <2>2, LoopEnds
<1> HIDE DEF e
<1>8. e.pb = e.pc + 1
  <2>1. e \in Scans /\ e.pb > e.pc
    BY <1>7 DEF ScanStop
  <2>2. e.pb \in Nat /\ e.pc \in Nat /\ e.pb <= e.pc + 1
    BY <2>1, ScanFields
  <2> QED
    BY <2>1, <2>2
<1>9. PartitionEnds(vec, a, n, e)
  BY <1>7, <1>8 DEF P, PartitionEnds
<1> QED
  BY <1>9 DEF e, s0

\* The elements equal to the pivot go to the middle: whatever boundary one takes
\* there, no element before it is greater than one behind it.
LEMMA GatherResult ==
    ASSUME NEW s \in Scans, s.pb = s.pc + 1, NEW v \in Elements, Zones(s, v),
           NEW g, g = Gather[s]
    PROVE  /\ g \in Scans /\ g.a = s.a /\ g.pn = s.pn /\ g.pa = s.pa /\ g.pb = s.pb
           /\ g.pc = s.pc /\ g.pd = s.pd /\ g.swap_cnt = s.swap_cnt
           /\ Rearranged(s.arr, g.arr, s.a, s.pn - 1)
           /\ \A b \in s.a + s.pb - s.pa .. s.pn - (s.pd - s.pc) : Cut(g.arr, s.a, s.pn - 1, b)
<1> DEFINE vec == s.arr
           a == s.a
           pn == s.pn
           pa == s.pa
           pb == s.pb
           qc == s.pc
           pd == s.pd
           c == s.swap_cnt
           n == Len(vec)
           l == Min({pa - a, pb - pa})
           r == Min({pd - qc, pn - pd - 1})
           res == vecswap(vec, a, pb - l, l)
           crr == vecswap(res, pb, pn - r, r)
<1>1. /\ vec \in Seq(Elements) /\ n \in Nat /\ c \in {0, 1}
      /\ a \in Nat /\ pn \in Nat /\ pa \in Nat /\ pb \in Nat /\ qc \in Nat /\ pd \in Nat
      /\ 0 < a /\ a < pa /\ pa <= pb /\ pb = qc + 1 /\ qc <= pd /\ pd < pn /\ pn <= n + 1
      /\ s = [arr |-> vec, a |-> a, pn |-> pn, pa |-> pa, pb |-> pb, pc |-> qc, pd |-> pd,
              swap_cnt |-> c]
  BY ScanFields
<1>2. g = [arr |-> crr, a |-> a, pn |-> pn, pa |-> pa, pb |-> pb, pc |-> qc, pd |-> pd,
           swap_cnt |-> c]
  <2>1. g = [s EXCEPT !.arr = crr]
    BY DEF Gather
  <2> HIDE DEF crr
  <2> QED
    BY <1>1, <2>1
<1>3. ZonesOf(vec, a, pn, pa, pb, qc, pd, v)
  BY DEF Zones
<1>21. /\ n \in Nat /\ a \in Nat /\ pn \in Nat /\ pa \in Nat /\ pb \in Nat /\ qc \in Nat
       /\ pd \in Nat /\ 0 < a /\ a < pa /\ pa <= pb /\ pb = qc + 1 /\ qc <= pd /\ pd < pn
       /\ pn <= n + 1
  BY <1>1
<1> HIDE DEF n
<1> HIDE DEF vec, a, pn, pa, pb, qc, pd, c
<1>4. l \in Nat /\ l <= pa - a /\ l <= pb - pa /\ (l = pa - a \/ l = pb - pa)
  <2>1. pa - a \in Nat /\ pb - pa \in Nat
    BY <1>1
  <2> QED
    BY <2>1, MinOfTwo
<1>5. r \in Nat /\ r <= pd - qc /\ r <= pn - pd - 1 /\ (r = pd - qc \/ r = pn - pd - 1)
  <2>1. pd - qc \in Nat /\ pn - pd - 1 \in Nat
    BY <1>1
  <2> QED
    BY <2>1, MinOfTwo
<1> HIDE DEF l, r
<1>6. Rearranged(vec, res, a, pn - 1) /\ ChangedSides(vec, res, a, pa, pb - 1)
  <2>1. /\ a \in Int /\ pn - 1 \in Int /\ pa \in Int /\ pb - 1 \in Int
        /\ 0 < a /\ a <= pa /\ pa <= pb - 1 + 1 /\ pb - 1 <= Len(vec) /\ a <= a
        /\ pb - 1 <= pn - 1 /\ l <= pb - 1 + 1 - pa /\ (l = pa - a \/ l = pb - 1 + 1 - pa)
    BY ONLY <1>4, <1>21 DEF n
  <2>2. /\ Rearranged(vec, vecswap(vec, a, pb - 1 + 1 - l, l), a, pn - 1)
        /\ ChangedSides(vec, vecswap(vec, a, pb - 1 + 1 - l, l), a, pa, pb - 1)
    BY <1>1, <1>4, <2>1, PartsChangeSides
  <2>3. pb - 1 + 1 - l = pb - l
    BY <1>1, <1>4
  <2> QED
    BY <2>2, <2>3
<1> HIDE DEF res
<1>7. res \in Seq(Elements) /\ Len(res) = n
  BY <1>6 DEF Rearranged, n
<1> DEFINE md == pd + 1
           hi == pn - 1
           x == hi + 1 - r
<1>20. /\ md \in Int /\ hi \in Int /\ md = pd + 1 /\ hi = pn - 1
       /\ md - pb = pd - qc /\ hi + 1 - md = pn - pd - 1 /\ x = pn - r
       /\ pb <= md /\ md <= hi + 1 /\ hi <= n /\ a <= pb
  BY <1>21, <1>5
<1> HIDE DEF md, hi
<1>8. Rearranged(res, crr, a, hi) /\ ChangedSides(res, crr, pb, md, hi)
  <2>1. a \in Int /\ pb \in Int /\ 0 < pb /\ hi <= hi /\ hi <= Len(res)
    BY <1>21, <1>7, <1>20
  <2>2. /\ r <= md - pb /\ r <= hi + 1 - md /\ (r = md - pb \/ r = hi + 1 - md)
    BY <1>5, <1>20
  <2> HIDE DEF crr, x
  <2>3. Rearranged(res, vecswap(res, pb, x, r), a, hi)
        /\ ChangedSides(res, vecswap(res, pb, x, r), pb, md, hi)
    BY <1>5, <1>7, <1>20, <2>1, <2>2, PartsChangeSides DEF x
  <2> QED
    BY <1>20, <2>3 DEF crr
<1> HIDE DEF crr
<1>9. Rearranged(vec, crr, a, pn - 1)
  BY <1>1, <1>6, <1>8, <1>20, RearrangedTwice
<1>10. crr \in Seq(Elements) /\ Len(crr) = n
  BY <1>9 DEF Rearranged, n
<1>11. g \in Scans
  <2>1. PointersOK(crr, a, pn, pa, pb, qc, pd, c)
    BY <1>1, <1>10 DEF PointersOK
  <2> QED
    BY <1>2, <2>1, ScanMember
<1>12. \A k \in a .. a + pb - pa - 1 : crr[k] < v
  <2>1. ASSUME NEW k \in a .. a + pb - pa - 1
        PROVE  crr[k] < v
    <3>1. k \in a .. a + (pb - 1) - pa /\ k \in 1 .. n /\ k \notin pb .. hi
      BY <1>21, <1>20
    <3>2. PICK j \in pa .. pb - 1 : res[k] = vec[j]
      BY <1>6, <3>1 DEF ChangedSides
    <3>3. crr[k] = res[k]
      BY <1>7, <1>8, <3>1 DEF ChangedSides
    <3> QED
      BY <1>3, <3>2, <3>3 DEF ZonesOf
  <2> QED
    BY <2>1
<1>13. \A k \in a + pb - pa .. pb - 1 : crr[k] = v
  <2>1. ASSUME NEW k \in a + pb - pa .. pb - 1
        PROVE  crr[k] = v
    <3>1. k \in a + (pb - 1) - pa + 1 .. pb - 1 /\ k \in 1 .. n /\ k \notin pb .. hi
      BY <1>21, <1>20
    <3>2. PICK j \in a .. pa - 1 : res[k] = vec[j]
      BY <1>6, <3>1 DEF ChangedSides
    <3>3. crr[k] = res[k]
      BY <1>7, <1>8, <3>1 DEF ChangedSides
    <3> QED
      BY <1>3, <3>2, <3>3 DEF ZonesOf
  <2> QED
    BY <2>1
<1>14. \A j \in pb .. pn - 1 : res[j] = vec[j]
  <2>1. \A j \in pb .. pn - 1 : j \in 1 .. Len(vec) /\ j \notin a .. pb - 1
    BY <1>1 DEF n
  <2> QED
    BY <1>6, <2>1 DEF ChangedSides
<1>15. \A k \in pb .. pn - (pd - qc) - 1 : crr[k] = v
  <2>1. ASSUME NEW k \in pb .. pn - (pd - qc) - 1
        PROVE  crr[k] = v
    <3>1. k \in pb .. pb + hi - md
      BY <1>21, <1>20
    <3>2. PICK j \in md .. hi : crr[k] = res[j]
      BY <1>8, <3>1 DEF ChangedSides
    <3>3. j \in pb .. pn - 1 /\ j \in pd + 1 .. pn - 1
      BY <1>21, <1>20, <3>2
    <3> QED
      BY <1>3, <1>14, <3>2, <3>3 DEF ZonesOf
  <2> QED
    BY <2>1
<1>16. \A k \in pn - (pd - qc) .. pn - 1 : crr[k] > v
  <2>1. ASSUME NEW k \in pn - (pd - qc) .. pn - 1
        PROVE  crr[k] > v
    <3>1. k \in pb + hi - md + 1 .. hi
      BY <1>21, <1>20
    <3>2. PICK j \in pb .. md - 1 : crr[k] = res[j]
      BY <1>8, <3>1 DEF ChangedSides
    <3>3. j \in pb .. pn - 1 /\ j \in qc + 1 .. pd
      BY <1>21, <1>20, <3>2
    <3> QED
      BY <1>3, <1>14, <3>2, <3>3 DEF ZonesOf
  <2> QED
    BY <2>1
<1>17. \A k \in a .. pn - 1 : crr[k] \in Nat
  <2>1. crr \in [1 .. n -> Elements]
    BY <1>10, ArrayFunction
  <2>2. \A k \in a .. pn - 1 : k \in 1 .. n
    BY <1>1
  <2> QED
    BY <2>1, <2>2, ElementsNat
<1>18. ASSUME NEW b \in a + pb - pa .. pn - (pd - qc), NEW j \in a .. b - 1, NEW k \in b .. pn - 1
       PROVE  crr[j] <= crr[k]
  <2>1. j \in a .. pn - 1 /\ k \in a .. pn - 1 /\ v \in Nat
    <3>1. b \in a + pb - pa .. pn - (pd - qc) /\ j \in a .. b - 1 /\ k \in b .. pn - 1
      OBVIOUS
    <3>2. j \in a .. pn - 1 /\ k \in a .. pn - 1
      BY ONLY <1>21, <3>1
    <3> QED
      BY <3>2, ElementsNat
  <2>2. crr[j] <= v
    <3>2. b \in Int /\ j \in Int /\ a <= j /\ j <= b - 1 /\ b <= pn - (pd - qc)
      BY <1>21
    <3>3. CASE j <= a + pb - pa - 1
      <4>1. j \in a .. a + pb - pa - 1
        BY <1>21, <3>2, <3>3
      <4> QED
        BY <1>12, <1>17, <2>1, <4>1
    <3>4. CASE a + pb - pa <= j /\ j <= pb - 1
      <4>1. j \in a + pb - pa .. pb - 1
        BY <1>21, <3>2, <3>4
      <4> QED
        BY <1>13, <2>1, <4>1
    <3>5. CASE pb <= j
      <4>1. j \in pb .. pn - (pd - qc) - 1
        BY <1>21, <3>2, <3>5
      <4> QED
        BY <1>15, <2>1, <4>1
    <3> QED
      BY <1>21, <3>2, <3>3, <3>4, <3>5
  <2>3. v <= crr[k]
    <3>1. k \in a + pb - pa .. pb - 1
          \/ k \in pb .. pn - (pd - qc) - 1 \/ k \in pn - (pd - qc) .. pn - 1
      BY <1>21
    <3> QED
      BY <1>13, <1>15, <1>16, <1>17, <2>1, <3>1
  <2> QED
    BY <1>17, <2>1, <2>2, <2>3
<1>19. \A b \in a + pb - pa .. pn - (pd - qc) : Cut(crr, a, pn - 1, b)
  BY <1>18 DEF Cut
<1> QED
  BY <1>2, <1>9, <1>11, <1>19 DEF vec, a, pn, pa, pb, qc, pd, c

-----------------------------------------------------------------------------
(* The whole pass *)

\* What is in order has a cut everywhere.
LEMMA OrderedCuts ==
    ASSUME NEW vec \in Seq(Elements), NEW lo \in Nat, NEW hi \in Nat, 0 < lo, hi <= Len(vec),
           Ordered(vec, lo, hi), NEW b \in lo .. hi + 1
    PROVE  Cut(vec, lo, hi, b)
<1>1. ASSUME NEW j \in lo .. b - 1, NEW k \in b .. hi
      PROVE  vec[j] <= vec[k]
  <2>1. j \in lo .. hi /\ k \in lo .. hi /\ j <= k
    OBVIOUS
  <2> QED
    BY <2>1 DEF Ordered
<1> QED
  BY <1>1 DEF Cut

\* A pass over a piece of n elements has nl elements left to do at its left end
\* and nr at its right.
PassOK(vec, a, n, r) ==
    /\ Rearranged(vec, r.arr, a, a + n - 1)
    /\ r.nl \in Nat /\ r.nr \in Nat /\ r.nl + r.nr < n
    /\ \A b \in a + r.nl .. a + n - r.nr : Cut(r.arr, a, a + n - 1, b)

\* The elements less than the pivot and the greater ones are fewer than all.
LEMMA TwoEnds ==
    ASSUME NEW a \in Nat, NEW pa \in Nat, NEW pb \in Nat, NEW qc \in Nat, NEW pd \in Nat,
           NEW n \in Nat, a < pa, pa <= pb, pb = qc + 1, qc <= pd, pd < a + n
    PROVE  pb - pa \in Nat /\ pd - qc \in Nat /\ (pb - pa) + (pd - qc) < n /\ n # 0
OBVIOUS

\* What is left after the partition.
LEMMA RestResult ==
    ASSUME NEW s \in Scans, s.pb = s.pc + 1, NEW n \in Nat, s.pn = s.a + n,
           \A b \in s.a + s.pb - s.pa .. s.pn - (s.pd - s.pc) : Cut(s.arr, s.a, s.pn - 1, b)
    PROVE  PassOK(s.arr, s.a, n, Rest[s])
<1> DEFINE vec == s.arr
           a == s.a
           nl == s.pb - s.pa
           nr == s.pd - s.pc
           limit == 1 + n \div 4
           i == InsertionSort(vec, a, n, limit)
           r == Rest[s]
<1>1. /\ vec \in Seq(Elements) /\ a \in Nat \ {0} /\ n \in Nat \ {0} /\ a + n <= Len(vec) + 1
      /\ nl \in Nat /\ nr \in Nat /\ nl + nr < n /\ s.swap_cnt \in {0, 1}
      /\ s.pn \in Nat /\ s.pn - s.a = n /\ s.pn - 1 = a + n - 1 /\ Len(vec) \in Nat
  <2>1. /\ s.arr \in Seq(Elements) /\ Len(s.arr) \in Nat /\ s.swap_cnt \in {0, 1}
        /\ s.a \in Nat /\ s.pn \in Nat /\ s.pa \in Nat /\ s.pb \in Nat /\ s.pc \in Nat
        /\ s.pd \in Nat
    BY ScanFields
  <2>5. 0 < s.a /\ s.a < s.pa /\ s.pa <= s.pb /\ s.pc <= s.pd /\ s.pd < s.pn /\ s.pn <= Len(s.arr) + 1
    BY ScanFields
  <2>2. /\ 0 < s.a /\ s.a < s.pa /\ s.pa <= s.pb /\ s.pb = s.pc + 1 /\ s.pc <= s.pd
        /\ s.pd < s.pn /\ s.pn = s.a + n /\ s.pn <= Len(s.arr) + 1 /\ n \in Nat
    BY <2>5
  <2>3. nl \in Nat /\ nr \in Nat /\ nl + nr < n /\ n # 0
    <3>1. s.pd < s.a + n
      BY <2>2
    <3> QED
      BY <2>1, <2>2, <3>1, TwoEnds
  <2>4. s.pn - s.a = n /\ s.pn - 1 = a + n - 1 /\ a + n <= Len(vec) + 1
    BY ONLY <2>1, <2>2
  <2> QED
    BY <2>1, <2>2, <2>3, <2>4
<1>2. \A b \in a + nl .. a + n - nr : Cut(vec, a, a + n - 1, b)
  <2>1. a + nl = s.a + s.pb - s.pa /\ a + n - nr = s.pn - (s.pd - s.pc)
    <3>1. s.a \in Nat /\ s.pc \in Nat /\ s.pd \in Nat
      BY ScanFields
    <3>2. s.a + (n - (s.pd - s.pc)) = (s.a + n) - (s.pd - s.pc)
      BY <3>1
    <3> QED
      BY <3>2
  <2> QED
    BY <1>1, <2>1
<1>3. r = CASE s.swap_cnt = 1 -> [arr |-> vec, nl |-> nl, nr |-> nr]
            [] s.swap_cnt = 0 /\ i.swaps > limit -> [arr |-> i.arr, nl |-> nl, nr |-> nr]
            [] s.swap_cnt = 0 /\ i.swaps <= limit -> [arr |-> i.arr, nl |-> 0, nr |-> 0]
  BY <1>1 DEF Rest
<1> HIDE DEF vec, a, nl, nr, r
<1>4. limit \in Nat
  BY <1>1
<1> HIDE DEF limit
<1>5. /\ i.swaps \in Nat
      /\ Rearranged(vec, i.arr, a, a + n - 1)
      /\ i.swaps <= limit => Ordered(i.arr, a, a + n - 1)
      /\ \A b \in Int : Cut(vec, a, a + n - 1, b) => Cut(i.arr, a, a + n - 1, b)
  BY <1>1, <1>4, InsertionSorts
<1> HIDE DEF i
<1>6. CASE s.swap_cnt = 1
  <2>1. r = [arr |-> vec, nl |-> nl, nr |-> nr]
    BY <1>3, <1>6
  <2>2. Rearranged(vec, vec, a, a + n - 1)
    BY <1>1, RearrangedNot
  <2> QED
    BY <1>1, <1>2, <2>1, <2>2 DEF PassOK, r, vec, a
<1>7. CASE s.swap_cnt = 0 /\ i.swaps > limit
  <2>1. r = [arr |-> i.arr, nl |-> nl, nr |-> nr]
    BY <1>3, <1>4, <1>5, <1>7
  <2>2. \A b \in a + nl .. a + n - nr : Cut(i.arr, a, a + n - 1, b)
    BY <1>1, <1>2, <1>5
  <2> QED
    BY <1>1, <1>5, <2>1, <2>2 DEF PassOK, r, vec, a
<1>8. CASE s.swap_cnt = 0 /\ i.swaps <= limit
  <2>1. r = [arr |-> i.arr, nl |-> 0, nr |-> 0]
    BY <1>3, <1>4, <1>5, <1>8
  <2>2. i.arr \in Seq(Elements) /\ Len(i.arr) = Len(vec) /\ Ordered(i.arr, a, a + n - 1)
    BY <1>5, <1>8 DEF Rearranged
  <2>3. a \in Nat /\ a + n - 1 \in Nat /\ 0 < a /\ a + n - 1 <= Len(i.arr)
    BY <1>1, <2>2
  <2>4. \A b \in a .. a + n - 1 + 1 : Cut(i.arr, a, a + n - 1, b)
    BY <2>2, <2>3, OrderedCuts
  <2>5. a + 0 = a /\ a + n - 0 = a + n - 1 + 1 /\ 0 + 0 < n
    BY <1>1
  <2> QED
    BY <1>5, <2>1, <2>4, <2>5 DEF PassOK, r, vec, a
<1> QED
  BY <1>1, <1>4, <1>5, <1>6, <1>7, <1>8

\* One pass of qsort_algo rearranges nothing but its piece, and leaves at its
\* ends two parts, together shorter than the piece, such that every boundary
\* from the one to the other separates what is not greater from what is not
\* less: sorting each of the two sorts the piece.
THEOREM PassPartitions ==
    ASSUME NEW vec \in Seq(Elements), NEW a \in Nat \ {0}, NEW n \in Nat \ {0},
           a + n <= Len(vec) + 1
    PROVE  PassOK(vec, a, n, Pass(vec, a, n))
<1>1. SMALL \in Nat /\ Len(vec) \in Nat
  BY QsortAssumption
<1>2. CASE n < SMALL
  <2> DEFINE i == InsertionSort(vec, a, n, n * n)
             r == [arr |-> i.arr, nl |-> 0, nr |-> 0]
  <2>1. Pass(vec, a, n) = r
    BY <1>2 DEF Pass
  <2>2. n * n \in Nat
    OBVIOUS
  <2>3. Rearranged(vec, i.arr, a, a + n - 1) /\ Ordered(i.arr, a, a + n - 1)
    BY <2>2, InsertionSorts
  <2> HIDE DEF i
  <2>4. i.arr \in Seq(Elements) /\ Len(i.arr) = Len(vec)
    BY <2>3 DEF Rearranged
  <2>5. a \in Nat /\ a + n - 1 \in Nat /\ 0 < a /\ a + n - 1 <= Len(i.arr)
    BY <1>1, <2>4
  <2>6. \A b \in a .. a + n - 1 + 1 : Cut(i.arr, a, a + n - 1, b)
    BY <2>3, <2>4, <2>5, OrderedCuts
  <2>7. a + 0 = a /\ a + n - 0 = a + n - 1 + 1 /\ 0 + 0 < n
    OBVIOUS
  <2>8. PassOK(vec, a, n, r)
    BY <2>3, <2>6, <2>7 DEF PassOK
  <2> QED
    BY <2>1, <2>8
<1>3. CASE ~(n < SMALL)
  <2> DEFINE e == Scan[ScanInit(vec, a, n)]
             g == Gather[e]
             r == Rest[g]
  <2>1. Pass(vec, a, n) = r
    BY <1>3 DEF Pass
  <2>2. SMALL <= n
    BY <1>1, <1>3
  <2>3. PartitionEnds(vec, a, n, e)
    BY <2>2, PartitionResult
  <2> HIDE DEF e
  <2>4. e \in Scans /\ e.a = a /\ e.pn = a + n /\ e.pb = e.pc + 1
        /\ Rearranged(vec, e.arr, a, a + n - 1)
    BY <2>3 DEF PartitionEnds
  <2>5. PICK v \in Elements : Zones(e, v)
    BY <2>3 DEF PartitionEnds
  <2>6. /\ g \in Scans /\ g.a = e.a /\ g.pn = e.pn /\ g.pa = e.pa /\ g.pb = e.pb
        /\ g.pc = e.pc /\ g.pd = e.pd
        /\ Rearranged(e.arr, g.arr, e.a, e.pn - 1)
        /\ \A b \in e.a + e.pb - e.pa .. e.pn - (e.pd - e.pc) : Cut(g.arr, e.a, e.pn - 1, b)
    BY <2>4, <2>5, GatherResult
  <2> HIDE DEF g
  <2>7. g.pb = g.pc + 1 /\ g.pn = g.a + n
        /\ \A b \in g.a + g.pb - g.pa .. g.pn - (g.pd - g.pc) : Cut(g.arr, g.a, g.pn - 1, b)
    BY <2>4, <2>6
  <2>8. PassOK(g.arr, a, n, r)
    BY <2>4, <2>6, <2>7, RestResult
  <2>9. Rearranged(vec, g.arr, a, a + n - 1)
    BY <2>4, <2>6, RearrangedTwice
  <2> HIDE DEF r
  <2>10. Rearranged(vec, r.arr, a, a + n - 1)
    BY <2>8, <2>9, RearrangedTwice DEF PassOK
  <2>11. PassOK(vec, a, n, r)
    BY <2>8, <2>10 DEF PassOK
  <2> QED
    BY <2>1, <2>11
<1> QED
  BY <1>2, <1>3

\* Of two elements the first is not greater, unless Q says that their positions
\* are in a common piece.
OrderedBut(vec, L, Q) ==
    \A x, y \in 1 .. L : x < y => vec[x] <= vec[y] \/ <<x, y>> \in Q

\* A pass keeps that order between its piece and the rest of the array, and
\* makes it between the parts of its piece.
LEMMA PassKeepsOrder ==
    ASSUME NEW vec \in Seq(Elements), NEW L \in Nat, Len(vec) = L,
           NEW a \in Nat, NEW n \in Nat, 0 < a, a + n - 1 <= L,
           NEW s, PassOK(vec, a, n, s),
           NEW Q, NEW R, OrderedBut(vec, L, Q),
           \A x, y : <<x, y>> \in Q =>
              \/ x \in a .. a + n - 1 /\ y \in a .. a + n - 1
              \/ x \notin a .. a + n - 1 /\ y \notin a .. a + n - 1 /\ <<x, y>> \in R,
           \A x, y \in a .. a + s.nl - 1 : <<x, y>> \in R,
           \A x, y \in a + n - s.nr .. a + n - 1 : <<x, y>> \in R
    PROVE  OrderedBut(s.arr, L, R)
<1> DEFINE res == s.arr
           nl == s.nl
           nr == s.nr
           P == a .. a + n - 1
<1>1. /\ res \in Seq(Elements) /\ Len(res) = L /\ nl \in Nat /\ nr \in Nat /\ nl + nr < n
      /\ \A b \in a + nl .. a + n - nr : Cut(res, a, a + n - 1, b)
  BY DEF PassOK, Rearranged
<1>2. PICK p \in Moves(L, a, a + n - 1) : \A k \in 1 .. L : res[k] = vec[p[k]]
  BY DEF PassOK, Rearranged
<1>3. p \in [1 .. L -> 1 .. L] /\ (\A k \in 1 .. L : k \notin P => p[k] = k)
      /\ \A j, k \in 1 .. L : p[j] = p[k] => j = k
  BY DEF Moves
<1>4. \A k \in P : k \in 1 .. L
  OBVIOUS
<1>5. \A k \in P : p[k] \in P
  BY <1>3, <1>4
<1>6. \A k \in 1 .. L : res[k] \in Nat /\ vec[k] \in Nat
  <2>1. res \in [1 .. L -> Elements] /\ vec \in [1 .. L -> Elements]
    BY <1>1, ArrayFunction
  <2> QED
    BY <2>1, ElementsNat
<1>7. /\ \A x, y \in a .. a + nl - 1 : <<x, y>> \in R
      /\ \A x, y \in a + n - nr .. a + n - 1 : <<x, y>> \in R
  OBVIOUS
<1> HIDE DEF res, nl, nr
<1>8. ASSUME NEW x \in P, NEW y \in P, x < y
      PROVE  res[x] <= res[y] \/ <<x, y>> \in R
  <2>1. CASE x \in a .. a + nl - 1 /\ y \in a .. a + nl - 1
    BY <1>7, <2>1
  <2>2. CASE x \in a + n - nr .. a + n - 1 /\ y \in a + n - nr .. a + n - 1
    BY <1>7, <2>2
  <2>3. CASE ~(x \in a .. a + nl - 1 /\ y \in a .. a + nl - 1)
             /\ ~(x \in a + n - nr .. a + n - 1 /\ y \in a + n - nr .. a + n - 1)
    <3> DEFINE b == IF x <= a + nl - 1 THEN a + nl
                    ELSE IF y <= a + n - nr THEN y ELSE a + n - nr
    <3>1. x \in Int /\ y \in Int /\ a <= x /\ y <= a + n - 1
      OBVIOUS
    <3>2. y > a + nl - 1 /\ x < a + n - nr
      BY <1>1, <2>3, <3>1, <1>8
    <3>3. b \in a + nl .. a + n - nr /\ x < b /\ b <= y
      BY <1>1, <1>8, <3>1, <3>2
    <3> HIDE DEF b
    <3>4. x \in a .. b - 1 /\ y \in b .. a + n - 1
      BY <3>1, <3>3
    <3> QED
      BY <1>1, <3>3, <3>4 DEF Cut
  <2> QED
    BY <2>1, <2>2, <2>3
<1>9. ASSUME NEW x \in 1 .. L, NEW y \in 1 .. L, x < y, x \notin P, y \in P
      PROVE  res[x] <= res[y] \/ <<x, y>> \in R
  <2>1. res[x] = vec[x] /\ res[y] = vec[p[y]] /\ p[y] \in P /\ p[y] \in 1 .. L
    BY <1>2, <1>3, <1>4, <1>5, <1>9
  <2>2. x < p[y]
    BY <1>9, <2>1
  <2>3. <<x, p[y]>> \notin Q
    BY <1>9, <2>1
  <2> QED
    BY <2>1, <2>2, <2>3 DEF OrderedBut
<1>10. ASSUME NEW x \in 1 .. L, NEW y \in 1 .. L, x < y, x \in P, y \notin P
       PROVE  res[x] <= res[y] \/ <<x, y>> \in R
  <2>1. res[y] = vec[y] /\ res[x] = vec[p[x]] /\ p[x] \in P /\ p[x] \in 1 .. L
    BY <1>2, <1>3, <1>4, <1>5, <1>10
  <2>2. p[x] < y
    BY <1>10, <2>1
  <2>3. <<p[x], y>> \notin Q
    BY <1>10, <2>1
  <2> QED
    BY <2>1, <2>2, <2>3 DEF OrderedBut
<1>11. ASSUME NEW x \in 1 .. L, NEW y \in 1 .. L, x < y, x \notin P, y \notin P
       PROVE  res[x] <= res[y] \/ <<x, y>> \in R
  <2>1. res[x] = vec[x] /\ res[y] = vec[y]
    BY <1>2, <1>3, <1>11
  <2> QED
    BY <1>11, <2>1 DEF OrderedBut
<1>12. ASSUME NEW x \in 1 .. L, NEW y \in 1 .. L, x < y
       PROVE  res[x] <= res[y] \/ <<x, y>> \in R
  BY <1>8, <1>9, <1>10, <1>11, <1>12
<1>13. OrderedBut(res, L, R)
  BY <1>12 DEF OrderedBut
<1> QED
  BY <1>13 DEF res

-----------------------------------------------------------------------------
(* Part two: the pool of threads.                                          *)

(* The inductive invariant *)

Labels == {"none", "lock", "asleep", "check", "algo", "allocate", "claim", "hand",
           "finish", "terminate", "ended"}

PoolTypeOK ==
    /\ call \in Calls
    /\ main \in [at : {"libc", "create", "tell", "join", "returned"}, i : Nat]
    /\ bailout \in BOOLEAN
    /\ idle \in Int
    /\ mtx_al \in Pool \cup {NULL}
    /\ mtx_st \in [Pool -> Pool \cup {NULL}]
    /\ st \in [Pool -> {"idle", "work", "term"}]
    /\ pc \in [Pool -> Labels]
    /\ other \in [Pool -> Nat]

\* The threads are created one after the other.  main joins them one after the
\* other, too, and has left those it has joined behind.
MainOK ==
    /\ main.at \in {"libc", "create", "tell"} => bailout
    /\ \A j, k \in Pool : k < j /\ pc[j] # "none" => pc[k] # "none"
    /\ main.at = "create" =>
          \A j \in Pool :
              /\ st[j] = "idle"
              /\ pc[j] = "none" <=> j >= main.i
              /\ pc[j] \in {"none", "lock", "asleep"}
    /\ main.at \in {"tell", "join"} => \A j \in Pool : j < main.i => pc[j] = "ended"
    /\ main.at \in {"libc", "returned"} => \A j \in Pool : pc[j] \in {"none", "ended"}

\* Where a thread can be, by its state: one that works got its work before it
\* came to look at its state.
PlacesOK ==
    \A j \in Pool :
        /\ st[j] = "idle" => pc[j] \in {"none", "lock", "asleep", "terminate", "ended"}
        /\ st[j] = "work" => pc[j] \in Labels \ {"none", "terminate", "ended"}
        /\ st[j] = "term" => pc[j] \in {"lock", "check", "ended"}
        /\ ~bailout => pc[j] # "none"
        /\ bailout => pc[j] \in {"none", "lock", "asleep", "check", "ended"}

\* Who holds the mutexes: the thread that looks for another one, or ends all,
\* has mtx_al; the one that hands over a piece has the mutex of the thread it
\* has found, which is still on its way to it.
HoldersOK ==
    /\ \A j \in Pool : pc[j] \in {"claim", "terminate"} <=> mtx_al = j
    /\ \A j \in Pool : pc[j] = "claim" => other[j] \in Idle
    /\ \A j \in Pool : pc[j] = "hand" => other[j] \in Pool /\ mtx_st[other[j]] = j
    /\ \A j \in Pool : mtx_st[j] # NULL =>
          /\ pc[mtx_st[j]] = "hand" /\ other[mtx_st[j]] = j
          /\ st[j] = "work" /\ pc[j] \in {"lock", "asleep"}

\* Once a thread ends, or is about to end the others, nobody works any more.
OverOK ==
    bailout \/ (\E j \in Pool : st[j] = "term" \/ pc[j] \in {"terminate", "ended"}) =>
        \A j \in Pool : st[j] # "work"

PoolInv ==
    /\ PoolTypeOK
    /\ MainOK
    /\ PlacesOK
    /\ HoldersOK
    /\ OverOK
    /\ IdleIsCounted

-----------------------------------------------------------------------------
(* Steps that move one thread only *)

\* The least of the idle threads is one of them.
LEMMA LeastNumber ==
    ASSUME NEW S, S \subseteq Nat, S # {}
    PROVE  Min(S) \in S
<1>1. PICK x \in S : \A y \in S : x <= y
  BY LeastExists
<1>2. \A y \in S : (\A z \in S : y <= z) => y = x
  BY <1>1
<1> QED
  BY <1>1, <1>2 DEF Min

\* The numbers below n are n numbers.
LEMMA Below ==
    ASSUME NEW n \in Nat \ {0}
    PROVE  IsFiniteSet(0 .. n - 1) /\ Cardinality(0 .. n - 1) = n
<1>1. n - 1 \in Int /\ ~(0 > n - 1) /\ (n - 1) - 0 + 1 = n
  OBVIOUS
<1> DEFINE m == n - 1
<1>2. m \in Int /\ ~(0 > m) /\ m - 0 + 1 = n
  BY <1>1
<1> HIDE DEF m
<1>3. IsFiniteSet(0 .. m) /\ Cardinality(0 .. m) = m - 0 + 1
  BY <1>2, FS_Interval
<1> QED
  BY <1>2, <1>3 DEF m

\* The threads of the pool, of which there are maxthreads.
LEMMA PoolSize ==
    ASSUME PoolTypeOK
    PROVE  /\ call.maxthreads \in Nat \ {0} /\ Pool \subseteq Nat /\ 0 \in Pool
           /\ NULL \notin Pool
           /\ IsFiniteSet(Pool) /\ Cardinality(Pool) = call.maxthreads
<1>1. call.maxthreads \in Nat \ {0}
  BY PoolAssumption DEF PoolTypeOK
<1>2. IsFiniteSet(Pool) /\ Cardinality(Pool) = call.maxthreads
  BY <1>1, Below DEF Pool
<1> QED
  BY <1>1, <1>2, PoolAssumption DEF Pool

\* A thread goes on without touching the mutexes and the states.
LEMMA MoveStep ==
    ASSUME PoolInv, NEW i \in Pool, NEW q \in Labels \ {"none", "claim", "terminate", "hand"},
           pc' = [pc EXCEPT ![i] = q],
           UNCHANGED <<call, main, bailout, idle, mtx_al, mtx_st, st, other>>,
           pc[i] \notin {"none", "claim", "terminate", "hand", "ended"},
           st[i] = "idle" => q \in {"lock", "asleep"},
           st[i] = "work" => q # "ended",
           st[i] = "term" => q \in {"lock", "check", "ended"},
           mtx_st[i] # NULL => q \in {"lock", "asleep"}
    PROVE  PoolInv'
<1> USE DEF PoolInv, PoolTypeOK
<1>1. Pool' = Pool /\ Idle' = Idle
  BY DEF Pool, Idle
<1>2. pc'[i] = q /\ \A j \in Pool : j # i => pc'[j] = pc[j]
  OBVIOUS
<1>3. st[i] = "idle" \/ st[i] = "work" \/ st[i] = "term"
  OBVIOUS
<1>4. PoolTypeOK'
  BY <1>1
<1>5. MainOK'
  BY <1>1, <1>2 DEF MainOK, Labels
<1>6. PlacesOK'
  BY <1>1, <1>2, <1>3 DEF PlacesOK, OverOK, Labels
<1>7. HoldersOK'
  <2>1. \A j \in Pool : pc'[j] \in {"claim", "terminate"} <=> pc[j] \in {"claim", "terminate"}
    BY <1>2
  <2>2. \A j \in Pool : pc'[j] = "hand" <=> pc[j] = "hand"
    BY <1>2
  <2>3. \A j \in Pool : pc'[j] = "claim" <=> pc[j] = "claim"
    BY <1>2
  <2>4. ASSUME NEW j \in Pool, mtx_st[j] # NULL
        PROVE  /\ pc'[mtx_st[j]] = "hand" /\ other[mtx_st[j]] = j
               /\ st[j] = "work" /\ pc'[j] \in {"lock", "asleep"}
    BY <1>2, <2>2, <2>4 DEF HoldersOK
  <2> QED
    BY <1>1, <2>1, <2>2, <2>3, <2>4 DEF HoldersOK
<1>8. OverOK'
  BY <1>1, <1>2, <1>3 DEF OverOK
<1>9. IdleIsCounted'
  <2>1. {j \in Pool : pc[j] = "claim"}' = {j \in Pool : pc[j] = "claim"}
    BY <1>1, <1>2
  <2> QED
    BY <1>1, <2>1 DEF IdleIsCounted
<1> QED
  BY <1>4, <1>5, <1>6, <1>7, <1>8, <1>9

\* The threads' steps outside the critical sections of mtx_al.
LEMMA MoveSteps ==
    ASSUME PoolInv, NEW i \in Pool,
           \/ WaitForWork(i) \/ SpuriousReturn(i) \/ CheckState(i) \/ Algo(i)
           \/ AllocateThread(i) /\ Idle = {}
    PROVE  PoolInv'
<1> USE DEF PoolInv, PoolTypeOK
<1>1. st[i] = "idle" \/ st[i] = "work" \/ st[i] = "term"
  OBVIOUS
<1>2. CASE WaitForWork(i)
  <2>1. PICK q \in {"asleep", "check"} :
            pc' = [pc EXCEPT ![i] = q] /\ (q = "asleep" <=> st[i] = "idle")
    BY <1>2 DEF WaitForWork
  <2>2. st[i] = "work" => q = "check"
    BY <2>1
  <2>3. mtx_st[i] = NULL /\ pc[i] = "lock"
    BY <1>2 DEF WaitForWork
  <2>4. q \in Labels \ {"none", "claim", "terminate", "hand"}
    BY DEF Labels
  <2>5. UNCHANGED <<call, main, bailout, idle, mtx_al, mtx_st, st, other>>
    BY <1>2 DEF WaitForWork
  <2> HIDE DEF PoolInv
  <2> QED
    BY <2>1, <2>2, <2>3, <2>4, <2>5, MoveStep
<1>3. CASE SpuriousReturn(i)
  BY <1>3, MoveStep DEF SpuriousReturn, AfterWait, Labels
<1>4. CASE CheckState(i)
  <2>1. PICK q \in {"ended", "algo"} :
            pc' = [pc EXCEPT ![i] = q] /\ (q = "ended" <=> st[i] = "term")
    BY <1>4 DEF CheckState
  <2>2. st[i] # "idle" /\ mtx_st[i] = NULL
    BY <1>4 DEF CheckState, PlacesOK, HoldersOK
  <2>3. q \in Labels \ {"none", "claim", "terminate", "hand"}
    BY DEF Labels
  <2>4. UNCHANGED <<call, main, bailout, idle, mtx_al, mtx_st, st, other>> /\ pc[i] = "check"
    BY <1>4 DEF CheckState
  <2> HIDE DEF PoolInv
  <2> QED
    BY <2>1, <2>2, <2>3, <2>4, MoveStep
<1>5. CASE Algo(i)
  <2>1. PICK q \in {"allocate", "finish", "algo"} : pc' = [pc EXCEPT ![i] = q]
    BY <1>5 DEF Algo
  <2>2. st[i] = "work" /\ mtx_st[i] = NULL
    BY <1>1, <1>5 DEF Algo, PlacesOK, HoldersOK
  <2>3. q \in Labels \ {"none", "claim", "terminate", "hand", "ended"}
    BY DEF Labels
  <2>4. UNCHANGED <<call, main, bailout, idle, mtx_al, mtx_st, st, other>> /\ pc[i] = "algo"
    BY <1>5 DEF Algo
  <2> HIDE DEF PoolInv
  <2> QED
    BY <2>1, <2>2, <2>3, <2>4, MoveStep
<1>6. CASE AllocateThread(i) /\ Idle = {}
  <2>1. st[i] = "work" /\ mtx_st[i] = NULL
    BY <1>1, <1>6 DEF AllocateThread, PlacesOK, HoldersOK
  <2> QED
    BY <1>6, <2>1, MoveStep DEF AllocateThread, Labels
<1> QED
  BY <1>2, <1>3, <1>4, <1>5, <1>6

-----------------------------------------------------------------------------
(* The critical sections of mtx_al, and handing over a piece *)

\* A thread that works knows that the pool is complete and that no thread has
\* been told to end.
LEMMA Working ==
    ASSUME PoolInv, NEW i \in Pool, st[i] = "work"
    PROVE  /\ ~bailout
           /\ \A j \in Pool : st[j] # "term" /\ pc[j] \notin {"none", "terminate", "ended"}
<1>1. ~bailout /\ \A j \in Pool : st[j] # "term" /\ pc[j] \notin {"terminate", "ended"}
  BY DEF PoolInv, OverOK
<1> QED
  BY <1>1 DEF PoolInv, PlacesOK

\* Without mtx_al nobody is between finding a thread and giving it work.
LEMMA NobodyClaims ==
    ASSUME PoolInv, mtx_al \notin Pool
    PROVE  {j \in Pool : pc[j] = "claim"} = {}
BY DEF PoolInv, HoldersOK

\* With mtx_al at most its holder is.
LEMMA OneClaims ==
    ASSUME PoolInv, NEW i \in Pool, pc[i] = "claim"
    PROVE  {j \in Pool : pc[j] = "claim"} = {i}
BY DEF PoolInv, HoldersOK

\* The idle threads are finitely many.
LEMMA IdleFinite ==
    ASSUME PoolTypeOK
    PROVE  IsFiniteSet(Idle) /\ Cardinality(Idle) \in Nat /\ Idle \subseteq Nat
           /\ Idle \subseteq Pool
<1>1. Idle \subseteq Pool
  BY DEF Idle
<1>2. IsFiniteSet(Idle)
  BY <1>1, PoolSize, FS_Subset
<1>3. Cardinality(Idle) \in Nat
  BY <1>2, FS_CardinalityType
<1> QED
  BY <1>1, <1>2, <1>3, PoolSize

\* allocate_thread finds a thread: it is no longer counted among the idle ones.
LEMMA AllocateStep ==
    ASSUME PoolInv, NEW i \in Pool, AllocateThread(i), Idle # {}
    PROVE  PoolInv'
<1> USE DEF PoolInv, PoolTypeOK
<1> DEFINE m == Min(Idle)
<1>1. m \in Idle /\ m \in Nat
  <2> HIDE DEF PoolInv
  <2>1. Idle \subseteq Nat
    BY IdleFinite DEF PoolInv
  <2> QED
    BY <2>1, LeastNumber
<1> HIDE DEF m
<1>2. /\ pc[i] = "allocate" /\ mtx_al = NULL
      /\ pc' = [pc EXCEPT ![i] = "claim"] /\ other' = [other EXCEPT ![i] = m]
      /\ mtx_al' = i /\ idle' = idle - 1
      /\ UNCHANGED <<call, main, bailout, mtx_st, st>>
  BY DEF AllocateThread, Allocated, m
<1>3. Pool' = Pool /\ Idle' = Idle
  BY <1>2 DEF Pool, Idle
<1>4. NULL \notin Pool
  BY PoolSize
<1>5. st[i] = "work"
  BY <1>2 DEF PlacesOK
<1>6. pc'[i] = "claim" /\ other'[i] = m
      /\ \A j \in Pool : j # i => pc'[j] = pc[j] /\ other'[j] = other[j]
  BY <1>2
<1>7. PoolTypeOK'
  BY <1>1, <1>2, <1>3 DEF Labels
<1>8. MainOK'
  BY <1>2, <1>3, <1>6 DEF MainOK
<1>9. PlacesOK'
  BY <1>2, <1>3, <1>5, <1>6 DEF PlacesOK, Labels
<1>10. HoldersOK'
  <2>1. \A j \in Pool : pc[j] \notin {"claim", "terminate"}
    BY <1>2, <1>4 DEF HoldersOK
  <2>2. \A j \in Pool : pc'[j] \in {"claim", "terminate"} <=> mtx_al' = j
    BY <1>2, <1>6, <2>1
  <2>3. \A j \in Pool : pc'[j] = "claim" => other'[j] \in Idle
    BY <1>1, <1>6, <2>1
  <2>4. \A j \in Pool : pc'[j] = "hand" => other'[j] \in Pool /\ mtx_st[other'[j]] = j
    BY <1>6 DEF HoldersOK
  <2>5. ASSUME NEW j \in Pool, mtx_st[j] # NULL
        PROVE  /\ pc'[mtx_st[j]] = "hand" /\ other'[mtx_st[j]] = j
               /\ st[j] = "work" /\ pc'[j] \in {"lock", "asleep"}
    BY <1>2, <1>6, <2>5 DEF HoldersOK
  <2> QED
    BY <1>2, <1>3, <2>2, <2>3, <2>4, <2>5 DEF HoldersOK
<1>11. OverOK'
  BY <1>2, <1>3, <1>6 DEF OverOK
<1>12. IdleIsCounted'
  <2>1. {j \in Pool : pc[j] = "claim"} = {}
    BY <1>2, <1>4 DEF HoldersOK
  <2>2. {j \in Pool : pc[j] = "claim"}' = {i}
    BY <1>3, <1>6, <2>1
  <2>3. Cardinality({}) = 0 /\ Cardinality({i}) = 1
    BY FS_EmptySet, FS_Singleton
  <2>4. ~bailout /\ \A j \in Pool : st[j] # "term"
    BY <1>5, Working
  <2>5. Cardinality(Idle) \in Nat
    BY IdleFinite
  <2>6. idle = Cardinality(Idle) - 0
    BY <2>1, <2>3, <2>4 DEF IdleIsCounted
  <2>7. idle' = Cardinality(Idle) - 1
    BY <1>2, <2>5, <2>6
  <2> QED
    BY <1>3, <2>2, <2>3, <2>7 DEF IdleIsCounted
<1> QED
  BY <1>7, <1>8, <1>9, <1>10, <1>11, <1>12

\* The thread that was found is given work, before it can see that it has.
LEMMA ClaimStep ==
    ASSUME PoolInv, NEW i \in Pool, ClaimThread(i)
    PROVE  PoolInv'
<1> USE DEF PoolInv, PoolTypeOK
<1> DEFINE j == other[i]
<1>1. pc[i] = "claim" /\ mtx_al = i /\ j \in Idle /\ j \in Pool /\ st[j] = "idle"
  BY DEF ClaimThread, HoldersOK, Idle
<1>2. st[i] = "work" /\ j # i
  BY <1>1 DEF PlacesOK
<1> HIDE DEF j
<1>3. /\ mtx_st[j] = NULL
      /\ mtx_st' = [mtx_st EXCEPT ![j] = i] /\ st' = [st EXCEPT ![j] = "work"]
      /\ mtx_al' = NULL /\ pc' = [pc EXCEPT ![i] = "hand"]
      /\ UNCHANGED <<call, main, bailout, idle, other>>
  BY DEF ClaimThread, j
<1>4. Pool' = Pool /\ NULL \notin Pool
  BY <1>3, PoolSize DEF Pool
<1>5. ~bailout /\ \A k \in Pool : st[k] # "term" /\ pc[k] \notin {"none", "terminate", "ended"}
  BY <1>2, Working
<1>6. pc[j] \in {"lock", "asleep"}
  BY <1>1, <1>5 DEF PlacesOK
<1>7. /\ pc'[i] = "hand" /\ \A k \in Pool : k # i => pc'[k] = pc[k]
      /\ st'[j] = "work" /\ \A k \in Pool : k # j => st'[k] = st[k]
      /\ mtx_st'[j] = i /\ \A k \in Pool : k # j => mtx_st'[k] = mtx_st[k]
  BY <1>1, <1>3
<1>8. PoolTypeOK'
  BY <1>1, <1>3, <1>4 DEF Labels
<1>9. MainOK'
  <2>1. main.at \notin {"create", "libc", "returned"}
    BY <1>1, <1>5 DEF MainOK
  <2> QED
    BY <1>1, <1>3, <1>4, <1>7, <2>1 DEF MainOK
<1>10. PlacesOK'
  BY <1>2, <1>3, <1>4, <1>5, <1>6, <1>7 DEF PlacesOK, Labels
<1>11. HoldersOK'
  <2>1. \A k \in Pool : pc'[k] \notin {"claim", "terminate"}
    BY <1>1, <1>7 DEF HoldersOK
  <2>2. ASSUME NEW k \in Pool, pc'[k] = "hand"
        PROVE  other[k] \in Pool /\ mtx_st'[other[k]] = k
    <3>1. CASE k = i
      BY <1>1, <1>7, <3>1 DEF j
    <3>2. CASE k # i
      <4>1. pc[k] = "hand" /\ mtx_st[other[k]] = k /\ other[k] \in Pool
        BY <1>7, <2>2, <3>2 DEF HoldersOK
      <4>2. other[k] # j
        BY <1>3, <1>4, <4>1
      <4> QED
        BY <1>7, <4>1, <4>2
    <3> QED
      BY <3>1, <3>2
  <2>3. ASSUME NEW k \in Pool, mtx_st'[k] # NULL
        PROVE  /\ pc'[mtx_st'[k]] = "hand" /\ other[mtx_st'[k]] = k
               /\ st'[k] = "work" /\ pc'[k] \in {"lock", "asleep"}
    <3>1. CASE k = j
      BY <1>2, <1>6, <1>7, <3>1 DEF j
    <3>2. CASE k # j
      <4>1. /\ mtx_st'[k] = mtx_st[k] /\ pc[mtx_st[k]] = "hand" /\ other[mtx_st[k]] = k
            /\ st[k] = "work" /\ pc[k] \in {"lock", "asleep"} /\ mtx_st[k] \in Pool
        BY <1>7, <2>3, <3>2 DEF HoldersOK
      <4> QED
        BY <1>1, <1>7, <3>2, <4>1
    <3> QED
      BY <3>1, <3>2
  <2>4. \A k \in Pool : mtx_al' # k
    BY <1>3, <1>4
  <2> QED
    BY <1>3, <1>4, <2>1, <2>2, <2>3, <2>4 DEF HoldersOK
<1>12. OverOK'
  BY <1>3, <1>4, <1>5, <1>7 DEF OverOK
<1>13. IdleIsCounted'
  <2>1. {k \in Pool : pc[k] = "claim"} = {i}
    BY <1>1, OneClaims
  <2>2. {k \in Pool : pc[k] = "claim"}' = {}
    BY <1>1, <1>4, <1>7 DEF HoldersOK
  <2>3. Cardinality({}) = 0 /\ Cardinality({i}) = 1
    BY FS_EmptySet, FS_Singleton
  <2>4. Idle' = Idle \ {j}
    BY <1>4, <1>7 DEF Idle
  <2>5. IsFiniteSet(Idle) /\ Cardinality(Idle) \in Nat
    BY IdleFinite
  <2>6. Cardinality(Idle \ {j}) = Cardinality(Idle) - 1
    BY <1>1, <2>5, FS_RemoveElement
  <2>7. idle = Cardinality(Idle) - 1
    BY <1>5, <2>1, <2>3 DEF IdleIsCounted
  <2>8. Cardinality(Idle') = idle
    BY <2>4, <2>6, <2>7
  <2>9. Cardinality({k \in Pool : pc[k] = "claim"}') = 0
    BY <2>2, <2>3
  <2>10. idle' = Cardinality(Idle') - Cardinality({k \in Pool : pc[k] = "claim"}')
    <3>1. idle' = idle /\ idle \in Int
      BY <1>3
    <3> QED
      BY <2>8, <2>9, <3>1
  <2> QED
    BY <2>10 DEF IdleIsCounted
<1> QED
  BY <1>8, <1>9, <1>10, <1>11, <1>12, <1>13

\* The piece is there and the mutex is given back: the thread that was found
\* can take it.
LEMMA HandStep ==
    ASSUME PoolInv, NEW i \in Pool, HandOver(i)
    PROVE  PoolInv'
<1> USE DEF PoolInv, PoolTypeOK
<1> DEFINE j == other[i]
<1>1. /\ pc[i] = "hand" /\ j \in Pool /\ mtx_st[j] = i /\ NULL \notin Pool
      /\ st[j] = "work" /\ pc[j] \in {"lock", "asleep"}
  BY PoolSize DEF HandOver, HoldersOK
<1>2. st[i] = "work" /\ j # i
  BY <1>1 DEF PlacesOK
<1> HIDE DEF j
<1>3. /\ mtx_st' = [mtx_st EXCEPT ![j] = NULL]
      /\ pc' = [pc EXCEPT ![j] = IF @ = "asleep" THEN "lock" ELSE @, ![i] = "algo"]
      /\ UNCHANGED <<call, main, bailout, idle, mtx_al, st, other>>
  BY DEF HandOver, SignalAndGo, AfterWait, j
<1>4. Pool' = Pool /\ Idle' = Idle
  BY <1>3 DEF Pool, Idle
<1>5. ~bailout /\ \A k \in Pool : st[k] # "term" /\ pc[k] \notin {"none", "terminate", "ended"}
  BY <1>2, Working
<1>6. /\ pc'[i] = "algo" /\ pc'[j] = "lock"
      /\ \A k \in Pool : k # i /\ k # j => pc'[k] = pc[k]
      /\ mtx_st'[j] = NULL /\ \A k \in Pool : k # j => mtx_st'[k] = mtx_st[k]
  BY <1>1, <1>2, <1>3
<1>7. PoolTypeOK'
  <2>1. pc' \in [Pool -> Labels]
    BY <1>1, <1>3 DEF Labels
  <2> QED
    BY <1>3, <1>4, <2>1
<1>8. MainOK'
  <2>1. main.at \notin {"create", "libc", "returned"}
    BY <1>1, <1>5 DEF MainOK
  <2>2. \A k \in Pool : pc'[k] # "none"
    BY <1>5, <1>6
  <2>3. \A k \in Pool : pc'[k] = "ended" <=> pc[k] = "ended"
    BY <1>1, <1>6
  <2> QED
    BY <1>3, <1>4, <2>1, <2>2, <2>3 DEF MainOK
<1>9. PlacesOK'
  BY <1>1, <1>2, <1>3, <1>4, <1>5, <1>6 DEF PlacesOK, Labels
<1>10. HoldersOK'
  <2>1. \A k \in Pool : /\ pc'[k] = "claim" <=> pc[k] = "claim"
                        /\ pc'[k] = "terminate" <=> pc[k] = "terminate"
    BY <1>1, <1>6
  <2>2. ASSUME NEW k \in Pool, pc'[k] = "hand"
        PROVE  other[k] \in Pool /\ mtx_st'[other[k]] = k
    <3>1. k # i /\ k # j /\ pc[k] = "hand"
      BY <1>6, <2>2
    <3>2. other[k] \in Pool /\ mtx_st[other[k]] = k
      BY <3>1 DEF HoldersOK
    <3> QED
      BY <1>1, <1>6, <3>1, <3>2
  <2>3. ASSUME NEW k \in Pool, mtx_st'[k] # NULL
        PROVE  /\ pc'[mtx_st'[k]] = "hand" /\ other[mtx_st'[k]] = k
               /\ st[k] = "work" /\ pc'[k] \in {"lock", "asleep"}
    <3>1. k # j /\ mtx_st'[k] = mtx_st[k]
      BY <1>6, <2>3
    <3>2. /\ pc[mtx_st[k]] = "hand" /\ other[mtx_st[k]] = k /\ mtx_st[k] \in Pool
          /\ st[k] = "work" /\ pc[k] \in {"lock", "asleep"}
      BY <2>3, <3>1 DEF HoldersOK
    <3>3. mtx_st[k] # i /\ mtx_st[k] # j /\ k # i
      BY <1>1, <3>1, <3>2 DEF j
    <3> QED
      BY <1>6, <3>1, <3>2, <3>3
  <2> QED
    BY <1>3, <1>4, <2>1, <2>2, <2>3 DEF HoldersOK
<1>11. OverOK'
  BY <1>3, <1>4, <1>5, <1>6 DEF OverOK
<1>12. IdleIsCounted'
  <2>1. {k \in Pool : pc[k] = "claim"}' = {k \in Pool : pc[k] = "claim"}
    BY <1>1, <1>4, <1>6
  <2> QED
    BY <1>3, <1>4, <2>1 DEF IdleIsCounted
<1> QED
  BY <1>7, <1>8, <1>9, <1>10, <1>11, <1>12

\* A thread without work becomes idle.  If then all are counted as idle, all
\* are idle.
LEMMA FinishStep ==
    ASSUME PoolInv, NEW i \in Pool, Finish(i)
    PROVE  PoolInv'
<1> USE DEF PoolInv, PoolTypeOK
<1>1. /\ pc[i] = "finish" /\ mtx_al = NULL
      /\ st' = [st EXCEPT ![i] = "idle"] /\ idle' = idle + 1
      /\ UNCHANGED <<call, main, bailout, mtx_st>>
  BY DEF Finish
<1>2. \/ /\ idle' = call.maxthreads /\ mtx_al' = i
         /\ other' = [other EXCEPT ![i] = 0] /\ pc' = [pc EXCEPT ![i] = "terminate"]
      \/ mtx_al' = NULL /\ other' = other /\ pc' = [pc EXCEPT ![i] = "lock"]
  BY DEF Finish
<1>3. Pool' = Pool /\ NULL \notin Pool
  BY <1>1, PoolSize DEF Pool
<1>4. st[i] = "work" /\ mtx_st[i] = NULL
  BY <1>1 DEF PlacesOK, HoldersOK
<1>5. ~bailout /\ \A k \in Pool : st[k] # "term" /\ pc[k] \notin {"none", "terminate", "ended"}
  BY <1>4, Working
<1>6. /\ pc'[i] \in {"lock", "terminate"} /\ \A k \in Pool : k # i => pc'[k] = pc[k]
      /\ st'[i] = "idle" /\ \A k \in Pool : k # i => st'[k] = st[k]
      /\ \A k \in Pool : k # i => other'[k] = other[k]
  BY <1>1, <1>2
<1>7. PoolTypeOK'
  BY <1>1, <1>2, <1>3 DEF Labels
<1>8. MainOK'
  <2>1. main.at \notin {"create", "libc", "returned"}
    BY <1>1, <1>5 DEF MainOK
  <2> QED
    BY <1>1, <1>3, <1>5, <1>6, <2>1 DEF MainOK
<1>9. PlacesOK'
  BY <1>1, <1>3, <1>5, <1>6 DEF PlacesOK
<1>10. HoldersOK'
  <2>1. \A k \in Pool : pc[k] \notin {"claim", "terminate"}
    BY <1>1, <1>3 DEF HoldersOK
  <2>2. \A k \in Pool : pc'[k] \in {"claim", "terminate"} <=> mtx_al' = k
    <3>1. CASE mtx_al' = i /\ pc' = [pc EXCEPT ![i] = "terminate"]
      BY <1>6, <2>1, <3>1
    <3>2. CASE mtx_al' = NULL /\ pc' = [pc EXCEPT ![i] = "lock"]
      BY <1>3, <1>6, <2>1, <3>2
    <3> QED
      BY <1>2, <3>1, <3>2
  <2>3. \A k \in Pool : pc'[k] # "claim"
    BY <1>6, <2>1
  <2>4. \A k \in Pool : pc'[k] = "hand" => other'[k] \in Pool /\ mtx_st[other'[k]] = k
    BY <1>6 DEF HoldersOK
  <2>5. ASSUME NEW k \in Pool, mtx_st[k] # NULL
        PROVE  /\ pc'[mtx_st[k]] = "hand" /\ other'[mtx_st[k]] = k
               /\ st'[k] = "work" /\ pc'[k] \in {"lock", "asleep"}
    BY <1>1, <1>4, <1>6, <2>5 DEF HoldersOK
  <2> QED
    BY <1>1, <1>3, <2>2, <2>3, <2>4, <2>5 DEF HoldersOK
<1>11. Idle' = Idle \cup {i} /\ i \notin Idle
  BY <1>3, <1>4, <1>6 DEF Idle
<1>12. idle' = Cardinality(Idle')
  <2>1. {k \in Pool : pc[k] = "claim"} = {}
    BY <1>1, <1>3 DEF HoldersOK
  <2>2. Cardinality({}) = 0
    BY FS_EmptySet
  <2>3. IsFiniteSet(Idle) /\ Cardinality(Idle) \in Nat
    BY IdleFinite
  <2>4. Cardinality(Idle \cup {i}) = Cardinality(Idle) + 1
    BY <1>11, <2>3, FS_AddElement
  <2>5. idle = Cardinality(Idle)
    BY <1>5, <2>1, <2>2, <2>3 DEF IdleIsCounted
  <2>6. idle' = Cardinality(Idle) + 1
    BY <1>1, <2>5
  <2> QED
    BY <1>11, <2>4, <2>6
<1>13. IdleIsCounted'
  <2>1. {k \in Pool : pc[k] = "claim"}' = {}
    BY <1>1, <1>3, <1>6 DEF HoldersOK
  <2>2. Cardinality({}) = 0
    BY FS_EmptySet
  <2>3. Cardinality({k \in Pool : pc[k] = "claim"}') = 0
    BY <2>1, <2>2
  <2>4. idle' \in Int
    BY <1>1
  <2>5. idle' = Cardinality(Idle') - Cardinality({k \in Pool : pc[k] = "claim"}')
    BY <1>12, <2>3, <2>4
  <2> QED
    BY <2>5 DEF IdleIsCounted
<1>14. OverOK'
  <2>1. CASE idle' = call.maxthreads
    <3>1. IsFiniteSet(Pool) /\ Cardinality(Pool) = call.maxthreads
      BY PoolSize
    <3>2. Idle' \subseteq Pool
      BY <1>3 DEF Idle
    <3>3. Idle' = Pool
      BY <1>12, <2>1, <3>1, <3>2, FS_Subset
    <3>4. \A k \in Pool : st'[k] = "idle"
      BY <3>3 DEF Idle
    <3> QED
      BY <1>3, <3>4 DEF OverOK
  <2>2. CASE pc' = [pc EXCEPT ![i] = "lock"]
    BY <1>1, <1>3, <1>5, <1>6, <2>2 DEF OverOK
  <2> QED
    BY <1>2, <2>1, <2>2
<1> QED
  BY <1>7, <1>8, <1>9, <1>10, <1>13, <1>14

\* The thread that ends the others goes from one to the next and then ends.
LEMMA TerminateSteps ==
    ASSUME PoolInv, NEW i \in Pool, Terminate(i) \/ TerminateEnd(i)
    PROVE  PoolInv'
<1> USE DEF PoolInv, PoolTypeOK
<1>1. pc[i] = "terminate" /\ UNCHANGED <<call, main, bailout, idle, mtx_st>>
  BY DEF Terminate, TerminateEnd
<1>2. Pool' = Pool /\ NULL \notin Pool /\ Pool \subseteq Nat
  <2> HIDE DEF PoolInv
  <2>1. PoolTypeOK
    BY DEF PoolInv
  <2> QED
    BY <1>1, <2>1, PoolSize DEF Pool
<1>3. /\ st[i] = "idle" /\ mtx_al = i /\ ~bailout /\ main.at = "join"
      /\ \A k \in Pool : k # i => pc[k] \notin {"none", "claim", "terminate"}
  BY <1>1 DEF PlacesOK, HoldersOK, MainOK
<1>4. \A k \in Pool : st[k] \in {"idle", "term"} /\ mtx_st[k] = NULL
  BY <1>1 DEF OverOK, HoldersOK
<1>5. \A k \in Pool : pc[k] # "hand"
  BY <1>4 DEF PlacesOK
<1>6. CASE Terminate(i) /\ other[i] = i
  <2>1. UNCHANGED <<st, pc, mtx_al>> /\ other' = [other EXCEPT ![i] = other[i] + 1]
    BY <1>6 DEF Terminate
  <2>2. other' \in [Pool -> Nat] /\ Idle' = Idle
    BY <1>2, <2>1 DEF Idle
  <2>3. PoolTypeOK' /\ MainOK' /\ PlacesOK' /\ OverOK'
    BY <1>1, <1>2, <2>1, <2>2 DEF MainOK, PlacesOK, OverOK
  <2>4. HoldersOK'
    BY <1>1, <1>2, <1>3, <1>4, <1>5, <2>1 DEF HoldersOK
  <2>5. IdleIsCounted'
    BY <1>1, <1>2, <2>1, <2>2 DEF IdleIsCounted
  <2> QED
    BY <2>3, <2>4, <2>5
<1>7. CASE Terminate(i) /\ other[i] # i
  <2> DEFINE j == other[i]
  <2>1. j \in Pool /\ j # i /\ j + 1 \in Nat
    BY <1>2, <1>7 DEF Terminate
  <2> HIDE DEF j
  <2>2. /\ other' = [other EXCEPT ![i] = j + 1] /\ UNCHANGED mtx_al
        /\ st' = [st EXCEPT ![j] = "term"]
        /\ pc' = [pc EXCEPT ![j] = IF @ = "asleep" THEN "lock" ELSE @]
    BY <1>7 DEF Terminate, Signal, AfterWait, j
  <2>3. /\ st'[j] = "term" /\ pc'[j] \in {"lock", "check", "ended"}
        /\ \A k \in Pool : k # j => st'[k] = st[k] /\ pc'[k] = pc[k]
        /\ pc'[j] = "ended" <=> pc[j] = "ended"
    BY <1>3, <1>4, <2>1, <2>2 DEF PlacesOK
  <2>4. PoolTypeOK'
    BY <1>1, <1>2, <2>1, <2>2 DEF Labels
  <2>5. MainOK'
    BY <1>1, <1>2, <1>3, <2>3 DEF MainOK
  <2>6. PlacesOK'
    BY <1>1, <1>2, <1>3, <2>1, <2>3 DEF PlacesOK
  <2>7. HoldersOK'
    BY <1>1, <1>2, <1>3, <1>4, <1>5, <2>1, <2>2, <2>3 DEF HoldersOK
  <2>8. OverOK'
    BY <1>1, <1>2, <1>4, <2>1, <2>3 DEF OverOK
  <2>9. IdleIsCounted'
    BY <1>2, <2>1, <2>3 DEF IdleIsCounted
  <2> QED
    BY <2>4, <2>5, <2>6, <2>7, <2>8, <2>9
<1>8. CASE TerminateEnd(i)
  <2>1. mtx_al' = NULL /\ pc' = [pc EXCEPT ![i] = "ended"] /\ UNCHANGED <<st, other>>
    BY <1>8 DEF TerminateEnd
  <2>2. pc'[i] = "ended" /\ \A k \in Pool : k # i => pc'[k] = pc[k]
    BY <2>1
  <2>3. Idle' = Idle
    BY <1>2, <2>1 DEF Idle
  <2>4. PoolTypeOK'
    BY <1>1, <1>2, <2>1 DEF Labels
  <2>5. MainOK'
    BY <1>1, <1>2, <1>3, <2>2 DEF MainOK
  <2>6. PlacesOK'
    BY <1>1, <1>2, <1>3, <2>1, <2>2 DEF PlacesOK
  <2>7. HoldersOK'
    BY <1>1, <1>2, <1>3, <1>4, <1>5, <2>1, <2>2 DEF HoldersOK
  <2>8. OverOK'
    BY <1>1, <1>2, <1>4, <2>1 DEF OverOK
  <2>9. {k \in Pool : pc[k] = "claim"}' = {k \in Pool : pc[k] = "claim"}
    BY <1>1, <1>2, <2>2
  <2>10. IdleIsCounted'
    BY <1>1, <1>2, <2>1, <2>3, <2>9 DEF IdleIsCounted
  <2> QED
    BY <2>4, <2>5, <2>6, <2>7, <2>8, <2>10
<1> QED
  BY <1>6, <1>7, <1>8

-----------------------------------------------------------------------------
(* qsort_mt *)

\* Before there is work nobody holds a mutex at the end of a step.
LEMMA NoWorkNoHolder ==
    ASSUME PoolInv, \A k \in Pool : st[k] # "work"
    PROVE  \A k \in Pool : mtx_st[k] = NULL /\ pc[k] \notin {"claim", "hand"}
BY DEF PoolInv, PoolTypeOK, HoldersOK, PlacesOK

\* The threads are created.
LEMMA CreateSteps ==
    ASSUME PoolInv, Create \/ CreateFails
    PROVE  PoolInv'
<1> USE DEF PoolInv, PoolTypeOK
<1>1. /\ main.at = "create" /\ main.i < call.maxthreads
      /\ UNCHANGED <<call, bailout, idle, mtx_al, mtx_st, st, other>>
  BY DEF Create, CreateFails
<1>2. bailout /\ main.i \in Nat
      /\ \A j \in Pool : st[j] = "idle" /\ (pc[j] = "none" <=> j >= main.i)
                         /\ pc[j] \in {"none", "lock", "asleep"}
  BY <1>1 DEF MainOK
<1>3. \A j \in Pool : mtx_st[j] = NULL
  BY <1>2, NoWorkNoHolder
<1>4. Pool' = Pool /\ Idle' = Idle /\ Pool \subseteq Nat /\ call.maxthreads \in Nat
  <2> HIDE DEF PoolInv
  <2>1. PoolTypeOK
    BY DEF PoolInv
  <2> QED
    BY <1>1, <2>1, PoolSize DEF Pool, Idle
<1>5. CASE Create
  <2>1. main' = [main EXCEPT !.i = @ + 1] /\ pc' = [pc EXCEPT ![main.i] = "lock"]
    BY <1>5 DEF Create
  <2>2. main.i \in Pool
    BY <1>1, <1>2, <1>4 DEF Pool
  <2>3. main'.at = "create" /\ main'.i = main.i + 1
        /\ main' \in [at : {"libc", "create", "tell", "join", "returned"}, i : Nat]
    BY <1>1, <1>2, <2>1
  <2>4. pc'[main.i] = "lock" /\ \A j \in Pool : j # main.i => pc'[j] = pc[j]
    BY <2>1, <2>2
  <2>5. PoolTypeOK'
    BY <1>1, <1>4, <2>1, <2>2, <2>3 DEF Labels
  <2>6. \A j \in Pool : pc'[j] = "none" <=> j >= main.i + 1
    BY <1>2, <1>4, <2>4
  <2>7. MainOK'
    BY <1>1, <1>2, <1>4, <2>3, <2>4, <2>6 DEF MainOK
  <2>8. PlacesOK'
    BY <1>1, <1>2, <1>4, <2>2, <2>4 DEF PlacesOK
  <2>9. HoldersOK'
    BY <1>1, <1>2, <1>3, <1>4, <2>2, <2>4 DEF HoldersOK
  <2>10. OverOK' /\ IdleIsCounted'
    BY <1>1, <1>2, <1>4 DEF OverOK, IdleIsCounted
  <2> QED
    BY <2>5, <2>7, <2>8, <2>9, <2>10
<1>6. CASE CreateFails
  <2>1. main' = [at |-> "tell", i |-> 0] /\ pc' = pc
    BY <1>6 DEF CreateFails
  <2>2. PoolTypeOK'
    BY <1>1, <1>4, <2>1
  <2>3. MainOK'
    BY <1>1, <1>2, <1>4, <2>1 DEF MainOK
  <2>4. PlacesOK' /\ OverOK' /\ IdleIsCounted'
    BY <1>1, <1>2, <1>4, <2>1 DEF PlacesOK, OverOK, IdleIsCounted
  <2>5. HoldersOK'
    BY <1>1, <1>4, <2>1 DEF HoldersOK
  <2> QED
    BY <2>2, <2>3, <2>4, <2>5
<1> QED
  BY <1>1, <1>5, <1>6

\* The whole array goes to the first thread: all others are idle.
LEMMA HandOutStep ==
    ASSUME PoolInv, HandOut
    PROVE  PoolInv'
<1> USE DEF PoolInv, PoolTypeOK
<1>1. /\ main.at = "create" /\ main.i = call.maxthreads
      /\ bailout' = FALSE /\ idle' = call.maxthreads - 1
      /\ st' = [st EXCEPT ![0] = "work"]
      /\ pc' = [pc EXCEPT ![0] = IF @ = "asleep" THEN "lock" ELSE @]
      /\ main' = [at |-> "join", i |-> 0]
      /\ UNCHANGED <<call, mtx_al, mtx_st, other>>
  BY DEF HandOut, Signal, AfterWait
<1>2. call.maxthreads \in Nat \ {0} /\ Pool \subseteq Nat /\ 0 \in Pool /\ Pool' = Pool
  <2> HIDE DEF PoolInv
  <2>1. PoolTypeOK
    BY DEF PoolInv
  <2> QED
    BY <1>1, <2>1, PoolSize DEF Pool
<1>3. \A j \in Pool : st[j] = "idle" /\ pc[j] \in {"lock", "asleep"}
  <2>1. \A j \in Pool : ~(j >= main.i)
    BY <1>1, <1>2 DEF Pool
  <2> QED
    BY <1>1, <2>1 DEF MainOK
<1>4. \A j \in Pool : mtx_st[j] = NULL
  BY <1>3, NoWorkNoHolder
<1>5. /\ st'[0] = "work" /\ pc'[0] = "lock"
      /\ \A j \in Pool : j # 0 => st'[j] = "idle" /\ pc'[j] = pc[j]
  BY <1>1, <1>2, <1>3
<1>6. PoolTypeOK'
  <2>1. pc' \in [Pool -> Labels] /\ st' \in [Pool -> {"idle", "work", "term"}]
    BY <1>1, <1>2 DEF Labels
  <2>2. /\ main' \in [at : {"libc", "create", "tell", "join", "returned"}, i : Nat]
        /\ idle' \in Int /\ bailout' \in BOOLEAN
    <3>1. main' = [at |-> "join", i |-> 0]
      BY <1>1
    <3>2. main' \in [at : {"libc", "create", "tell", "join", "returned"}, i : Nat]
      BY <3>1
    <3>3. idle' \in Int
      BY <1>1, <1>2
    <3>4. bailout' \in BOOLEAN
      BY <1>1
    <3> QED
      BY <3>2, <3>3, <3>4
  <2> QED
    BY <1>1, <1>2, <2>1, <2>2
<1>7. MainOK'
  BY <1>1, <1>2, <1>3, <1>5 DEF MainOK
<1>8. PlacesOK'
  BY <1>1, <1>2, <1>3, <1>5 DEF PlacesOK, Labels
<1>9. HoldersOK'
  BY <1>1, <1>2, <1>3, <1>4, <1>5 DEF HoldersOK
<1>10. OverOK'
  BY <1>1, <1>2, <1>3, <1>5 DEF OverOK
<1>11. IdleIsCounted'
  <2>1. IsFiniteSet(Pool) /\ Cardinality(Pool) = call.maxthreads
    <3> HIDE DEF PoolInv
    <3>1. PoolTypeOK
      BY DEF PoolInv
    <3> QED
      BY <3>1, PoolSize
  <2>2. Idle' = Pool \ {0}
    BY <1>2, <1>5 DEF Idle
  <2>3. Cardinality(Pool \ {0}) = call.maxthreads - 1
    BY <1>2, <2>1, FS_RemoveElement
  <2>4. {k \in Pool : pc[k] = "claim"}' = {}
    BY <1>2, <1>3, <1>5
  <2>5. Cardinality({}) = 0
    BY FS_EmptySet
  <2>6. idle' = Cardinality(Idle')
    BY <1>1, <2>2, <2>3
  <2>7. idle' \in Int
    BY <1>1, <1>2
  <2>8. Cardinality({k \in Pool : pc[k] = "claim"}') = 0
    BY <2>4, <2>5
  <2>9. idle' = Cardinality(Idle') - Cardinality({k \in Pool : pc[k] = "claim"}')
    BY <2>6, <2>7, <2>8
  <2> QED
    BY <2>9 DEF IdleIsCounted
<1> QED
  BY <1>6, <1>7, <1>8, <1>9, <1>10, <1>11

\* After a failure the threads that were created are told to end, in turn.
LEMMA TellStep ==
    ASSUME PoolInv, Tell
    PROVE  PoolInv'
<1> USE DEF PoolInv, PoolTypeOK
<1> DEFINE j == main.i
<1>1. j \in Pool /\ pc[j] # "none" /\ main.at = "tell" /\ j \in Nat
  BY DEF Tell, Created
<1>2. bailout
  BY <1>1 DEF MainOK
<1>3. \A k \in Pool : st[k] # "work" /\ pc[k] \in {"none", "lock", "asleep", "check", "ended"}
  BY <1>2 DEF OverOK, PlacesOK
<1>4. \A k \in Pool : mtx_st[k] = NULL
  BY <1>3, NoWorkNoHolder
<1>5. /\ st' = [st EXCEPT ![j] = "term"]
      /\ pc' = [pc EXCEPT ![j] = IF @ = "asleep" THEN "lock" ELSE @]
      /\ main' = [main EXCEPT !.at = "join"]
      /\ UNCHANGED <<call, bailout, idle, mtx_al, mtx_st, other>>
  BY DEF Tell, Signal, AfterWait
<1>6. main'.at = "join" /\ main'.i = j
      /\ main' \in [at : {"libc", "create", "tell", "join", "returned"}, i : Nat]
  BY <1>1, <1>5
<1>7. Pool' = Pool
  BY <1>5 DEF Pool
<1>8. \A k \in Pool : k < j => pc[k] = "ended"
  BY <1>1 DEF MainOK
<1> HIDE DEF j
<1>9. /\ st'[j] = "term" /\ pc'[j] \in {"lock", "check", "ended"}
      /\ (pc'[j] = "ended" <=> pc[j] = "ended")
      /\ \A k \in Pool : k # j => st'[k] = st[k] /\ pc'[k] = pc[k]
  BY <1>1, <1>3, <1>5
<1>10. PoolTypeOK'
  BY <1>1, <1>5, <1>6, <1>7 DEF Labels
<1>11. MainOK'
  <2>1. \A k, l \in Pool : l < k /\ pc'[k] # "none" => pc'[l] # "none"
    BY <1>1, <1>9 DEF MainOK
  <2>2. \A k \in Pool : k < j => pc'[k] = "ended"
    BY <1>8, <1>9
  <2> QED
    BY <1>6, <1>7, <2>1, <2>2 DEF MainOK
<1>12. PlacesOK'
  BY <1>1, <1>2, <1>3, <1>5, <1>7, <1>9 DEF PlacesOK
<1>13. HoldersOK'
  BY <1>1, <1>3, <1>4, <1>5, <1>7, <1>9 DEF HoldersOK
<1>14. OverOK' /\ IdleIsCounted'
  BY <1>2, <1>3, <1>5, <1>7, <1>9 DEF OverOK, IdleIsCounted
<1> QED
  BY <1>10, <1>11, <1>12, <1>13, <1>14

\* The threads are joined one after the other, the pool is freed, and the array
\* may still have to be sorted.
LEMMA LastSteps ==
    ASSUME PoolInv, Join \/ Free \/ Libc
    PROVE  PoolInv'
<1> USE DEF PoolInv, PoolTypeOK
<1>1. UNCHANGED <<call, bailout, idle, mtx_al, mtx_st, st, pc, other>>
  BY DEF Join, Free, Libc
<1>2. Pool' = Pool /\ Idle' = Idle
  BY <1>1 DEF Pool, Idle
<1>3. call.maxthreads \in Nat \ {0}
  <2> HIDE DEF PoolInv
  <2> QED
    BY PoolSize DEF PoolInv
<1>4. PlacesOK' /\ HoldersOK' /\ OverOK' /\ IdleIsCounted'
  <2>1. PlacesOK'
    BY <1>1, <1>2 DEF PlacesOK
  <2>2. HoldersOK'
    BY <1>1, <1>2 DEF HoldersOK
  <2>3. OverOK' /\ IdleIsCounted'
    BY <1>1, <1>2 DEF OverOK, IdleIsCounted
  <2> QED
    BY <2>1, <2>2, <2>3
<1>5. /\ main' \in [at : {"libc", "create", "tell", "join", "returned"}, i : Nat]
      /\ main'.at # "create"
  <2>1. CASE Join
    BY <2>1 DEF Join
  <2>2. CASE Free
    BY <2>2 DEF Free
  <2>3. CASE Libc
    BY <2>3 DEF Libc
  <2> QED
    BY <2>1, <2>2, <2>3
<1>6. PoolTypeOK'
  BY <1>1, <1>2, <1>5
<1>7. MainOK'
  <2>1. CASE Join
    <3>1. /\ main.at = "join" /\ main.i \in Pool /\ pc[main.i] = "ended"
          /\ main'.at = (IF bailout THEN "tell" ELSE "join") /\ main'.i = main.i + 1
      BY <2>1 DEF Join, Gone, Created
    <3>2. \A j \in Pool : j < main'.i => pc[j] = "ended"
      <4>1. \A j \in Pool : j < main.i => pc[j] = "ended"
        BY <3>1 DEF MainOK
      <4>2. \A j \in Pool : j < main.i + 1 => j < main.i \/ j = main.i
        BY <1>3 DEF Pool
      <4> QED
        BY <3>1, <4>1, <4>2
    <3> QED
      BY <1>1, <1>2, <3>1, <3>2 DEF MainOK
  <2>2. CASE Free
    <3>1. /\ main.at \in {"tell", "join"} /\ (main.i \notin Pool \/ pc[main.i] = "none")
          /\ main'.at = (IF bailout THEN "libc" ELSE "returned")
      BY <2>2 DEF Free, Created
    <3>2. \A j \in Pool : j < main.i => pc[j] = "ended"
      BY <3>1 DEF MainOK
    <3>3. ASSUME NEW j \in Pool, ~(j < main.i)
          PROVE  pc[j] = "none"
      <4>1. main.i \in Nat /\ main.i <= j /\ main.i \in Pool
        BY <1>3, <3>3 DEF Pool
      <4>2. CASE main.i = j
        BY <3>1, <4>1, <4>2
      <4>3. CASE main.i # j
        <5>1. main.i < j /\ pc[main.i] = "none"
          BY <1>3, <3>1, <4>1, <4>3 DEF Pool
        <5> QED
          BY <4>1, <5>1 DEF MainOK
      <4> QED
        BY <4>2, <4>3
    <3> QED
      BY <1>1, <1>2, <3>1, <3>2, <3>3 DEF MainOK
  <2>3. CASE Libc
    <3>1. main.at = "libc" /\ main'.at = "returned"
      BY <2>3 DEF Libc
    <3> QED
      BY <1>1, <1>2, <3>1 DEF MainOK
  <2> QED
    BY <2>1, <2>2, <2>3
<1> QED
  BY <1>4, <1>6, <1>7

-----------------------------------------------------------------------------
(* The theorems *)

\* The initial states satisfy the invariant: no thread exists.
LEMMA PoolInit == Init => PoolInv
<1> SUFFICES ASSUME Init PROVE PoolInv
  OBVIOUS
<1>1. call \in Calls /\ call.maxthreads \in Nat \ {0} /\ NULL \notin Nat
  BY PoolAssumption DEF Init
<1>2. Pool \subseteq Nat
  BY <1>1 DEF Pool
<1>3. PoolTypeOK
  BY <1>1 DEF Init, PoolTypeOK, Labels
<1>4. MainOK
  BY <1>2 DEF Init, MainOK
<1>5. PlacesOK /\ OverOK /\ IdleIsCounted
  BY DEF Init, PlacesOK, OverOK, IdleIsCounted
<1>6. HoldersOK
  BY <1>1, <1>2 DEF Init, HoldersOK
<1> QED
  BY <1>3, <1>4, <1>5, <1>6 DEF PoolInv

\* Every step keeps the invariant.
LEMMA PoolNext == PoolInv /\ [Next]_vars => PoolInv'
<1> SUFFICES ASSUME PoolInv, [Next]_vars PROVE PoolInv'
  OBVIOUS
<1>1. CASE MainStep
  BY <1>1, CreateSteps, HandOutStep, TellStep, LastSteps DEF MainStep
<1>2. CASE \E i \in Pool : ThreadStep(i) \/ SpuriousReturn(i)
  <2>1. PICK i \in Pool : ThreadStep(i) \/ SpuriousReturn(i)
    BY <1>2
  <2>2. CASE AllocateThread(i)
    BY <2>2, MoveSteps, AllocateStep
  <2>3. CASE WaitForWork(i) \/ SpuriousReturn(i) \/ CheckState(i) \/ Algo(i)
    BY <2>3, MoveSteps
  <2> QED
    BY <2>1, <2>2, <2>3, ClaimStep, HandStep, FinishStep, TerminateSteps DEF ThreadStep
<1>3. CASE Ended \/ UNCHANGED vars
  <2>1. UNCHANGED vars
    BY <1>3 DEF Ended
  <2>2. Pool' = Pool /\ Idle' = Idle
    BY <2>1 DEF vars, Pool, Idle
  <2>3. PoolTypeOK' /\ MainOK' /\ PlacesOK'
    BY <2>1, <2>2 DEF vars, PoolInv, PoolTypeOK, MainOK, PlacesOK
  <2>4. HoldersOK' /\ OverOK' /\ IdleIsCounted'
    BY <2>1, <2>2 DEF vars, PoolInv, HoldersOK, OverOK, IdleIsCounted
  <2> QED
    BY <2>3, <2>4 DEF PoolInv
<1> QED
  BY <1>1, <1>2, <1>3 DEF Next

\* In every state of qsort_mt the threads, their states and the mutexes fit
\* together as the inductive invariant says.
THEOREM PoolInvariant == Spec => []PoolInv
<1>1. Init => PoolInv
  BY PoolInit
<1>2. PoolInv /\ [Next]_vars => PoolInv'
  BY PoolNext
<1> QED
  BY <1>1, <1>2, PTL DEF Spec

\* The counter of the idle threads is exact whenever nobody has been told to
\* end: so the thread that finds all idle is right.
THEOREM IdleIsCountedAlways == Spec => []IdleIsCounted
<1>1. PoolInv => IdleIsCounted
  BY DEF PoolInv
<1> QED
  BY <1>1, PoolInvariant, PTL

\* The pool is freed when all threads that were created have ended.
THEOREM PoolOutlivesThreadsAlways == Spec => []PoolOutlivesThreads
<1>1. PoolInv => PoolOutlivesThreads
  BY DEF PoolInv, MainOK, PoolOutlivesThreads, Created
<1> QED
  BY <1>1, PoolInvariant, PTL

-----------------------------------------------------------------------------
(* The pieces that a thread has to sort *)

Pieces(L) == {p \in [a : Nat, n : Nat] : 0 < p.a /\ 0 < p.n /\ p.a + p.n - 1 <= L}

\* The positions in the pieces of q, and whether two of them are in the same piece.
Cover(q) == UNION {Positions(q[k]) : k \in DOMAIN q}
SamePiece(q, x, y) == \E k \in DOMAIN q : x \in Positions(q[k]) /\ y \in Positions(q[k])

\* The pieces of q lie inside the array and do not overlap.
Apart(q, L) ==
    /\ q \in Seq(Pieces(L))
    /\ \A k, l \in DOMAIN q : k # l => Positions(q[k]) \cap Positions(q[l]) = {}

\* r has the positions P as its first piece, if there are any, and then those of q.
Prefixed(P, q, r, L) ==
    /\ Apart(r, L)
    /\ Cover(r) = P \cup Cover(q)
    /\ \A x, y : SamePiece(r, x, y) <=> (x \in P /\ y \in P) \/ SamePiece(q, x, y)

\* r is q with the n elements from a on as a piece before it.
Added(a, n, q, r, L) ==
    /\ Prefixed(a .. a + n - 1, q, r, L)
    /\ Len(q) \in Nat /\ Len(r) = IF n > 0 THEN Len(q) + 1 ELSE Len(q)

\* A piece in front of others.
LEMMA ConcatAssociative ==
    ASSUME NEW S, NEW x \in Seq(S), NEW y \in Seq(S), NEW z \in Seq(S)
    PROVE  (x \o y) \o z = x \o (y \o z)
OBVIOUS

\* A piece that overlaps with no other is added to them.
LEMMA AddPiece ==
    ASSUME NEW L \in Nat, NEW q, Apart(q, L), NEW a \in Nat, NEW n \in Nat, 0 < a, a + n - 1 <= L,
           (a .. a + n - 1) \cap Cover(q) = {},
           NEW r, r = Piece(a, n) \o q
    PROVE  Added(a, n, q, r, L)
<1> DEFINE P == a .. a + n - 1
<1>1. q \in Seq(Pieces(L)) /\ Len(q) \in Nat /\ DOMAIN q = 1 .. Len(q)
  BY DEF Apart
<1>2. CASE n = 0
  <2>1. r = q
    BY <1>1, <1>2 DEF Piece
  <2>2. P = {}
    BY <1>2
  <2> HIDE DEF Cover, SamePiece
  <2>3. Prefixed({}, q, r, L)
    BY <2>1 DEF Prefixed
  <2> QED
    BY <1>1, <1>2, <2>1, <2>2, <2>3 DEF Added
<1>3. CASE n > 0
  <2> DEFINE p == [a |-> a, n |-> n]
             m == Len(q)
  <2>1. p \in Pieces(L) /\ Positions(p) = P
    BY <1>3 DEF Pieces, Positions
  <2>2. r = <<p>> \o q
    BY <1>3 DEF Piece
  <2> HIDE DEF p, P
  <2>3. r \in Seq(Pieces(L)) /\ Len(r) = m + 1
    BY <1>1, <2>1, <2>2
  <2>4. DOMAIN r = 1 .. m + 1 /\ r[1] = p /\ \A k \in 1 .. m : r[k + 1] = q[k]
    BY <1>1, <2>1, <2>2
  <2>5. \A k \in 1 .. m + 1 : k = 1 \/ \E l \in 1 .. m : k = l + 1
    <3>1. ASSUME NEW k \in 1 .. m + 1, k # 1
          PROVE  k - 1 \in 1 .. m /\ k = (k - 1) + 1
      BY <1>1, <3>1
    <3> QED
      BY <3>1
  <2>6. \A k \in 1 .. m : k + 1 \in 1 .. m + 1 /\ 1 \in 1 .. m + 1
    BY <1>1
  <2>7. 1 \in 1 .. m + 1
    BY <1>1
  <2>8. \A k \in DOMAIN q : Positions(q[k]) \subseteq Cover(q)
    BY DEF Cover
  <2>16. /\ 1 \in DOMAIN r /\ Positions(r[1]) = P
         /\ \A k \in DOMAIN q : k + 1 \in DOMAIN r /\ r[k + 1] = q[k]
         /\ \A k \in DOMAIN r : k = 1 \/ \E l \in DOMAIN q : k = l + 1
    BY <1>1, <2>1, <2>4, <2>5, <2>6, <2>7
  <2>9. Cover(r) = P \cup Cover(q)
    BY ONLY <2>16 DEF Cover
  <2>10. \A x, y : SamePiece(r, x, y) <=> (x \in P /\ y \in P) \/ SamePiece(q, x, y)
    BY ONLY <2>16 DEF SamePiece
  <2>11. \A k \in 1 .. m : Positions(r[1]) \cap Positions(r[k + 1]) = {}
    BY <1>1, <2>1, <2>4, <2>8 DEF P
  <2>12. \A k, l \in 1 .. m : k + 1 # l + 1 => Positions(r[k + 1]) \cap Positions(r[l + 1]) = {}
    BY <1>1, <2>4 DEF Apart
  <2>13. ASSUME NEW k \in DOMAIN r, NEW l \in DOMAIN r, k # l
         PROVE  Positions(r[k]) \cap Positions(r[l]) = {}
    BY ONLY <2>4, <2>5, <2>11, <2>12, <2>13
  <2>14. Apart(r, L)
    BY <2>3, <2>13 DEF Apart
  <2>15. Prefixed(P, q, r, L)
    BY <2>9, <2>10, <2>14 DEF Prefixed
  <2> QED
    BY <1>1, <1>3, <2>3, <2>15 DEF P, Added
<1> QED
  BY <1>2, <1>3

\* The first piece is taken from them.
LEMMA FirstPiece ==
    ASSUME NEW L \in Nat, NEW q, Apart(q, L), q # <<>>, NEW p, p = Head(q)
    PROVE  /\ p \in Pieces(L) /\ Prefixed(Positions(p), Tail(q), q, L)
           /\ Apart(Tail(q), L) /\ Positions(p) \cap Cover(Tail(q)) = {}
           /\ Len(q) \in Nat \ {0} /\ Len(Tail(q)) = Len(q) - 1
<1> DEFINE t == Tail(q)
           m == Len(t)
<1>1. q \in Seq(Pieces(L)) /\ Len(q) \in Nat \ {0} /\ DOMAIN q = 1 .. Len(q)
  BY DEF Apart
<1>2. /\ t \in Seq(Pieces(L)) /\ m \in Nat /\ Len(q) = m + 1 /\ DOMAIN t = 1 .. m
      /\ \A k \in 1 .. m : q[k + 1] = t[k]
  BY <1>1
<1>3. p = q[1] /\ 1 \in DOMAIN q /\ p \in Pieces(L)
  BY <1>1
<1> HIDE DEF t, m
<1>4. \A k \in DOMAIN q : k = 1 \/ \E l \in 1 .. m : k = l + 1
  <2>1. ASSUME NEW k \in DOMAIN q, k # 1
        PROVE  k - 1 \in 1 .. m /\ k = (k - 1) + 1
    <3>1. m \in Nat /\ k \in 1 .. m + 1 /\ k # 1
      BY <1>1, <1>2, <2>1
    <3> QED
      BY ONLY <3>1
  <2> QED
    BY <2>1
<1>5. \A k \in 1 .. m : k + 1 \in DOMAIN q /\ k + 1 # 1
  <2>1. m \in Nat /\ DOMAIN q = 1 .. m + 1
    BY <1>1, <1>2
  <2>2. \A k \in 1 .. m : k + 1 \in 1 .. m + 1 /\ k + 1 # 1
    BY ONLY <2>1
  <2> QED
    BY <2>1, <2>2
<1>6. \A k, l \in 1 .. m : k # l => k + 1 # l + 1
  BY <1>2
<1>7. Apart(t, L)
  <2>1. \A k, l \in 1 .. m : k # l => Positions(t[k]) \cap Positions(t[l]) = {}
    <3>1. \A k, l \in DOMAIN q : k # l => Positions(q[k]) \cap Positions(q[l]) = {}
      BY DEF Apart
    <3> QED
      BY <1>2, <1>5, <1>6, <3>1
  <2> QED
    BY <1>2, <2>1 DEF Apart
<1>8. \A k \in 1 .. m : Positions(p) \cap Positions(t[k]) = {}
  BY <1>2, <1>3, <1>5 DEF Apart
<1>9. Positions(p) \cap Cover(t) = {}
  BY <1>2, <1>8 DEF Cover
<1>10. Cover(q) = Positions(p) \cup Cover(t)
  <2>1. Cover(q) \subseteq Positions(p) \cup Cover(t)
    BY <1>2, <1>3, <1>4 DEF Cover
  <2>2. Positions(p) \subseteq Cover(q)
    BY <1>3 DEF Cover
  <2>3. Cover(t) \subseteq Cover(q)
    BY <1>2, <1>5 DEF Cover
  <2> QED
    BY <2>1, <2>2, <2>3
<1>11. \A x, y : SamePiece(q, x, y) <=>
                     (x \in Positions(p) /\ y \in Positions(p)) \/ SamePiece(t, x, y)
  BY <1>2, <1>3, <1>4, <1>5 DEF SamePiece
<1>12. Prefixed(Positions(p), t, q, L)
  BY <1>10, <1>11 DEF Prefixed
<1>13. Len(t) = Len(q) - 1
  BY <1>1, <1>2 DEF m
<1> QED
  BY <1>1, <1>3, <1>7, <1>9, <1>12, <1>13 DEF t

\* A thread has no piece, or a single one.
LEMMA FewPieces ==
    /\ \A L : Apart(<<>>, L)
    /\ Cover(<<>>) = {}
    /\ \A x, y : ~SamePiece(<<>>, x, y)
    /\ \A L : \A p \in Pieces(L) :
          /\ Apart(<<p>>, L) /\ Cover(<<p>>) = Positions(p) /\ <<p>> # <<>>
          /\ \A x, y : SamePiece(<<p>>, x, y) <=> x \in Positions(p) /\ y \in Positions(p)
<1>1. ASSUME NEW L
      PROVE  Apart(<<>>, L)
  BY DEF Apart
<1>2. Cover(<<>>) = {} /\ \A x, y : ~SamePiece(<<>>, x, y)
  BY DEF Cover, SamePiece
<1>3. ASSUME NEW L, NEW p \in Pieces(L)
      PROVE  /\ Apart(<<p>>, L) /\ Cover(<<p>>) = Positions(p) /\ <<p>> # <<>>
             /\ \A x, y : SamePiece(<<p>>, x, y) <=> x \in Positions(p) /\ y \in Positions(p)
  <2> DEFINE q == <<p>>
  <2>1. q \in Seq(Pieces(L)) /\ DOMAIN q = {1} /\ q[1] = p /\ q # <<>>
    OBVIOUS
  <2> HIDE DEF q
  <2>2. Apart(q, L)
    BY <2>1 DEF Apart
  <2>3. Cover(q) = Positions(p)
    BY <2>1 DEF Cover
  <2>4. \A x, y : SamePiece(q, x, y) <=> x \in Positions(p) /\ y \in Positions(p)
    BY <2>1 DEF SamePiece
  <2> QED
    BY <2>1, <2>2, <2>3, <2>4 DEF q
<1> QED
  BY <1>1, <1>2, <1>3

\* What a pass makes of the pieces q of its thread: the first gives way to the
\* two parts at its ends.
Split(q, p, nl, nr, L, r) ==
    /\ Apart(r, L) /\ Cover(r) \subseteq Cover(q)
    /\ \A x, y : SamePiece(q, x, y) =>
          (x \in Positions(p) /\ y \in Positions(p)) \/
          (x \notin Positions(p) /\ y \notin Positions(p) /\ SamePiece(r, x, y))
    /\ \A x, y \in p.a .. p.a + nl - 1 : SamePiece(r, x, y)
    /\ \A x, y \in p.a + p.n - nr .. p.a + p.n - 1 : SamePiece(r, x, y)
    /\ Len(r) \in Nat /\ (nl > 0 /\ nr > 0 => Len(r) >= 2)

\* The new pieces are parts of the old one and do not overlap.
LEMMA PassSplits ==
    ASSUME NEW L \in Nat, NEW q, Apart(q, L), q # <<>>, NEW p, p = Head(q),
           NEW nl \in Nat, NEW nr \in Nat, nl + nr < p.n,
           NEW r, r = Piece(p.a, nl) \o Piece(p.a + p.n - nr, nr) \o Tail(q)
    PROVE  Split(q, p, nl, nr, L, r)
<1> DEFINE t == Tail(q)
           a == p.a
           n == p.n
           b == a + n - nr
           A == Piece(a, nl)
           B == Piece(b, nr)
           u == B \o t
<1>1. /\ p \in Pieces(L) /\ Prefixed(Positions(p), t, q, L)
      /\ Apart(t, L) /\ Positions(p) \cap Cover(t) = {}
      /\ Len(q) \in Nat \ {0} /\ Len(t) = Len(q) - 1
  BY FirstPiece
<1>2. a \in Nat /\ n \in Nat /\ 0 < a /\ 0 < n /\ a + n - 1 <= L
      /\ Positions(p) = a .. a + n - 1
  BY <1>1 DEF Pieces, Positions
<1> HIDE DEF t, a, n
<1>3. nl + nr < n
  BY DEF n
<1>4. b \in Nat /\ 0 < b /\ b + nr - 1 <= L /\ b + nr - 1 = a + n - 1 /\ a + nl - 1 < b /\ a <= b
  BY <1>2, <1>3
<1> HIDE DEF b
<1>5. r = A \o u
  <2>1. A \in Seq(Pieces(L))
    <3>1. nl > 0 => [a |-> a, n |-> nl] \in Pieces(L)
      BY <1>2, <1>3 DEF Pieces
    <3> QED
      BY <3>1 DEF Piece
  <2>2. B \in Seq(Pieces(L))
    <3>1. nr > 0 => [a |-> b, n |-> nr] \in Pieces(L)
      BY <1>4 DEF Pieces
    <3> QED
      BY <3>1 DEF Piece
  <2>3. t \in Seq(Pieces(L))
    BY <1>1 DEF Apart
  <2>4. r = (A \o B) \o t
    BY DEF t, a, n, b
  <2>5. u = B \o t
    OBVIOUS
  <2> HIDE DEF A, B, u
  <2> QED
    BY ONLY <2>1, <2>2, <2>3, <2>4, <2>5, ConcatAssociative
<1>6. /\ a .. a + nl - 1 \subseteq a .. a + n - 1 /\ b .. b + nr - 1 \subseteq a .. a + n - 1
      /\ (a .. a + nl - 1) \cap (b .. b + nr - 1) = {}
  BY <1>2, <1>3, <1>4
<1>7. Added(b, nr, t, u, L)
  <2>1. (b .. b + nr - 1) \cap Cover(t) = {}
    BY <1>1, <1>2, <1>6
  <2> QED
    BY <1>1, <1>4, <2>1, AddPiece
<1> HIDE DEF A, u
<1>8. Apart(u, L) /\ Cover(u) = (b .. b + nr - 1) \cup Cover(t)
  BY <1>7 DEF Prefixed, Added
<1>9. Added(a, nl, u, r, L)
  <2>1. (a .. a + nl - 1) \cap Cover(u) = {}
    BY <1>1, <1>2, <1>6, <1>8
  <2>2. a + nl - 1 <= L
    BY <1>2, <1>3
  <2> QED
    BY <1>2, <1>5, <1>8, <2>1, <2>2, AddPiece DEF A
<1>10. Apart(r, L) /\ Cover(r) \subseteq Cover(q)
  <2>1. Cover(q) = Positions(p) \cup Cover(t)
    BY <1>1 DEF Prefixed
  <2>2. Apart(r, L) /\ Cover(r) = (a .. a + nl - 1) \cup Cover(u)
    BY <1>9 DEF Prefixed, Added
  <2> QED
    BY <1>2, <1>6, <1>8, <2>1, <2>2
<1>11. ASSUME NEW x, NEW y, SamePiece(q, x, y)
       PROVE  (x \in Positions(p) /\ y \in Positions(p)) \/
              (x \notin Positions(p) /\ y \notin Positions(p) /\ SamePiece(r, x, y))
  <2>1. (x \in Positions(p) /\ y \in Positions(p)) \/ SamePiece(t, x, y)
    BY <1>1, <1>11 DEF Prefixed
  <2>2. SamePiece(t, x, y) => x \in Cover(t) /\ y \in Cover(t)
    BY DEF SamePiece, Cover
  <2>3. SamePiece(t, x, y) => SamePiece(r, x, y)
    BY <1>7, <1>9 DEF Prefixed, Added
  <2> QED
    BY <1>1, <2>1, <2>2, <2>3
<1>12. \A x, y \in a .. a + nl - 1 : SamePiece(r, x, y)
  BY <1>9 DEF Prefixed, Added
<1>13. \A x, y \in b .. b + nr - 1 : SamePiece(r, x, y)
  BY <1>7, <1>9 DEF Prefixed, Added
<1>14. Len(r) \in Nat /\ (nl > 0 /\ nr > 0 => Len(r) >= 2)
  BY <1>7, <1>9 DEF Added
<1>15. \A x, y \in p.a + p.n - nr .. p.a + p.n - 1 : SamePiece(r, x, y)
  BY <1>4, <1>13 DEF b, a, n
<1> QED
  BY <1>10, <1>11, <1>12, <1>14, <1>15 DEF Split, a

-----------------------------------------------------------------------------
(* The order of the array *)

\* v is an element of s that belongs at k: fewer than k elements are less, and at
\* least k are not greater.
Belongs(s, k, v) ==
    /\ v \in {s[j] : j \in DOMAIN s}
    /\ Cardinality({j \in DOMAIN s : s[j] < v}) < k
    /\ Cardinality({j \in DOMAIN s : ~(v < s[j])}) >= k

\* No two elements belong at the same place.
LEMMA OneBelongs ==
    ASSUME NEW s \in Seq(Elements), NEW k \in Nat, NEW v, NEW w, Belongs(s, k, v), Belongs(s, k, w)
    PROVE  v = w
<1>1. /\ Len(s) \in Nat /\ s \in [1 .. Len(s) -> Elements] /\ DOMAIN s = 1 .. Len(s)
  BY ArrayFunction
<1>2. IsFiniteSet(1 .. Len(s))
  BY <1>1, FS_Interval
<1>3. ASSUME NEW x \in Nat, NEW y \in Nat, Belongs(s, k, x), Belongs(s, k, y)
      PROVE  ~(x < y)
  <2> DEFINE A == {j \in DOMAIN s : ~(x < s[j])}
             B == {j \in DOMAIN s : s[j] < y}
  <2>1. SUFFICES ASSUME x < y PROVE FALSE
    OBVIOUS
  <2>6. \A j \in DOMAIN s : s[j] \in Nat
    BY <1>1, ElementsNat
  <2>7. \A j \in DOMAIN s : ~(x < s[j]) => s[j] < y
    BY <2>1, <2>6
  <2>2. A \subseteq B /\ B \subseteq 1 .. Len(s)
    BY <1>1, <2>7
  <2>3. IsFiniteSet(B)
    BY <1>2, <2>2, FS_Subset
  <2>4. Cardinality(A) <= Cardinality(B) /\ Cardinality(A) \in Nat /\ Cardinality(B) \in Nat
    BY <2>2, <2>3, FS_Subset, FS_CardinalityType
  <2>5. Cardinality(A) >= k /\ Cardinality(B) < k
    BY <1>3 DEF Belongs
  <2> QED
    BY <2>4, <2>5
<1>4. v \in Nat /\ w \in Nat
  BY <1>1, ElementsNat DEF Belongs
<1> QED
  BY <1>3, <1>4

\* In a rearrangement of s, an element belongs where it is when nothing before it
\* is greater and nothing behind it is less.
LEMMA InPlace ==
    ASSUME NEW s \in Seq(Elements), NEW brr, Rearranged(s, brr, 1, Len(s)),
           NEW k \in 1 .. Len(s),
           \A x \in 1 .. Len(s) : x < k => brr[x] <= brr[k],
           \A x \in 1 .. Len(s) : k < x => brr[k] <= brr[x]
    PROVE  Belongs(s, k, brr[k])
<1> DEFINE n == Len(s)
           v == brr[k]
           A == {j \in DOMAIN s : s[j] < v}
           B == {j \in DOMAIN s : ~(v < s[j])}
<1>1. n \in Nat /\ s \in [1 .. n -> Elements] /\ DOMAIN s = 1 .. n
  BY ArrayFunction
<1>2. brr \in [1 .. n -> Elements]
  <2>1. brr \in Seq(Elements) /\ Len(brr) = n
    BY DEF Rearranged
  <2> QED
    BY <2>1, ArrayFunction
<1>3. PICK p \in Moves(n, 1, n) : \A m \in 1 .. n : brr[m] = s[p[m]]
  BY DEF Rearranged
<1>4. /\ p \in [1 .. n -> 1 .. n]
      /\ \A i, j \in 1 .. n : p[i] = p[j] => i = j
      /\ \A i \in 1 .. n : \E j \in 1 .. n : p[j] = i
  BY DEF Moves
<1>5. \A m \in 1 .. n : brr[m] \in Nat /\ s[m] \in Nat
  BY <1>1, <1>2, ElementsNat
<1>11. \A m \in 1 .. n : p[m] \in 1 .. n
  BY <1>4
<1>6. v \in Nat /\ v \in {s[j] : j \in DOMAIN s}
  <2>1. k \in 1 .. n
    OBVIOUS
  <2>2. v = s[p[k]] /\ p[k] \in DOMAIN s
    BY <1>1, <1>3, <1>11, <2>1
  <2>3. v \in Nat
    BY <1>5, <2>1
  <2> HIDE DEF v
  <2> QED
    BY <2>2, <2>3
<1>7. /\ \A m \in 1 .. n : brr[m] < v => m \in 1 .. k - 1
      /\ \A m \in 1 .. k : m \in 1 .. n /\ brr[m] <= v
  <2>1. \A m \in 1 .. n : brr[m] < v => m < k
    BY <1>5, <1>6
  <2>2. \A m \in 1 .. k : m \in 1 .. n /\ (m < k \/ m = k)
    BY <1>1
  <2>3. \A m \in 1 .. k : m \in 1 .. n /\ brr[m] <= v
    BY <1>5, <2>2
  <2> QED
    BY <2>1, <2>3
<1>8. IsFiniteSet(1 .. k - 1) /\ Cardinality(1 .. k - 1) = k - 1 /\ IsFiniteSet(1 .. k)
      /\ Cardinality(1 .. k) = k /\ IsFiniteSet(1 .. n)
  <2>1. k \in Nat /\ k - 1 \in Int /\ 1 \in Int /\ k \in Int /\ k >= 1 /\ n \in Int
    BY <1>1
  <2>2. IsFiniteSet(1 .. k - 1) /\ Cardinality(1 .. k - 1) = IF 1 > k - 1 THEN 0 ELSE k - 1 - 1 + 1
    BY <2>1, FS_Interval
  <2>3. IsFiniteSet(1 .. k) /\ Cardinality(1 .. k) = IF 1 > k THEN 0 ELSE k - 1 + 1
    BY <2>1, FS_Interval
  <2>4. IsFiniteSet(1 .. n)
    BY <2>1, FS_Interval
  <2> QED
    BY <2>1, <2>2, <2>3, <2>4
<1> HIDE DEF v
<1>9. Cardinality(A) < k
  <2> DEFINE S == {m \in 1 .. n : brr[m] < v}
             f == [m \in S |-> p[m]]
  <2>1. S \in SUBSET (1 .. k - 1)
    BY <1>7
  <2>2. IsFiniteSet(S) /\ Cardinality(S) <= k - 1 /\ Cardinality(S) \in Nat
    <3> HIDE DEF S
    <3> QED
      BY <1>8, <2>1, FS_Subset, FS_CardinalityType
  <2>3. f \in [S -> A]
    BY <1>1, <1>3, <1>4
  <2>4. \A j \in A : \E m \in S : f[m] = j
    <3>1. ASSUME NEW j \in A
          PROVE  \E m \in S : f[m] = j
      <4>1. j \in 1 .. n /\ s[j] < v
        BY <1>1
      <4>2. PICK m \in 1 .. n : p[m] = j
        BY <1>4, <4>1
      <4>3. m \in S
        BY <1>3, <4>1, <4>2
      <4> QED
        BY <4>2, <4>3
    <3> QED
      BY <3>1
  <2>5. f \in Surjection(S, A)
    <3> HIDE DEF S, f, A
    <3> QED
      BY <2>3, <2>4 DEF Surjection
  <2> HIDE DEF S, f, A
  <2>6. IsFiniteSet(A) /\ Cardinality(A) <= Cardinality(S)
    BY <2>2, <2>5, FS_Surjection
  <2>7. Cardinality(A) \in Nat
    BY <2>6, FS_CardinalityType
  <2> QED
    BY <1>1, <2>2, <2>6, <2>7
<1>10. Cardinality(B) >= k
  <2> DEFINE f == [m \in 1 .. k |-> p[m]]
  <2>1. \A m \in 1 .. k : p[m] \in 1 .. n /\ ~(v < s[p[m]])
    <3>1. ASSUME NEW m \in 1 .. k
          PROVE  p[m] \in 1 .. n /\ ~(v < s[p[m]])
      <4>1. m \in 1 .. n /\ brr[m] <= v /\ brr[m] = s[p[m]] /\ p[m] \in 1 .. n
        BY <1>3, <1>7, <1>11
      <4>2. brr[m] \in Nat
        BY <1>5, <4>1
      <4> QED
        BY <1>6, <4>1, <4>2
    <3> QED
      BY <3>1
  <2>2. f \in [1 .. k -> B]
    BY <1>1, <2>1
  <2>3. \A i, j \in 1 .. k : f[i] = f[j] => i = j
    BY <1>4, <1>7
  <2>4. f \in Injection(1 .. k, B)
    <3> HIDE DEF f, B
    <3> QED
      BY <2>2, <2>3 DEF Injection, IsInjective
  <2>5. B \in SUBSET (1 .. n)
    BY <1>1
  <2> HIDE DEF f, B
  <2>6. IsFiniteSet(B)
    BY <1>8, <2>5, FS_Subset
  <2>7. Cardinality(1 .. k) <= Cardinality(B)
    BY <2>4, <2>6, FS_Injection
  <2>8. Cardinality(B) \in Nat
    BY <2>6, FS_CardinalityType
  <2> QED
    BY <1>8, <2>7, <2>8
<1> QED
  BY <1>6, <1>9, <1>10 DEF Belongs, v

\* SortedInput has at every place the element that belongs there.
LEMMA SortedValue ==
    ASSUME call.a \in Seq(Elements), NEW k \in 1 .. Len(call.a), NEW v, Belongs(call.a, k, v)
    PROVE  SortedInput[k] = v
<1> DEFINE s == call.a
<1>1. Len(s) \in Nat /\ DOMAIN s = 1 .. Len(s) /\ k \in Nat
  BY ArrayFunction
<1>2. SortedInput[k] = CHOOSE w \in {s[j] : j \in DOMAIN s} :
                          /\ Cardinality({j \in DOMAIN s : s[j] < w}) < k
                          /\ Cardinality({j \in DOMAIN s : ~(w < s[j])}) >= k
  BY <1>1 DEF SortedInput, SortedBy
<1>3. v \in {s[j] : j \in DOMAIN s}
      /\ Cardinality({j \in DOMAIN s : s[j] < v}) < k
      /\ Cardinality({j \in DOMAIN s : ~(v < s[j])}) >= k
  BY DEF Belongs
<1>4. ASSUME NEW w \in {s[j] : j \in DOMAIN s},
             Cardinality({j \in DOMAIN s : s[j] < w}) < k,
             Cardinality({j \in DOMAIN s : ~(w < s[j])}) >= k
      PROVE  w = v
  <2>1. Belongs(s, k, w)
    BY <1>4 DEF Belongs
  <2> QED
    BY <1>1, <2>1, OneBelongs
<1> QED
  BY <1>2, <1>3, <1>4

\* It has as many elements as the input.
LEMMA SortedDomain ==
    SortedInput = [k \in DOMAIN call.a |-> SortedInput[k]]
<1> DEFINE s == call.a
           F(k) == CHOOSE v \in {s[j] : j \in DOMAIN s} :
                      /\ Cardinality({j \in DOMAIN s : s[j] < v}) < k
                      /\ Cardinality({j \in DOMAIN s : ~(v < s[j])}) >= k
           D == DOMAIN s
<1>1. SortedInput = [k \in D |-> F(k)]
  BY DEF SortedInput, SortedBy
<1> HIDE DEF F, D
<1>2. SortedInput = [k \in D |-> SortedInput[k]]
  BY <1>1
<1> QED
  BY <1>2 DEF D

\* num_compare orders the elements of main's array as the numbers that they are.
LEMMA SortedCompare ==
    ASSUME call.a \in Seq(Elements)
    PROVE  SortedBy(call.a, LAMBDA x, y : num_compare(x, y) < 0) = SortedInput
<1> DEFINE s == call.a
           F(k) == CHOOSE v \in {s[j] : j \in DOMAIN s} :
                      /\ Cardinality({j \in DOMAIN s : num_compare(s[j], v) < 0}) < k
                      /\ Cardinality({j \in DOMAIN s : ~(num_compare(v, s[j]) < 0)}) >= k
           G(k) == CHOOSE v \in {s[j] : j \in DOMAIN s} :
                      /\ Cardinality({j \in DOMAIN s : s[j] < v}) < k
                      /\ Cardinality({j \in DOMAIN s : ~(v < s[j])}) >= k
           D == DOMAIN s
<1>1. \A j \in DOMAIN s : s[j] \in Elements
  OBVIOUS
<1>2. \A x, y \in Elements : num_compare(x, y) < 0 <=> x < y
  BY NumCompare
<1>3. ASSUME NEW k \in D
      PROVE  F(k) = G(k)
  <2>1. \A v \in {s[j] : j \in DOMAIN s} :
            /\ {j \in DOMAIN s : num_compare(s[j], v) < 0} = {j \in DOMAIN s : s[j] < v}
            /\ {j \in DOMAIN s : ~(num_compare(v, s[j]) < 0)} = {j \in DOMAIN s : ~(v < s[j])}
    BY <1>1, <1>2
  <2>2. \A v : v \in {s[j] : j \in DOMAIN s}
               /\ Cardinality({j \in DOMAIN s : num_compare(s[j], v) < 0}) < k
               /\ Cardinality({j \in DOMAIN s : ~(num_compare(v, s[j]) < 0)}) >= k
               <=> v \in {s[j] : j \in DOMAIN s}
                   /\ Cardinality({j \in DOMAIN s : s[j] < v}) < k
                   /\ Cardinality({j \in DOMAIN s : ~(v < s[j])}) >= k
    BY <2>1
  <2> HIDE DEF s
  <2> QED
    BY <2>2
<1>4. SortedInput = [k \in D |-> G(k)]
  BY DEF SortedInput, SortedBy
<1>5. SortedBy(s, LAMBDA x, y : num_compare(x, y) < 0) = [k \in D |-> F(k)]
  BY DEF SortedBy
<1> HIDE DEF F, G, D
<1>6. [k \in D |-> F(k)] = [k \in D |-> G(k)]
  BY <1>3
<1> QED
  BY <1>4, <1>5, <1>6

-----------------------------------------------------------------------------
(* The inductive invariant of the data *)

Size == Len(call.a)

\* Thread i has something to sort.
Busy(i) == st[i] = "work" /\ mtx_st[i] = NULL /\ pc[i] # "finish"

PiecesOK ==
    /\ todo \in [Pool -> Seq(Pieces(Size))]
    /\ \A i \in Pool : Apart(todo[i], Size)
    /\ \A i, j \in Pool : i # j => Cover(todo[i]) \cap Cover(todo[j]) = {}

\* A thread has pieces as long as it is busy, and two when it may give one away.
TodoOK ==
    /\ main.at = "create" => Size > 0
    /\ \A i \in Pool :
          /\ todo[i] # <<>> <=> Busy(i)
          /\ pc[i] \in {"allocate", "claim", "hand"} => Len(todo[i]) >= 2

\* The pairs of positions that are in a common piece.
Common == {xy \in (1 .. Size) \X (1 .. Size) :
              \E i \in Pool : SamePiece(todo[i], xy[1], xy[2])}

\* The threads rearrange the array, and of two elements in different pieces, or
\* in none, the first is not greater.
SortingOK ==
    /\ ~bailout => Rearranged(call.a, arr, 1, Size) /\ OrderedBut(arr, Size, Common)
    /\ bailout => arr = IF main.at = "returned" THEN SortedInput ELSE call.a

DataInv == PiecesOK /\ TodoOK /\ SortingOK

\* A pair is in Common if it is in a piece.
LEMMA CommonPairs ==
    \A x, y : <<x, y>> \in Common <=>
                 x \in 1 .. Size /\ y \in 1 .. Size /\ \E i \in Pool : SamePiece(todo[i], x, y)
BY DEF Common

\* The array has a size.
LEMMA SizeNat ==
    ASSUME PoolTypeOK
    PROVE  /\ Size \in Nat /\ call.a \in Seq(Elements) /\ DOMAIN call.a = 1 .. Size
           /\ call.maxthreads \in Nat \ {0} /\ call.forkelem \in Nat \ {0}
<1>1. call \in [a : Seq(Elements), maxthreads : Nat \ {0}, forkelem : Nat \ {0}]
  BY PoolAssumption DEF PoolTypeOK
<1>2. call.a \in Seq(Elements)
  BY <1>1
<1> QED
  BY <1>1, <1>2, ArrayFunction DEF Size

\* A step that does not touch the array or the pieces.
LEMMA DataFrame ==
    ASSUME DataInv, UNCHANGED <<call, arr, todo, bailout>>,
           main'.at = "create" => main.at = "create",
           bailout => (main'.at = "returned" <=> main.at = "returned"),
           \A i \in Pool : Busy(i)' <=> Busy(i),
           \A i \in Pool : pc'[i] \in {"allocate", "claim", "hand"} =>
                              pc[i] \in {"allocate", "claim", "hand"}
    PROVE  DataInv'
<1>1. Pool' = Pool /\ Size' = Size
  BY DEF Pool, Size
<1>2. PiecesOK'
  BY <1>1 DEF DataInv, PiecesOK
<1>3. TodoOK'
  BY <1>1 DEF DataInv, TodoOK
<1>4. Common' = Common
  BY <1>1 DEF Common
<1>5. SortedInput' = SortedInput
  BY DEF SortedInput, SortedBy
<1>6. SortingOK'
  <2>1. (~bailout => Rearranged(call.a, arr, 1, Size) /\ OrderedBut(arr, Size, Common))'
    BY <1>1, <1>4 DEF DataInv, SortingOK
  <2>2. (bailout => arr = IF main.at = "returned" THEN SortedInput ELSE call.a)'
    BY <1>5 DEF DataInv, SortingOK
  <2> QED
    BY <2>1, <2>2 DEF SortingOK
<1> QED
  BY <1>2, <1>3, <1>6 DEF DataInv

\* The invariant holds in the beginning.
LEMMA DataInit == Init => DataInv
<1> SUFFICES ASSUME Init PROVE DataInv
  OBVIOUS
<1>1. PoolTypeOK
  BY PoolInit DEF PoolInv
<1>2. \A i \in Pool : todo[i] = <<>> /\ st[i] = "idle" /\ pc[i] = "none"
  BY DEF Init
<1>3. PiecesOK
  <2>1. todo \in [Pool -> Seq(Pieces(Size))]
    BY DEF Init
  <2> QED
    BY <1>2, <2>1, FewPieces DEF PiecesOK
<1>4. TodoOK
  <2>1. main.at = "create" => Size > 0
    BY <1>1, SizeNat DEF Init, Size
  <2> QED
    BY <1>2, <2>1 DEF TodoOK, Busy
<1>5. SortingOK
  BY DEF Init, SortingOK
<1> QED
  BY <1>3, <1>4, <1>5 DEF DataInv

-----------------------------------------------------------------------------
(* Steps that leave the array and the pieces alone *)

\* The steps of main.
LEMMA DataMainSteps ==
    ASSUME PoolInv, DataInv,
           Create \/ CreateFails \/ Tell \/ Join \/ Free
    PROVE  DataInv'
<1>1. PoolTypeOK /\ MainOK /\ PlacesOK /\ OverOK
  BY DEF PoolInv
<1>2. st \in [Pool -> {"idle", "work", "term"}] /\ pc \in [Pool -> Labels]
  BY <1>1 DEF PoolTypeOK
<1>3. CASE Create
  <2>1. /\ UNCHANGED <<call, arr, todo, bailout, st, mtx_st>> /\ pc' = [pc EXCEPT ![main.i] = "lock"]
        /\ main.at = "create" /\ main'.at = "create"
    BY <1>1, <1>3 DEF Create, PoolTypeOK
  <2>2. \A i \in Pool : st[i] = "idle"
    BY <1>1, <2>1 DEF MainOK
  <2>3. \A i \in Pool : Busy(i)' <=> Busy(i)
    BY <2>1, <2>2 DEF Busy
  <2>4. \A i \in Pool : pc'[i] \in {"allocate", "claim", "hand"} =>
                           pc[i] \in {"allocate", "claim", "hand"}
    BY <1>2, <2>1
  <2> QED
    BY <2>1, <2>3, <2>4, DataFrame
<1>4. CASE CreateFails
  <2>1. /\ UNCHANGED <<call, arr, todo, bailout, st, mtx_st, pc>>
        /\ main.at = "create" /\ main'.at = "tell"
    BY <1>4 DEF CreateFails
  <2>2. \A i \in Pool : Busy(i)' <=> Busy(i)
    BY <2>1 DEF Busy
  <2> QED
    BY <2>1, <2>2, DataFrame
<1>5. CASE Tell
  <2>1. /\ UNCHANGED <<call, arr, todo, bailout, mtx_st>> /\ main.at = "tell" /\ main'.at = "join"
        /\ main.i \in Pool /\ st' = [st EXCEPT ![main.i] = "term"]
        /\ pc' = [pc EXCEPT ![main.i] = IF @ = "asleep" THEN AfterWait ELSE @]
    BY <1>1, <1>5 DEF Tell, Created, Signal, PoolTypeOK
  <2>2. \A i \in Pool : st[i] # "work"
    BY <1>1, <2>1 DEF MainOK, OverOK
  <2>3. \A i \in Pool : st'[i] # "work"
    BY <1>2, <2>1, <2>2
  <2>4. \A i \in Pool : Busy(i)' <=> Busy(i)
    BY <2>2, <2>3 DEF Busy
  <2>5. \A i \in Pool : pc'[i] \in {"allocate", "claim", "hand"} =>
                           pc[i] \in {"allocate", "claim", "hand"}
    BY <1>2, <2>1 DEF AfterWait
  <2> QED
    BY <2>1, <2>4, <2>5, DataFrame
<1>6. CASE Join
  <2>1. /\ UNCHANGED <<call, arr, todo, bailout, st, mtx_st, pc>>
        /\ main.at = "join" /\ main'.at # "create" /\ main'.at # "returned"
    BY <1>6 DEF Join
  <2>2. \A i \in Pool : Busy(i)' <=> Busy(i)
    BY <2>1 DEF Busy
  <2> QED
    BY <2>1, <2>2, DataFrame
<1>7. CASE Free
  <2>1. /\ UNCHANGED <<call, arr, todo, bailout, st, mtx_st, pc>>
        /\ main.at \in {"tell", "join"} /\ main'.at = IF bailout THEN "libc" ELSE "returned"
    BY <1>1, <1>7 DEF Free, PoolTypeOK
  <2>2. \A i \in Pool : Busy(i)' <=> Busy(i)
    BY <2>1 DEF Busy
  <2> QED
    BY <2>1, <2>2, DataFrame
<1> QED
  BY <1>3, <1>4, <1>5, <1>6, <1>7

\* The steps of the threads that do not sort or hand over.
LEMMA DataThreadSteps ==
    ASSUME PoolInv, DataInv, NEW i \in Pool,
           \/ WaitForWork(i) \/ SpuriousReturn(i) \/ CheckState(i)
           \/ AllocateThread(i) \/ ClaimThread(i)
           \/ Finish(i) \/ Terminate(i) \/ TerminateEnd(i)
    PROVE  DataInv'
<1>1. PoolTypeOK /\ MainOK /\ PlacesOK /\ HoldersOK /\ OverOK
  BY DEF PoolInv
<1>2. st \in [Pool -> {"idle", "work", "term"}] /\ pc \in [Pool -> Labels]
      /\ mtx_st \in [Pool -> Pool \cup {NULL}]
  BY <1>1 DEF PoolTypeOK
<1>3. UNCHANGED <<call, main, bailout, arr, todo>>
  BY DEF WaitForWork, SpuriousReturn, CheckState, AllocateThread, ClaimThread, Finish,
         Terminate, TerminateEnd
<1>4. SUFFICES /\ \A j \in Pool : Busy(j)' <=> Busy(j)
               /\ \A j \in Pool : pc'[j] \in {"allocate", "claim", "hand"} =>
                                     pc[j] \in {"allocate", "claim", "hand"}
  BY <1>3, DataFrame
<1>5. CASE WaitForWork(i) \/ SpuriousReturn(i) \/ CheckState(i)
           \/ AllocateThread(i) \/ TerminateEnd(i)
  <2>1. UNCHANGED <<st, mtx_st>>
    BY <1>5 DEF WaitForWork, SpuriousReturn, CheckState, AllocateThread, TerminateEnd
  <2>2. PICK q \in {"asleep", "check", "lock", "ended", "algo", "claim"} :
            pc' = [pc EXCEPT ![i] = q] /\ (q = "claim" => pc[i] = "allocate")
    BY <1>5 DEF WaitForWork, SpuriousReturn, CheckState, AllocateThread, TerminateEnd, AfterWait
  <2>3. pc[i] # "finish"
    BY <1>5 DEF WaitForWork, SpuriousReturn, CheckState, AllocateThread, TerminateEnd
  <2>4. \A j \in Pool : pc'[j] = "finish" <=> pc[j] = "finish"
    BY <1>2, <2>2, <2>3
  <2>5. \A j \in Pool : pc'[j] \in {"allocate", "claim", "hand"} =>
                           pc[j] \in {"allocate", "claim", "hand"}
    BY <1>2, <2>2
  <2> QED
    BY <2>1, <2>4, <2>5 DEF Busy
<1>6. CASE ClaimThread(i)
  <2> DEFINE k == other[i]
  <2>1. /\ pc[i] = "claim" /\ k \in Pool /\ st[k] = "idle" /\ i # k
        /\ mtx_st' = [mtx_st EXCEPT ![k] = i] /\ st' = [st EXCEPT ![k] = "work"]
        /\ pc' = [pc EXCEPT ![i] = "hand"]
    BY <1>1, <1>6 DEF ClaimThread, HoldersOK, PlacesOK, Idle
  <2>2. NULL \notin Pool
    BY <1>1, PoolSize
  <2> HIDE DEF k
  <2>3. mtx_st'[k] # NULL /\ st[k] # "work"
    BY <1>2, <2>1, <2>2
  <2>4. \A j \in Pool : j # k => mtx_st'[j] = mtx_st[j] /\ st'[j] = st[j]
    BY <1>2, <2>1
  <2>5. \A j \in Pool : pc'[j] = "finish" <=> pc[j] = "finish"
    BY <1>2, <2>1
  <2>6. \A j \in Pool : pc'[j] \in {"allocate", "claim", "hand"} =>
                           pc[j] \in {"allocate", "claim", "hand"}
    BY <1>2, <2>1
  <2> QED
    BY <2>3, <2>4, <2>5, <2>6 DEF Busy
<1>7. CASE Finish(i)
  <2>1. /\ pc[i] = "finish" /\ mtx_st' = mtx_st /\ st' = [st EXCEPT ![i] = "idle"]
        /\ \E q \in {"terminate", "lock"} : pc' = [pc EXCEPT ![i] = q]
    BY <1>7 DEF Finish
  <2>2. st'[i] = "idle" /\ \A j \in Pool : j # i => st'[j] = st[j] /\ pc'[j] = pc[j]
    BY <1>2, <2>1
  <2>3. \A j \in Pool : pc'[j] \in {"allocate", "claim", "hand"} =>
                           pc[j] \in {"allocate", "claim", "hand"}
    BY <1>2, <2>1
  <2> QED
    BY <2>1, <2>2, <2>3 DEF Busy
<1>8. CASE Terminate(i)
  <2>1. \A j \in Pool : st[j] # "work"
    BY <1>1, <1>8 DEF Terminate, OverOK
  <2>2. st' = st \/ \E k \in Pool : st' = [st EXCEPT ![k] = "term"]
    BY <1>8 DEF Terminate
  <2>3. \A j \in Pool : st'[j] # "work"
    BY <1>2, <2>1, <2>2
  <2>4. pc' = pc \/ \E k \in Pool : pc' = [pc EXCEPT ![k] = IF @ = "asleep" THEN "lock" ELSE @]
    BY <1>8 DEF Terminate, Signal, AfterWait
  <2>5. \A j \in Pool : pc'[j] \in {"allocate", "claim", "hand"} =>
                           pc[j] \in {"allocate", "claim", "hand"}
    BY <1>2, <2>4
  <2> QED
    BY <2>1, <2>3, <2>5 DEF Busy
<1> QED
  BY <1>5, <1>6, <1>7, <1>8

-----------------------------------------------------------------------------
(* Steps that do *)

\* The whole array goes to the first thread.
LEMMA DataHandOut ==
    ASSUME PoolInv, DataInv, HandOut
    PROVE  DataInv'
<1> DEFINE p == [a |-> 1, n |-> Size]
<1>1. PoolTypeOK /\ MainOK
  BY DEF PoolInv
<1>2. /\ main.at = "create" /\ mtx_st[0] = NULL /\ bailout' = FALSE
      /\ todo' = [todo EXCEPT ![0] = Input] /\ st' = [st EXCEPT ![0] = "work"]
      /\ pc' = [pc EXCEPT ![0] = IF @ = "asleep" THEN AfterWait ELSE @]
      /\ main'.at = "join" /\ UNCHANGED <<call, arr, mtx_st>>
  BY DEF HandOut, Signal
<1>3. 0 \in Pool /\ Pool' = Pool /\ Size' = Size /\ Size \in Nat /\ call.a \in Seq(Elements)
  BY <1>1, <1>2, PoolSize, SizeNat DEF Pool, Size
<1>4. Size > 0 /\ bailout /\ arr = call.a
  BY <1>1, <1>2 DEF MainOK, DataInv, TodoOK, SortingOK
<1>5. \A i \in Pool : st[i] = "idle" /\ pc[i] \in {"none", "lock", "asleep"}
  BY <1>1, <1>2 DEF MainOK
<1>6. \A i \in Pool : todo[i] = <<>>
  BY <1>5 DEF DataInv, TodoOK, Busy
<1>7. Input = <<p>>
  BY <1>3, <1>4 DEF Input, Piece, Size
<1>8. p \in Pieces(Size) /\ Positions(p) = 1 .. Size
  BY <1>3, <1>4 DEF Pieces, Positions
<1>9. todo \in [Pool -> Seq(Pieces(Size))]
  BY DEF DataInv, PiecesOK
<1> HIDE DEF p
<1>10. todo'[0] = <<p>> /\ \A i \in Pool : i # 0 => todo'[i] = <<>>
  BY <1>2, <1>3, <1>6, <1>7, <1>9
<1>11. PiecesOK'
  <2>1. <<p>> \in Seq(Pieces(Size))
    BY <1>8
  <2>2. todo' \in [Pool -> Seq(Pieces(Size))]
    BY <1>2, <1>7, <1>9, <2>1
  <2>3. \A i \in Pool : Apart(todo'[i], Size)
    BY <1>8, <1>10, FewPieces
  <2>4. \A i, j \in Pool : i # j => Cover(todo'[i]) \cap Cover(todo'[j]) = {}
    BY <1>10, FewPieces
  <2> QED
    BY <1>3, <2>2, <2>3, <2>4 DEF PiecesOK
<1>12. TodoOK'
  <2>1. st \in [Pool -> {"idle", "work", "term"}] /\ pc \in [Pool -> Labels]
    BY <1>1 DEF PoolTypeOK
  <2>2. \A i \in Pool : pc'[i] \in {"none", "lock", "asleep"}
    BY <1>2, <1>5, <2>1 DEF AfterWait
  <2>3. st'[0] = "work" /\ \A i \in Pool : i # 0 => st'[i] = "idle"
    BY <1>2, <1>3, <1>5, <2>1
  <2>4. <<p>> # <<>>
    OBVIOUS
  <2>5. \A i \in Pool : todo'[i] # <<>> <=> Busy(i)'
    BY <1>2, <1>10, <2>2, <2>3, <2>4 DEF Busy
  <2> QED
    BY <1>2, <1>3, <2>2, <2>5 DEF TodoOK
<1>13. SortingOK'
  <2>1. Rearranged(call.a, arr, 1, Size)
    BY <1>3, <1>4, RearrangedNot
  <2>2. \A x, y \in 1 .. Size : <<x, y>> \in Common'
    <3>1. \A x, y \in 1 .. Size : SamePiece(todo'[0], x, y)
      BY <1>8, <1>10, FewPieces
    <3> QED
      BY <1>3, <3>1 DEF Common
  <2>3. OrderedBut(arr, Size, Common')
    BY <2>2 DEF OrderedBut
  <2> QED
    BY <1>2, <1>3, <2>1, <2>3 DEF SortingOK
<1> QED
  BY <1>11, <1>12, <1>13 DEF DataInv

\* The C library sorts the input.
LEMMA DataLibc ==
    ASSUME PoolInv, DataInv, Libc
    PROVE  DataInv'
<1>1. PoolTypeOK /\ MainOK
  BY DEF PoolInv
<1>2. /\ main.at = "libc" /\ main'.at = "returned"
      /\ arr' = SortedBy(arr, LAMBDA x, y : num_compare(x, y) < 0)
      /\ UNCHANGED <<call, bailout, idle, mtx_al, mtx_st, st, pc, todo, other>>
  BY <1>1 DEF Libc, PoolTypeOK
<1>3. bailout /\ arr = call.a /\ call.a \in Seq(Elements)
  BY <1>1, <1>2, SizeNat DEF MainOK, DataInv, SortingOK
<1>4. SortedInput' = SortedInput
  BY <1>2 DEF SortedInput, SortedBy
<1>5. arr' = SortedInput
  <2>1. SortedBy(call.a, LAMBDA x, y : num_compare(x, y) < 0) = SortedInput
    BY <1>3, SortedCompare
  <2>2. SortedBy(arr, LAMBDA x, y : num_compare(x, y) < 0)
            = SortedBy(call.a, LAMBDA x, y : num_compare(x, y) < 0)
    BY <1>3 DEF SortedBy
  <2> QED
    BY ONLY <1>2, <2>1, <2>2
<1>6. Pool' = Pool /\ Size' = Size
  BY <1>2 DEF Pool, Size
<1>7. PiecesOK'
  BY <1>2, <1>6 DEF DataInv, PiecesOK
<1>8. TodoOK'
  <2>1. \A i \in Pool : Busy(i)' <=> Busy(i)
    BY <1>2 DEF Busy
  <2> QED
    BY <1>2, <1>6, <2>1 DEF DataInv, TodoOK
<1>9. SortingOK'
  <2>1. bailout' /\ main'.at = "returned" /\ arr' = SortedInput'
    BY <1>2, <1>3, <1>4, <1>5
  <2> QED
    BY <2>1 DEF SortingOK
<1> QED
  BY <1>7, <1>8, <1>9 DEF DataInv

\* A pass sorts nothing but the piece of its thread.
LEMMA DataAlgo ==
    ASSUME PoolInv, DataInv, NEW i \in Pool, Algo(i)
    PROVE  DataInv'
<1> DEFINE q == todo[i]
           p == Head(q)
           a == p.a
           n == p.n
           s == Pass(arr, a, n)
           r == Piece(a, s.nl) \o Piece(a + n - s.nr, s.nr) \o Tail(q)
<1>1. PoolTypeOK /\ PlacesOK /\ HoldersOK /\ OverOK
  BY DEF PoolInv
<1>2. st \in [Pool -> {"idle", "work", "term"}] /\ pc \in [Pool -> Labels]
  BY <1>1 DEF PoolTypeOK
<1>3. /\ pc[i] = "algo" /\ arr' = s.arr /\ todo' = [todo EXCEPT ![i] = r]
      /\ pc' = [pc EXCEPT ![i] = IF s.nl > call.forkelem /\ s.nr > call.forkelem
                                   THEN "allocate"
                                 ELSE IF r = <<>> THEN "finish" ELSE "algo"]
      /\ UNCHANGED <<call, main, bailout, st, mtx_st>>
  BY DEF Algo
<1>4. st[i] = "work" /\ mtx_st[i] = NULL /\ ~bailout
  <2>1. pc[i] = "algo" /\ st[i] \in {"idle", "work", "term"} /\ i \in Pool
    BY <1>2, <1>3
  <2>2. PlacesOK /\ HoldersOK /\ OverOK
    BY <1>1
  <2>3. st[i] = "work"
    BY ONLY <2>1, <2>2 DEF PlacesOK
  <2>4. mtx_st[i] = NULL
    BY ONLY <2>1, <2>2 DEF HoldersOK
  <2>5. ~bailout
    BY ONLY <2>1, <2>2, <2>3 DEF OverOK
  <2> QED
    BY <2>3, <2>4, <2>5
<1>5. /\ Pool' = Pool /\ Size' = Size /\ Size \in Nat /\ call.a \in Seq(Elements)
      /\ call.forkelem \in Nat \ {0}
  BY <1>1, <1>3, SizeNat DEF Pool, Size
<1>6. q # <<>> /\ Apart(q, Size)
  BY <1>3, <1>4 DEF DataInv, TodoOK, PiecesOK, Busy
<1>7. Rearranged(call.a, arr, 1, Size) /\ OrderedBut(arr, Size, Common)
  BY <1>4 DEF DataInv, SortingOK
<1>8. arr \in Seq(Elements) /\ Len(arr) = Size
  BY <1>7 DEF Rearranged, Size
<1> HIDE DEF q, p
<1>9. p \in Pieces(Size)
  BY <1>5, <1>6, FirstPiece DEF p
<1>10. a \in Nat \ {0} /\ n \in Nat \ {0} /\ a + n - 1 <= Size /\ a + n <= Len(arr) + 1
       /\ Positions(p) = a .. a + n - 1
  BY <1>5, <1>8, <1>9 DEF Pieces, Positions
<1>11. PassOK(arr, a, n, s)
  <2> HIDE DEF a, n
  <2> QED
    BY <1>8, <1>10, PassPartitions
<1> HIDE DEF s
<1>12. s.nl \in Nat /\ s.nr \in Nat /\ s.nl + s.nr < p.n
  BY <1>11 DEF PassOK
<1>13. Split(q, p, s.nl, s.nr, Size, r)
  BY <1>5, <1>6, <1>12, PassSplits DEF p
<1> HIDE DEF r
<1>14. Apart(r, Size) /\ Cover(r) \subseteq Cover(q) /\ Len(r) \in Nat
       /\ (s.nl > 0 /\ s.nr > 0 => Len(r) >= 2) /\ r \in Seq(Pieces(Size))
  BY <1>13 DEF Split, Apart
<1>15. todo \in [Pool -> Seq(Pieces(Size))]
  BY DEF DataInv, PiecesOK
<1>16. todo'[i] = r /\ \A j \in Pool : j # i => todo'[j] = todo[j]
  BY <1>3, <1>15
<1>17. PiecesOK'
  <2>1. todo' \in [Pool -> Seq(Pieces(Size))]
    BY <1>3, <1>14, <1>15
  <2>2. \A j \in Pool : Apart(todo'[j], Size)
    BY <1>14, <1>16 DEF DataInv, PiecesOK
  <2>3. \A j \in Pool : Cover(todo'[j]) \subseteq Cover(todo[j])
    BY <1>14, <1>16 DEF q
  <2>4. \A j, k \in Pool : j # k => Cover(todo'[j]) \cap Cover(todo'[k]) = {}
    BY <2>3 DEF DataInv, PiecesOK
  <2> QED
    BY <1>5, <2>1, <2>2, <2>4 DEF PiecesOK
<1>18. TodoOK'
  <2>1. /\ pc'[i] = IF s.nl > call.forkelem /\ s.nr > call.forkelem THEN "allocate"
                    ELSE IF r = <<>> THEN "finish" ELSE "algo"
        /\ \A j \in Pool : j # i => pc'[j] = pc[j]
    BY <1>2, <1>3
  <2>2. s.nl > call.forkelem /\ s.nr > call.forkelem => Len(r) >= 2
    BY <1>5, <1>12, <1>14
  <2>3. Len(r) >= 2 => r # <<>>
    BY <1>14
  <2>4. r # <<>> <=> pc'[i] # "finish"
    BY <2>1, <2>2, <2>3
  <2>5. \A j \in Pool : todo'[j] # <<>> <=> Busy(j)'
    BY <1>3, <1>4, <1>16, <2>1, <2>4 DEF Busy, DataInv, TodoOK
  <2>6. \A j \in Pool : pc'[j] \in {"allocate", "claim", "hand"} => Len(todo'[j]) >= 2
    BY <1>16, <2>1, <2>2 DEF DataInv, TodoOK
  <2> QED
    BY <1>3, <1>5, <2>5, <2>6 DEF DataInv, TodoOK
<1>19. SortingOK'
  <2>1. Rearranged(call.a, arr', 1, Size)
    <3>1. Rearranged(arr, arr', a, a + n - 1)
      BY <1>3, <1>11 DEF PassOK
    <3>2. Rearranged(arr, arr', 1, Size)
      <4>1. a \in Int /\ a + n - 1 \in Int /\ 1 <= a /\ a + n - 1 <= Size /\ 1 \in Int /\ Size \in Int
        BY <1>5, <1>10
      <4> HIDE DEF a, n
      <4> QED
        BY <1>8, <3>1, <4>1, RearrangedWider
    <3> QED
      BY <1>5, <1>7, <3>2, RearrangedTwice
  <2>2. \A x, y \in 1 .. Size : SamePiece(r, x, y) => <<x, y>> \in Common'
    BY <1>5, <1>16 DEF Common
  <2>3. ASSUME NEW x, NEW y, <<x, y>> \in Common
        PROVE  \/ x \in a .. a + n - 1 /\ y \in a .. a + n - 1
               \/ x \notin a .. a + n - 1 /\ y \notin a .. a + n - 1 /\ <<x, y>> \in Common'
    <3>1. x \in 1 .. Size /\ y \in 1 .. Size
      BY <2>3, CommonPairs
    <3>2. PICK j \in Pool : SamePiece(todo[j], x, y)
      BY <2>3, CommonPairs
    <3>3. CASE j = i
      BY <1>10, <1>13, <2>2, <3>1, <3>2, <3>3 DEF Split, q
    <3>4. CASE j # i
      <4>1. x \in Cover(todo[j]) /\ y \in Cover(todo[j])
        BY <3>2 DEF SamePiece, Cover
      <4>2. Cover(todo[j]) \cap Cover(q) = {}
        BY <3>4 DEF DataInv, PiecesOK, q
      <4>3. Positions(p) \subseteq Cover(q)
        BY <1>5, <1>6, FirstPiece DEF Prefixed, p
      <4>4. <<x, y>> \in Common'
        BY <1>5, <1>16, <3>1, <3>2, <3>4, SMTT(30) DEF Common
      <4> QED
        BY <1>10, <4>1, <4>2, <4>3, <4>4
    <3> QED
      BY <3>3, <3>4
  <2>4. \A x, y \in a .. a + s.nl - 1 : <<x, y>> \in Common'
    <3>1. \A x \in a .. a + s.nl - 1 : x \in 1 .. Size
      <4> DEFINE c == a + s.nl - 1
      <4>1. s.nl \in Nat /\ s.nl < n /\ a \in Nat /\ 1 <= a /\ n \in Nat /\ Size \in Nat
            /\ a + n - 1 <= Size
        BY <1>5, <1>10, <1>12
      <4>2. c \in Int /\ c <= Size
        <5> HIDE DEF a, n
        <5> QED
          BY <4>1
      <4> HIDE DEF c
      <4> QED
        BY <4>1, <4>2
    <3> QED
      BY <1>13, <2>2, <3>1 DEF Split
  <2>5. \A x, y \in a + n - s.nr .. a + n - 1 : <<x, y>> \in Common'
    <3>1. \A x \in a + n - s.nr .. a + n - 1 : x \in 1 .. Size
      <4> DEFINE b == a + n - s.nr
      <4>3. s.nr \in Nat /\ s.nr < n /\ a \in Nat /\ 1 <= a /\ n \in Nat
        BY <1>10, <1>12
      <4>1. b \in Int /\ 1 <= b /\ a + n - 1 \in Int /\ a + n - 1 <= Size
        <5> HIDE DEF a, n
        <5> QED
          BY <1>10, <4>3
      <4> HIDE DEF b
      <4>2. \A x \in b .. a + n - 1 : x \in 1 .. Size
        BY <1>5, <1>10, <4>1
      <4> QED
        BY <4>2 DEF b
    <3> QED
      BY <1>13, <2>2, <3>1 DEF Split
  <2>6. OrderedBut(arr', Size, Common')
    <3>1. a \in Nat /\ n \in Nat /\ 0 < a
      BY <1>10
    <3> HIDE DEF a, n
    <3>2. OrderedBut(s.arr, Size, Common')
      BY <1>5, <1>7, <1>8, <1>10, <1>11, <2>3, <2>4, <2>5, <3>1, PassKeepsOrder
    <3> QED
      BY <1>3, <3>2
  <2> QED
    BY <1>3, <1>4, <1>5, <2>1, <2>6 DEF SortingOK
<1> QED
  BY <1>17, <1>18, <1>19 DEF DataInv

\* The left one of two pieces goes to a thread that has none.
LEMMA DataHandOver ==
    ASSUME PoolInv, DataInv, NEW i \in Pool, HandOver(i)
    PROVE  DataInv'
<1> DEFINE q == todo[i]
           p == Head(q)
           t == Tail(q)
           j == other[i]
<1>1. PoolTypeOK /\ PlacesOK /\ HoldersOK
  BY DEF PoolInv
<1>2. st \in [Pool -> {"idle", "work", "term"}] /\ pc \in [Pool -> Labels]
      /\ mtx_st \in [Pool -> Pool \cup {NULL}] /\ todo \in [Pool -> Seq(Pieces(Size))]
  BY <1>1 DEF PoolTypeOK, DataInv, PiecesOK
<1>3. /\ pc[i] = "hand" /\ UNCHANGED <<call, main, bailout, arr, st>>
      /\ mtx_st' = [mtx_st EXCEPT ![j] = NULL]
      /\ pc' = [pc EXCEPT ![j] = IF @ = "asleep" THEN AfterWait ELSE @, ![i] = "algo"]
  BY DEF HandOver, SignalAndGo
<1>4. NULL \notin Pool
  BY <1>1, PoolSize
<1>5. /\ j \in Pool /\ mtx_st[j] = i /\ st[j] = "work" /\ pc[j] \in {"lock", "asleep"} /\ i # j
  BY <1>1, <1>3, <1>4 DEF HoldersOK
<1>6. st[i] = "work" /\ mtx_st[i] = NULL
  <2>1. pc[i] = "hand"
    BY <1>3
  <2>2. st[i] = "work"
    BY <1>1, <1>2, <2>1 DEF PlacesOK
  <2>3. mtx_st[i] = NULL
    BY <1>1, <2>1 DEF HoldersOK
  <2> QED
    BY <2>2, <2>3
<1>7. /\ Pool' = Pool /\ Size' = Size /\ Size \in Nat
  BY <1>1, <1>3, SizeNat DEF Pool, Size
<1>8. todo' = [todo EXCEPT ![j] = <<p>>, ![i] = t]
  BY <1>2, <1>5 DEF HandOver, Kept
<1>9. q # <<>> /\ Apart(q, Size) /\ Len(q) >= 2
  BY <1>3, <1>6 DEF DataInv, TodoOK, PiecesOK, Busy
<1>10. todo[j] = <<>>
  BY <1>4, <1>5 DEF DataInv, TodoOK, Busy
<1> HIDE DEF q, j, t, p
<1>11. /\ p \in Pieces(Size) /\ Prefixed(Positions(p), t, q, Size)
       /\ Apart(t, Size) /\ Positions(p) \cap Cover(t) = {}
       /\ Len(q) \in Nat \ {0} /\ Len(t) = Len(q) - 1
  BY <1>7, <1>9, FirstPiece DEF p, t
<1>12. t \in Seq(Pieces(Size)) /\ <<p>> \in Seq(Pieces(Size)) /\ t # <<>> /\ <<p>> # <<>>
  <2>1. t \in Seq(Pieces(Size)) /\ Len(t) >= 1
    BY <1>9, <1>11 DEF Apart
  <2>2. t # <<>>
    BY <2>1
  <2>3. <<p>> \in Seq(Pieces(Size)) /\ <<p>> # <<>>
    BY <1>11
  <2> QED
    BY <2>1, <2>2, <2>3
<1>13. /\ todo'[j] = <<p>> /\ todo'[i] = t
       /\ \A k \in Pool : k # i /\ k # j => todo'[k] = todo[k]
  BY <1>2, <1>5, <1>8
<1>14. Cover(q) = Positions(p) \cup Cover(t) /\ Cover(<<p>>) = Positions(p)
       /\ \A x, y : SamePiece(q, x, y) <=>
                        (x \in Positions(p) /\ y \in Positions(p)) \/ SamePiece(t, x, y)
  BY <1>11, FewPieces DEF Prefixed
<1>15. PiecesOK'
  <2>1. todo' \in [Pool -> Seq(Pieces(Size))]
    BY <1>2, <1>5, <1>8, <1>12
  <2>2. \A k \in Pool : Apart(todo'[k], Size)
    BY <1>11, <1>13, FewPieces DEF DataInv, PiecesOK
  <2>3. /\ Cover(todo'[j]) \subseteq Cover(todo[i]) /\ Cover(todo'[i]) \subseteq Cover(todo[i])
        /\ Cover(todo'[i]) \cap Cover(todo'[j]) = {}
    BY <1>11, <1>13, <1>14 DEF q
  <2>4. ASSUME NEW k \in Pool, NEW l \in Pool, k # l
        PROVE  Cover(todo'[k]) \cap Cover(todo'[l]) = {}
    <3>1. \A m \in Pool : m # i => Cover(todo[i]) \cap Cover(todo[m]) = {}
      BY DEF DataInv, PiecesOK
    <3>2. CASE k \in {i, j} /\ l \in {i, j}
      BY <2>3, <2>4, <3>2
    <3>3. CASE k \in {i, j} /\ l \notin {i, j}
      BY <1>13, <2>3, <3>1, <3>3
    <3>4. CASE k \notin {i, j} /\ l \in {i, j}
      BY <1>13, <2>3, <3>1, <3>4
    <3>5. CASE k \notin {i, j} /\ l \notin {i, j}
      BY <1>13, <2>4, <3>5 DEF DataInv, PiecesOK
    <3> QED
      BY <3>2, <3>3, <3>4, <3>5
  <2> QED
    BY <1>7, <2>1, <2>2, <2>4 DEF PiecesOK
<1>16. TodoOK'
  <2>1. pc'[i] = "algo" /\ pc'[j] = "lock" /\ \A k \in Pool : k # i /\ k # j => pc'[k] = pc[k]
    BY <1>2, <1>3, <1>5 DEF AfterWait
  <2>2. mtx_st'[j] = NULL /\ \A k \in Pool : k # j => mtx_st'[k] = mtx_st[k]
    BY <1>2, <1>3, <1>5
  <2>3. \A k \in Pool : todo'[k] # <<>> <=> Busy(k)'
    <3>1. Busy(i)' /\ todo'[i] # <<>>
      BY <1>3, <1>5, <1>6, <1>12, <1>13, <2>1, <2>2 DEF Busy
    <3>2. \A k \in Pool : k = j => Busy(k)' /\ todo'[k] # <<>>
      BY <1>3, <1>5, <1>12, <1>13, <2>1, <2>2 DEF Busy
    <3>3. \A k \in Pool : k # i /\ k # j => (Busy(k)' <=> Busy(k)) /\ todo'[k] = todo[k]
      BY <1>3, <1>13, <2>1, <2>2 DEF Busy
    <3>4. \A k \in Pool : todo[k] # <<>> <=> Busy(k)
      BY DEF DataInv, TodoOK
    <3> QED
      BY <3>1, <3>2, <3>3, <3>4
  <2>4. \A k \in Pool : pc'[k] \in {"allocate", "claim", "hand"} => Len(todo'[k]) >= 2
    BY <1>13, <2>1 DEF DataInv, TodoOK
  <2> QED
    BY <1>3, <1>7, <2>3, <2>4 DEF DataInv, TodoOK
<1>17. SortingOK'
  <2>1. ASSUME NEW x, NEW y, <<x, y>> \in Common
        PROVE  <<x, y>> \in Common'
    <3>1. x \in 1 .. Size /\ y \in 1 .. Size
      BY <2>1, CommonPairs
    <3>2. PICK k \in Pool : SamePiece(todo[k], x, y)
      BY <2>1, CommonPairs
    <3>3. \E l \in Pool : SamePiece(todo'[l], x, y)
      <4>1. CASE k = i
        <5>1. (x \in Positions(p) /\ y \in Positions(p)) \/ SamePiece(t, x, y)
          BY <1>14, <3>2, <4>1, SMTT(30) DEF q
        <5>2. x \in Positions(p) /\ y \in Positions(p) => SamePiece(todo'[j], x, y)
          BY <1>11, <1>13, FewPieces, SMTT(30)
        <5>3. SamePiece(t, x, y) => SamePiece(todo'[i], x, y)
          BY <1>13
        <5> QED
          BY <1>5, <5>1, <5>2, <5>3
      <4>2. CASE k = j
        BY <1>10, <3>2, <4>2, FewPieces DEF j
      <4>3. CASE k # i /\ k # j
        BY <1>13, <3>2, <4>3
      <4> QED
        BY <4>1, <4>2, <4>3
    <3> QED
      BY <1>7, <3>1, <3>3 DEF Common
  <2>2. OrderedBut(arr, Size, Common) => OrderedBut(arr, Size, Common')
    BY <2>1 DEF OrderedBut
  <2>3. (~bailout => Rearranged(call.a, arr, 1, Size) /\ OrderedBut(arr, Size, Common))'
    BY <1>3, <1>7, <2>2 DEF DataInv, SortingOK
  <2>4. SortedInput' = SortedInput
    BY <1>3 DEF SortedInput, SortedBy
  <2>5. (bailout => arr = IF main.at = "returned" THEN SortedInput ELSE call.a)'
    BY <1>3, <2>4 DEF DataInv, SortingOK
  <2> QED
    BY <2>3, <2>5 DEF SortingOK
<1> QED
  BY <1>15, <1>16, <1>17 DEF DataInv

-----------------------------------------------------------------------------
(* The theorems *)

\* Every step keeps the invariant.
LEMMA DataNext == PoolInv /\ DataInv /\ [Next]_vars => DataInv'
<1> SUFFICES ASSUME PoolInv, DataInv, [Next]_vars PROVE DataInv'
  OBVIOUS
<1>1. CASE MainStep
  BY <1>1, DataMainSteps, DataHandOut, DataLibc DEF MainStep
<1>2. CASE \E i \in Pool : ThreadStep(i) \/ SpuriousReturn(i)
  <2>1. PICK i \in Pool : ThreadStep(i) \/ SpuriousReturn(i)
    BY <1>2
  <2> QED
    BY <2>1, DataThreadSteps, DataAlgo, DataHandOver DEF ThreadStep
<1>3. CASE UNCHANGED vars
  <2>1. UNCHANGED <<call, arr, todo, bailout, main, st, pc, mtx_st>>
    BY <1>3 DEF vars
  <2>2. \A i \in Pool : Busy(i)' <=> Busy(i)
    BY <2>1 DEF Busy
  <2> QED
    BY <2>1, <2>2, DataFrame
<1> QED
  BY <1>1, <1>2, <1>3 DEF Next, Ended

\* The pieces that are to be sorted do not overlap and have a thread that sorts
\* them; outside of them the array is in order, and it is a rearrangement of the
\* input as long as the pool sorts it.
THEOREM DataInvariant == Spec => []DataInv
<1>1. Init => DataInv
  BY DataInit
<1>2. PoolInv /\ DataInv /\ [Next]_vars => DataInv'
  BY DataNext
<1> QED
  BY <1>1, <1>2, PoolInvariant, PTL DEF Spec

\* A thread that wakes up has a reason, and one that works has a piece of the
\* array.
THEOREM WokenForAReasonAlways == Spec => []WokenForAReason
<1>1. PoolInv /\ DataInv => WokenForAReason
  <2> SUFFICES ASSUME PoolInv, DataInv PROVE WokenForAReason
    OBVIOUS
  <2>1. PoolTypeOK /\ PlacesOK /\ HoldersOK
    BY DEF PoolInv
  <2>2. st \in [Pool -> {"idle", "work", "term"}]
    BY <2>1 DEF PoolTypeOK
  <2>3. DOMAIN arr = 1 .. Size /\ Size \in Nat
    <3>1. Size \in Nat /\ DOMAIN call.a = 1 .. Size /\ call.a \in Seq(Elements)
      BY <2>1, SizeNat
    <3>2. CASE ~bailout
      <4>1. arr \in Seq(Elements) /\ Len(arr) = Size
        BY <3>2 DEF DataInv, SortingOK, Rearranged, Size
      <4> QED
        BY <3>1, <4>1, ArrayFunction
    <3>3. CASE bailout
      <4>1. arr = SortedInput \/ arr = call.a
        BY <3>3 DEF DataInv, SortingOK
      <4>2. DOMAIN SortedInput = DOMAIN call.a
        BY SortedDomain
      <4> QED
        BY <3>1, <4>1, <4>2
    <3> QED
      BY <3>2, <3>3
  <2>4. ASSUME NEW i \in Pool, pc[i] = "check"
        PROVE  st[i] # "idle"
    BY <2>1, <2>4 DEF PlacesOK
  <2>5. ASSUME NEW i \in Pool, pc[i] \in {"algo", "allocate", "claim", "hand"}
        PROVE  todo[i] # <<>>
    <3>1. st[i] = "work"
      BY <2>1, <2>2, <2>5 DEF PlacesOK
    <3>2. mtx_st[i] = NULL
      BY <2>1, <2>5 DEF HoldersOK
    <3> QED
      BY <2>5, <3>1, <3>2 DEF DataInv, TodoOK, Busy
  <2>6. ASSUME NEW i \in Pool, NEW k \in DOMAIN todo[i]
        PROVE  todo[i][k].n > 0 /\ Positions(todo[i][k]) \subseteq DOMAIN arr
    <3>1. todo[i] \in Seq(Pieces(Size))
      BY DEF DataInv, PiecesOK
    <3>2. PICK p \in Pieces(Size) : p = todo[i][k]
      BY <3>1
    <3>3. p.n > 0 /\ Positions(p) \subseteq 1 .. Size
      BY <2>3 DEF Pieces, Positions
    <3> QED
      BY <2>3, <3>2, <3>3
  <2> QED
    BY <2>4, <2>5, <2>6 DEF WokenForAReason
<1> QED
  BY <1>1, PoolInvariant, DataInvariant, PTL

\* No element is in two pieces: the threads that sort without a lock do not get
\* in each other's way.
THEOREM PiecesDisjointAlways == Spec => []PiecesDisjoint
<1>1. DataInv => PiecesDisjoint
  <2> SUFFICES ASSUME DataInv, NEW i \in Pool, NEW j \in Pool,
                      NEW k \in DOMAIN todo[i], NEW l \in DOMAIN todo[j], <<i, k>> # <<j, l>>
               PROVE  Positions(todo[i][k]) \cap Positions(todo[j][l]) = {}
    BY DEF PiecesDisjoint
  <2>1. CASE i = j
    BY <2>1 DEF DataInv, PiecesOK, Apart
  <2>2. CASE i # j
    <3>1. Cover(todo[i]) \cap Cover(todo[j]) = {}
      BY <2>2 DEF DataInv, PiecesOK
    <3>2. /\ Positions(todo[i][k]) \subseteq Cover(todo[i])
          /\ Positions(todo[j][l]) \subseteq Cover(todo[j])
      BY DEF Cover
    <3> QED
      BY <3>1, <3>2
  <2> QED
    BY <2>1, <2>2
<1> QED
  BY <1>1, DataInvariant, PTL

\* What is in no piece is where it belongs.
LEMMA PlacedOutside ==
    ASSUME PoolTypeOK, DataInv, ~bailout, NEW k \in 1 .. Size,
           \A i \in Pool : \A l \in DOMAIN todo[i] : k \notin Positions(todo[i][l])
    PROVE  arr[k] = SortedInput[k]
<1>1. Rearranged(call.a, arr, 1, Size) /\ OrderedBut(arr, Size, Common)
  BY DEF DataInv, SortingOK
<1>2. call.a \in Seq(Elements) /\ Size \in Nat
  BY SizeNat
<1>3. \A x : <<x, k>> \notin Common /\ <<k, x>> \notin Common
  BY CommonPairs DEF SamePiece
<1>4. \A x \in 1 .. Size : (x < k => arr[x] <= arr[k]) /\ (k < x => arr[k] <= arr[x])
  BY <1>1, <1>3 DEF OrderedBut
<1>5. Belongs(call.a, k, arr[k])
  BY <1>1, <1>2, <1>4, InPlace DEF Size
<1> QED
  BY <1>2, <1>5, SortedValue DEF Size

\* Whatever is not yet in its place is in a piece that a thread has to sort.
THEOREM NothingLostAlways == Spec => []NothingLost
<1>1. PoolInv /\ DataInv => NothingLost
  <2> SUFFICES ASSUME PoolInv, DataInv, ~bailout, NEW k \in DOMAIN arr, arr[k] # SortedInput[k]
               PROVE  \E i \in Pool : \E l \in DOMAIN todo[i] : k \in Positions(todo[i][l])
    BY DEF NothingLost
  <2>1. PoolTypeOK
    BY DEF PoolInv
  <2>2. arr \in Seq(Elements) /\ Len(arr) = Size
    BY DEF DataInv, SortingOK, Rearranged, Size
  <2>3. k \in 1 .. Size
    BY <2>2, ArrayFunction
  <2> QED
    BY <2>1, <2>3, PlacedOutside
<1> QED
  BY <1>1, PoolInvariant, DataInvariant, PTL

\* When qsort_mt returns, or a thread of the complete pool is told to end, the
\* array is the input in order.
THEOREM SortsAlways == Spec => []Sorts
<1>1. PoolInv /\ DataInv => Sorts
  <2> SUFFICES ASSUME PoolInv, DataInv,
                      main.at = "returned" \/ (~bailout /\ \E i \in Pool : st[i] = "term")
               PROVE  arr = SortedInput
    BY DEF Sorts
  <2>1. PoolTypeOK /\ MainOK /\ PlacesOK /\ OverOK
    BY DEF PoolInv
  <2>2. CASE bailout
    BY <2>2 DEF DataInv, SortingOK
  <2>3. CASE ~bailout
    <3>1. \A i \in Pool : st[i] # "work"
      <4>1. CASE \E i \in Pool : st[i] = "term"
        BY <2>1, <4>1 DEF OverOK
      <4>2. CASE main.at = "returned"
        BY <2>1, <4>2 DEF MainOK, PlacesOK
      <4> QED
        BY <4>1, <4>2
    <3>2. \A i \in Pool : todo[i] = <<>>
      BY <3>1 DEF DataInv, TodoOK, Busy
    <3>3. \A i \in Pool : DOMAIN todo[i] = {}
      BY <3>2
    <3>4. \A k \in 1 .. Size : arr[k] = SortedInput[k]
      BY <2>1, <2>3, <3>3, PlacedOutside
    <3>5. arr \in Seq(Elements) /\ Len(arr) = Size
      BY <2>3 DEF DataInv, SortingOK, Rearranged, Size
    <3>6. arr \in [1 .. Size -> Elements]
      BY <3>5, ArrayFunction
    <3>7. DOMAIN call.a = 1 .. Size
      BY <2>1, SizeNat
    <3>8. SortedInput = [k \in 1 .. Size |-> SortedInput[k]]
      BY <3>7, SortedDomain
    <3>9. arr = [k \in 1 .. Size |-> arr[k]]
      BY <3>6
    <3> QED
      BY <3>4, <3>8, <3>9
  <2> QED
    BY <2>2, <2>3
<1> QED
  BY <1>1, PoolInvariant, DataInvariant, PTL
=============================================================================
