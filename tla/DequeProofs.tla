---------------------------- MODULE DequeProofs ----------------------------
(***************************************************************************)
(* Proofs about Deque: for every number of thieves and of items, the deque *)
(* implements AbstractDeque, on machines that keep the order of stores and *)
(* grow the array, and on machines that do not and need not grow it.       *)
(***************************************************************************)
EXTENDS Deque, SequenceTheorems, WellFoundedInduction, TLAPS

\* What the proofs need of Machines, and what the program does not guarantee:
\* where stores overtake each other, the first array is large enough.
OnlyTSOGrows ==
    \A machine \in Machines : machine[1] = "PSO" => MaxPush <= ArraySize(machine[2])

-----------------------------------------------------------------------------
(* The invariant *)

WorkerPlaces == {"idle", "resize", "push_store", "take_top", "take_cas"}
ThiefPlaces == {"idle", "steal_bottom", "steal_array", "steal_entry", "steal_cas"}
Taking == {"take_top", "take_cas"}
Locals == [t : Nat, b : Nat, a : Nat, x : Nat]

TypeOK ==
    /\ order \in {"TSO", "PSO"}
    /\ top \in Nat
    /\ mem \in [Locations -> Nat]
    /\ pending \in Seq((Locations \cup {FENCE}) \X Nat)
    /\ pc \in [Procs -> WorkerPlaces \cup ThiefPlaces]
    /\ pc[Worker] \in WorkerPlaces /\ \A p \in Thieves : pc[p] \in ThiefPlaces
    /\ loc \in [Procs -> Locals]
    /\ pushed \in 0 .. MaxPush
    /\ items \in Seq(Nat)
    /\ result \in [Procs -> {EMPTY, ABORT, BUSY} \cup (Nat \ {0})]

\* What location l holds once the first n pending stores have reached memory.
Held(n, l) == HeldAfter(mem, pending, n, l)
Views == 0 .. Len(pending)

\* The index after that of the last item.
Bottom == Own(BOTTOM) + IF pc[Worker] \in Taking THEN 1 ELSE 0

\* The item with index j.
ItemAt(j) == items[j - top + 1]

\* top and bottom delimit the items, which fit into the array.
SizesOK ==
    /\ top + Len(items) = Bottom
    /\ Bottom <= pushed
    /\ pushed > 0 => Bottom >= 1
    /\ Len(items) <= ArraySize(Own(ARRAY))

\* The items are different, and were pushed.
ItemsOK ==
    \A i \in DOMAIN items :
        /\ items[i] \in 1 .. pushed
        /\ \A k \in DOMAIN items : i < k => items[i] < items[k]

\* A fence stands before a store of bottom; no array is newer than the owner's,
\* and no bottom beyond the last item.
PendingOK ==
    /\ \A i \in DOMAIN pending : pending[i][1] = FENCE =>
          i > 1 /\ i < Len(pending) /\ pending[i + 1][1] = BOTTOM
    /\ Own(ARRAY) \in Arrays
    /\ \A n \in Views : Held(n, ARRAY) <= Own(ARRAY) /\ Held(n, BOTTOM) <= Bottom

\* On a machine without store order the array never changes, a fence follows
\* each store of an entry, and no bottom before it gives the entry to thieves.
WeakOK ==
    order = "PSO" =>
        /\ MaxPush <= ArraySize(mem[ARRAY])
        /\ \A i \in DOMAIN pending :
              \/ pending[i][1] \in {BOTTOM, FENCE}
              \/ /\ i < Len(pending) /\ pending[i + 1][1] = FENCE
                 /\ \E b \in 0 .. ArraySize(mem[ARRAY]) - 1 :
                       /\ pending[i][1] = Entry(mem[ARRAY], b)
                       /\ \A n \in 0 .. i - 1 : Held(n, BOTTOM) <= b

\* The owner finds every item in its array.
ContentsOK ==
    \A j \in top .. Bottom - 1 : Own(Entry(Own(ARRAY), j)) = ItemAt(j)

\* A thief sees bottom, the array and the entry one after the other: an item
\* below the bottom it has seen is from then on in the array that it sees then.
VisibleOK ==
    \A m, h, n \in Views : m <= h /\ h <= n =>
        \A j \in top .. Bottom - 1 :
            j < Held(m, BOTTOM) => Held(n, Entry(Held(h, ARRAY), j)) = ItemAt(j)

\* What the owner has read is up to date.
WorkerOK ==
    /\ pc[Worker] \in {"resize", "push_store", "take_top", "take_cas"} =>
          loc[Worker].b = Own(BOTTOM) /\ loc[Worker].a = Own(ARRAY)
    /\ pc[Worker] = "resize" => order = "TSO" /\ loc[Worker].a < MaxArray
    /\ pc[Worker] = "push_store" => Len(items) < ArraySize(Own(ARRAY))
    /\ pc[Worker] \in {"resize", "push_store"} => pushed < MaxPush
    /\ pc[Worker] \in Taking => pushed > 0
    /\ pc[Worker] = "take_cas" =>
          /\ pending = <<>> /\ loc[Worker].t = loc[Worker].b /\ loc[Worker].b <= top
          /\ items # <<>> => loc[Worker].x = items[1]

\* No store of s to l could overtake another one.
ClearOf(s, l) == order = "PSO" => \A i \in DOMAIN s : s[i][1] # l

\* The entry l holds the first item, and will.
FirstIn(l) == items # <<>> /\ ClearOf(pending, l)

\* A thief whose top is still that of the deque reads the first item.
ThiefOK(p) ==
    LET t == loc[p].t
        k == loc[p].a
    IN  /\ pc[p] # "idle" => t <= top
        /\ pc[p] = "steal_array" /\ t = top =>
              \A h, n \in Views : h <= n =>
                  LET l == Entry(Held(h, ARRAY), t) IN FirstIn(l) /\ Held(n, l) = items[1]
        /\ pc[p] = "steal_entry" => k <= Own(ARRAY)
        /\ pc[p] = "steal_entry" /\ t = top =>
              \A n \in Views : FirstIn(Entry(k, t)) /\ Held(n, Entry(k, t)) = items[1]
        /\ pc[p] = "steal_cas" /\ t = top => items # <<>> /\ loc[p].x = items[1]

\* An operation that has begun has not returned.
ResultOK ==
    \A p \in Procs : result[p] = BUSY <=> pc[p] \notin {"idle", "resize", "push_store"}

DequeInv ==
    /\ TypeOK /\ SizesOK /\ ItemsOK /\ PendingOK /\ WeakOK /\ ContentsOK /\ VisibleOK
    /\ WorkerOK /\ (\A p \in Thieves : ThiefOK(p)) /\ ResultOK

-----------------------------------------------------------------------------
(* Memory: what HeldAfter gives *)

\* i is the last of the first n stores of s that is to l.
LastWrite(s, n, l, i) == i \in 1 .. n /\ s[i][1] = l /\ \A k \in i + 1 .. n : s[k][1] # l

\* A set of naturals that is not empty has a least element.
LEMMA NatMin ==
    ASSUME NEW T \in SUBSET Nat, T # {} PROVE \E x \in T : \A y \in T : x <= y
<1> DEFINE R == OpToRel(<, Nat)
<1>1. IsWellFoundedOn(R, Nat)
  BY NatLessThanWellFounded
<1> HIDE DEF R
<1>2. PICK x \in T : \A y \in T : ~(<<y, x>> \in R)
  BY <1>1, WFMin
<1>3. \A y \in T : ~(y < x)
  BY <1>2 DEF R, OpToRel
<1> QED
  BY <1>3

\* If one of the first n stores is to l, one of them is the last.
LEMMA LastWriteExists ==
    ASSUME NEW s, NEW n \in Nat, NEW l, \E i \in 1 .. n : s[i][1] = l
    PROVE  \E i : LastWrite(s, n, l, i)
<1> DEFINE T == {d \in 0 .. n - 1 : s[n - d][1] = l}
<1>1. PICK i \in 1 .. n : s[i][1] = l
  OBVIOUS
<1>2. n - i \in 0 .. n - 1 /\ n - (n - i) = i
  OBVIOUS
<1>3. T # {} /\ T \in SUBSET Nat
  <2>1. s[n - (n - i)][1] = l
    BY <1>1, <1>2
  <2>2. n - i \in T
    BY <1>2, <2>1
  <2>3. \A d \in T : d \in Nat
    OBVIOUS
  <2> HIDE DEF T
  <2> QED
    BY <2>2, <2>3
<1>4. PICK d \in T : \A e \in T : d <= e
  BY <1>3, NatMin
<1>5. ASSUME NEW k \in n - d + 1 .. n PROVE s[k][1] # l
  <2>1. n - k \in 0 .. n - 1 /\ n - (n - k) = k /\ ~(d <= n - k)
    BY <1>4
  <2> QED
    BY <2>1, <1>4
<1>6. n - d \in 1 .. n /\ s[n - d][1] = l
  BY <1>4
<1> QED
  BY <1>5, <1>6 DEF LastWrite

\* A location holds what the last store to it has written, ...
LEMMA HeldWritten ==
    ASSUME NEW m, NEW s, NEW n \in Nat, NEW l, NEW i, LastWrite(s, n, l, i)
    PROVE  HeldAfter(m, s, n, l) = s[i][2]
<1> DEFINE W == {k \in 1 .. n : s[k][1] = l}
<1>1. i \in W /\ \A k \in W : i >= k
  BY DEF LastWrite
<1>2. \A x \in W : (\A k \in W : x >= k) => x = i
  BY <1>1
<1>3. Max(W) = i
  BY <1>1, <1>2 DEF Max
<1> QED
  BY <1>1, <1>3 DEF HeldAfter

\* ... or what it held before, when there is no such store.
LEMMA HeldUnwritten ==
    ASSUME NEW m, NEW s, NEW n \in Nat, NEW l, \A i \in 1 .. n : s[i][1] # l
    PROVE  HeldAfter(m, s, n, l) = m[l]
BY DEF HeldAfter

\* It is not changed by stores to other locations, ...
LEMMA HeldSkip ==
    ASSUME NEW m, NEW s, NEW n \in Nat, NEW k \in Nat, n <= k, NEW l,
           \A i \in n + 1 .. k : s[i][1] # l
    PROVE  HeldAfter(m, s, k, l) = HeldAfter(m, s, n, l)
<1>1. CASE \A i \in 1 .. n : s[i][1] # l
  <2>1. \A i \in 1 .. k : s[i][1] # l
    BY <1>1
  <2> QED
    BY <1>1, <2>1 DEF HeldAfter
<1>2. CASE \E i \in 1 .. n : s[i][1] = l
  <2>1. PICK i : LastWrite(s, n, l, i)
    BY <1>2, LastWriteExists
  <2>2. LastWrite(s, k, l, i)
    BY <2>1 DEF LastWrite
  <2> QED
    BY <2>1, <2>2, HeldWritten
<1> QED
  BY <1>1, <1>2

\* ... and depends on the first n stores only.
LEMMA HeldPrefix ==
    ASSUME NEW m, NEW m2, NEW s, NEW s2, NEW n \in Nat, NEW l,
           m2[l] = m[l], \A i \in 1 .. n : s2[i] = s[i]
    PROVE  HeldAfter(m2, s2, n, l) = HeldAfter(m, s, n, l)
<1>1. CASE \A i \in 1 .. n : s[i][1] # l
  BY <1>1 DEF HeldAfter
<1>2. CASE \E i \in 1 .. n : s[i][1] = l
  <2>1. PICK i : LastWrite(s, n, l, i)
    BY <1>2, LastWriteExists
  <2>2. LastWrite(s2, n, l, i) /\ s2[i] = s[i]
    BY <2>1 DEF LastWrite
  <2> QED
    BY <2>1, <2>2, HeldWritten
<1> QED
  BY <1>1, <1>2

\* The first d stores have reached memory, and are dropped.
LEMMA HeldShift ==
    ASSUME NEW m, NEW m2, NEW s, NEW s2, NEW n \in Nat, NEW d \in Nat, NEW l,
           m2[l] = HeldAfter(m, s, d, l), \A i \in 1 .. n : s2[i] = s[i + d]
    PROVE  HeldAfter(m2, s2, n, l) = HeldAfter(m, s, n + d, l)
<1>1. CASE \A i \in 1 .. n : s2[i][1] # l
  <2>1. ASSUME NEW i \in d + 1 .. n + d PROVE s[i][1] # l
    <3>1. i - d \in 1 .. n /\ (i - d) + d = i
      OBVIOUS
    <3> QED
      BY <3>1, <1>1
  <2>2. HeldAfter(m, s, n + d, l) = HeldAfter(m, s, d, l)
    BY <2>1, HeldSkip
  <2> QED
    BY <1>1, <2>2, HeldUnwritten
<1>2. CASE \E i \in 1 .. n : s2[i][1] = l
  <2>1. PICK i : LastWrite(s2, n, l, i)
    BY <1>2, LastWriteExists
  <2>2. ASSUME NEW k \in i + d + 1 .. n + d PROVE s[k][1] # l
    <3>1. k - d \in i + 1 .. n /\ (k - d) + d = k /\ k - d \in 1 .. n
      BY <2>1 DEF LastWrite
    <3> QED
      BY <3>1, <2>1 DEF LastWrite
  <2>3. LastWrite(s, n + d, l, i + d) /\ s2[i] = s[i + d]
    BY <2>1, <2>2 DEF LastWrite
  <2> QED
    BY <2>1, <2>3, HeldWritten
<1> QED
  BY <1>1, <1>2

\* The k-th store of s has reached memory m before those that precede it, which
\* are to other locations: m2 and s2 are what is left, as far as location l and
\* n stores are concerned.
Overtaken(m, s, m2, s2, k, n, l) ==
    /\ \A i \in 1 .. k - 1 : s[i][1] # s[k][1] /\ s2[i] = s[i]
    /\ \A i \in k .. n : s2[i] = s[i + 1]
    /\ m2[l] = IF l = s[k][1] THEN s[k][2] ELSE m[l]

LEMMA HeldWithout ==
    ASSUME NEW m, NEW m2, NEW s, NEW s2, NEW n \in Nat, NEW k \in Nat \ {0}, NEW l,
           Overtaken(m, s, m2, s2, k, n, l)
    PROVE  /\ n >= k => HeldAfter(m2, s2, n, l) = HeldAfter(m, s, n + 1, l)
           /\ n < k => HeldAfter(m2, s2, n, l) =
                         IF l = s[k][1] THEN s[k][2] ELSE HeldAfter(m, s, n, l)
<1>0. /\ \A i \in 1 .. k - 1 : s[i][1] # s[k][1] /\ s2[i] = s[i]
      /\ \A i \in k .. n : s2[i] = s[i + 1]
      /\ m2[l] = IF l = s[k][1] THEN s[k][2] ELSE m[l]
  BY DEF Overtaken
<1>1. CASE n < k /\ l = s[k][1]
  <2>1. \A i \in 1 .. n : s2[i][1] # l
    BY <1>0, <1>1
  <2> QED
    <3>1. m2[l] = s[k][2]
      BY <1>0, <1>1
    <3>2. HeldAfter(m2, s2, n, l) = m2[l]
      BY <2>1, HeldUnwritten
    <3> QED
      BY <1>1, <3>1, <3>2
<1>2. CASE n < k /\ l # s[k][1]
  <2>1. m2[l] = m[l] /\ \A i \in 1 .. n : s2[i] = s[i]
    BY <1>0, <1>2
  <2> QED
    <3>1. HeldAfter(m2, s2, n, l) = HeldAfter(m, s, n, l)
      BY ONLY n \in Nat, <2>1, HeldPrefix
    <3> QED
      BY <1>2, <3>1
<1>3. CASE n >= k
  <2>1. k \in Nat /\ k - 1 \in Nat /\ k <= n + 1
    BY <1>0, <1>3
  <2>2. HeldAfter(m2, s2, k - 1, l) = HeldAfter(m, s, k, l)
    <3>1. CASE l = s[k][1]
      <4>1. \A i \in 1 .. k - 1 : s2[i][1] # l
        BY <1>0, <3>1
      <4>2. LastWrite(s, k, l, k)
        BY <1>0, <3>1 DEF LastWrite
      <4>3. HeldAfter(m2, s2, k - 1, l) = m2[l]
        BY <1>0, <2>1, <4>1 DEF HeldAfter
      <4>4. HeldAfter(m, s, k, l) = s[k][2]
        BY <1>0, <2>1, <4>2, HeldWritten
      <4> QED
        BY <1>0, <3>1, <4>3, <4>4
    <3>2. CASE l # s[k][1]
      <4>1. HeldAfter(m2, s2, k - 1, l) = HeldAfter(m, s, k - 1, l)
        <5>1. k - 1 \in Nat /\ m2[l] = m[l] /\ \A i \in 1 .. k - 1 : s2[i] = s[i]
          BY <1>0, <3>2, <2>1
        <5> QED
          BY <5>1, HeldPrefix
      <4>2. \A i \in (k - 1) + 1 .. k : s[i][1] # l
        BY <1>0, <3>2
      <4>3. HeldAfter(m, s, k, l) = HeldAfter(m, s, k - 1, l)
        BY <1>0, <2>1, <4>2, HeldSkip
      <4> QED
        BY <1>0, <4>1, <4>3
    <3> QED
      BY <1>0, <3>1, <3>2
  <2>3. CASE \A i \in k .. n : s2[i][1] # l
    <3>1. \A i \in (k - 1) + 1 .. n : s2[i][1] # l
      BY <1>0, <2>3
    <3>2. ASSUME NEW i \in k + 1 .. n + 1 PROVE s[i][1] # l
      <4>1. i - 1 \in k .. n /\ (i - 1) + 1 = i
        OBVIOUS
      <4> QED
        BY <1>0, <4>1, <2>3
    <3>3. HeldAfter(m2, s2, n, l) = HeldAfter(m2, s2, k - 1, l)
      BY <1>0, <1>3, <2>1, <3>1, HeldSkip
    <3>4. HeldAfter(m, s, n + 1, l) = HeldAfter(m, s, k, l)
      BY <1>0, <1>3, <2>1, <3>2, HeldSkip
    <3> QED
      BY <1>0, <1>3, <2>2, <3>3, <3>4
  <2>4. CASE \E i \in k .. n : s2[i][1] = l
    <3>1. \E i \in 1 .. n : s2[i][1] = l
      BY <1>0, <2>4
    <3>2. PICK i : LastWrite(s2, n, l, i)
      BY <1>0, <3>1, LastWriteExists
    <3>3. i \in k .. n
      BY <1>0, <3>2, <2>4 DEF LastWrite
    <3>4. ASSUME NEW j \in i + 2 .. n + 1 PROVE s[j][1] # l
      <4>1. j - 1 \in i + 1 .. n /\ j - 1 \in k .. n /\ (j - 1) + 1 = j
        BY <1>0, <3>3
      <4> QED
        BY <1>0, <4>1, <3>2 DEF LastWrite
    <3>5. LastWrite(s, n + 1, l, i + 1) /\ s2[i] = s[i + 1]
      BY <1>0, <3>2, <3>3, <3>4 DEF LastWrite
    <3> QED
      BY <1>0, <1>3, <3>2, <3>5, HeldWritten
  <2> QED
    BY <1>0, <2>3, <2>4
<1> QED
  BY <1>0, <1>1, <1>2, <1>3

\* A store is appended.
LEMMA HeldAppend ==
    ASSUME NEW m, NEW S, NEW s \in Seq(S), NEW st \in S, NEW l
    PROVE  /\ \A n \in 0 .. Len(s) :
                 HeldAfter(m, Append(s, st), n, l) = HeldAfter(m, s, n, l)
           /\ HeldAfter(m, Append(s, st), Len(s) + 1, l) =
                 IF l = st[1] THEN st[2] ELSE HeldAfter(m, s, Len(s), l)
<1> DEFINE s2 == Append(s, st)
           N == Len(s)
<1>1. N \in Nat /\ (\A i \in 1 .. N : s2[i] = s[i]) /\ s2[N + 1] = st
  BY AppendProperties, LenProperties
<1> HIDE DEF s2, N
<1>2. ASSUME NEW n \in 0 .. N PROVE HeldAfter(m, s2, n, l) = HeldAfter(m, s, n, l)
  <2>1. n \in Nat /\ \A i \in 1 .. n : s2[i] = s[i]
    BY <1>1
  <2>2. \A m2 : m2[l] = m[l] => HeldAfter(m2, s2, n, l) = HeldAfter(m, s, n, l)
    BY <2>1, HeldPrefix
  <2> QED
    BY <2>2
<1>3. CASE l = st[1]
  <2>1. LastWrite(s2, N + 1, l, N + 1) /\ N + 1 \in Nat
    BY <1>1, <1>3 DEF LastWrite
  <2>2. HeldAfter(m, s2, N + 1, l) = st[2]
    BY <1>1, <2>1, HeldWritten
  <2> QED
    BY <1>2, <1>3, <2>2 DEF s2, N
<1>4. CASE l # st[1]
  <2>1. \A i \in N + 1 .. N + 1 : s2[i][1] # l
    BY <1>1, <1>4
  <2>2. HeldAfter(m, s2, N + 1, l) = HeldAfter(m, s2, N, l)
    BY <1>1, <2>1, HeldSkip
  <2> QED
    BY <1>1, <1>2, <1>4, <2>2 DEF s2, N
<1> QED
  BY <1>3, <1>4

\* What is held is a number.
LEMMA HeldNumber ==
    ASSUME NEW m \in [Locations -> Nat], NEW s \in Seq((Locations \cup {FENCE}) \X Nat),
           NEW n \in 0 .. Len(s), NEW l \in Locations
    PROVE  HeldAfter(m, s, n, l) \in Nat
<1>1. n \in Nat /\ Len(s) \in Nat /\ n <= Len(s)
  BY LenProperties
<1>2. CASE \A i \in 1 .. n : s[i][1] # l
  BY <1>1, <1>2 DEF HeldAfter
<1>3. CASE \E i \in 1 .. n : s[i][1] = l
  <2>1. PICK i : LastWrite(s, n, l, i)
    BY <1>1, <1>3, LastWriteExists
  <2>2. i \in 1 .. Len(s)
    BY <1>1, <2>1 DEF LastWrite
  <2>3. s[i][2] \in Nat
    BY <2>2, ElementOfSeq
  <2> QED
    BY <1>1, <2>1, <2>3, HeldWritten
<1> QED
  BY <1>2, <1>3

-----------------------------------------------------------------------------
(* Locations *)

\* A positive multiple is not less.
LEMMA PositiveMultiple ==
    ASSUME NEW S \in Nat \ {0}, NEW q \in Int, S * q > 0 PROVE S * q >= S
<1>1. q >= 1
  OBVIOUS
<1> QED
  BY <1>1

LEMMA SameRemainder ==
    ASSUME NEW S \in Nat \ {0}, NEW i \in Nat, NEW j \in Nat, i < j, j - i < S
    PROVE  i % S # j % S
<1>1. i = S * (i \div S) + (i % S) /\ j = S * (j \div S) + (j % S)
  OBVIOUS
<1>2. i \div S \in Nat /\ j \div S \in Nat
  OBVIOUS
<1> SUFFICES ASSUME i % S = j % S PROVE FALSE
  OBVIOUS
<1>3. PICK d \in Nat, e \in Nat : d = i \div S /\ e = j \div S
  BY <1>2
<1>4. j - i = S * (e - d)
  BY <1>1, <1>3
<1>5. PICK q \in Int : q = e - d
  OBVIOUS
<1> QED
  BY <1>4, <1>5, PositiveMultiple

LEMMA ArraySizes ==
    /\ \A k \in Arrays : k \in Nat /\ ArraySize(k) \in Nat \ {0}
    /\ \A k \in Arrays : ArraySize(k + 1) = 2 * ArraySize(k)
BY DequeAssumption DEF Arrays, ArraySize

\* The locations are different: bottom, the array pointer, and the entries of
\* an array for indices that are less than its size apart.
LEMMA Places ==
    /\ BOTTOM \in Locations /\ ARRAY \in Locations /\ FENCE \notin Locations
    /\ BOTTOM # ARRAY
    /\ \A k \in Arrays : \A j \in Nat :
          Entry(k, j) \in Locations /\ Entry(k, j) # BOTTOM /\ Entry(k, j) # ARRAY
    /\ \A k \in Arrays : \A i, j \in Nat :
          i < j /\ j - i < ArraySize(k) => Entry(k, i) # Entry(k, j)
    /\ \A k, h \in Arrays : \A i, j \in Nat : k # h => Entry(k, i) # Entry(h, j)
<1>1. \A i, j, k, h : Entry(k, i) # BOTTOM /\ Entry(k, i) # ARRAY /\ Entry(k, i) # FENCE
  BY DEF Entry, BOTTOM, ARRAY, FENCE
<1>2. BOTTOM # ARRAY /\ BOTTOM # FENCE /\ ARRAY # FENCE
  BY DEF BOTTOM, ARRAY, FENCE
<1>3. BOTTOM \in Locations /\ ARRAY \in Locations /\ FENCE \notin Locations
  BY <1>1, <1>2 DEF Locations
<1>4. ASSUME NEW k \in Arrays, NEW j \in Nat PROVE Entry(k, j) \in Locations
  <2>1. ArraySize(k) \in Nat \ {0}
    BY ArraySizes
  <2>2. j % ArraySize(k) \in 0 .. ArraySize(k) - 1
    BY <2>1
  <2>3. (j % ArraySize(k)) % ArraySize(k) = j % ArraySize(k)
    BY <2>1, <2>2
  <2>4. Entry(k, j) = Entry(k, j % ArraySize(k))
    BY <2>3 DEF Entry
  <2> QED
    BY <2>2, <2>4 DEF Locations
<1>5. ASSUME NEW k \in Arrays, NEW h \in Arrays, NEW i \in Nat, NEW j \in Nat,
             Entry(k, i) = Entry(h, j)
      PROVE  k = h /\ i % ArraySize(k) = j % ArraySize(h)
  BY <1>5 DEF Entry
<1>6. ASSUME NEW k \in Arrays, NEW i \in Nat, NEW j \in Nat, i < j, j - i < ArraySize(k)
      PROVE  Entry(k, i) # Entry(k, j)
  BY <1>5, <1>6, ArraySizes, SameRemainder
<1> QED
  BY <1>1, <1>2, <1>3, <1>4, <1>5, <1>6

-----------------------------------------------------------------------------
(* What the invariant says of a state *)

LEMMA Facts ==
    ASSUME DequeInv
    PROVE  /\ Len(pending) \in Nat /\ 0 \in Views /\ Len(pending) \in Views
           /\ \A n \in Views : \A l \in Locations : Held(n, l) \in Nat
           /\ \A l : Own(l) = Held(Len(pending), l) /\ Held(0, l) = mem[l]
           /\ \A n \in Views : Held(n, ARRAY) \in Arrays
           /\ Own(ARRAY) \in Arrays
           /\ Len(items) \in Nat /\ top \in Nat /\ pushed \in Nat
           /\ Own(BOTTOM) \in Nat /\ Bottom \in Nat
           /\ MaxPush \in Nat /\ pushed <= MaxPush /\ MaxPush < SizeT /\ SizeT \in Nat
<1>1. Len(pending) \in Nat
  BY LenProperties DEF DequeInv, TypeOK
<1>2. \A n \in Views : \A l \in Locations : Held(n, l) \in Nat
  BY HeldNumber DEF DequeInv, TypeOK, Held, Views
<1>3. \A l : Own(l) = Held(Len(pending), l) /\ Held(0, l) = mem[l]
  BY DEF Own, Held, HeldAfter
<1>4. BOTTOM \in Locations /\ ARRAY \in Locations
  BY Places
<1>5. 0 \in Views /\ Len(pending) \in Views
  BY <1>1 DEF Views
<1>6. Own(ARRAY) \in Arrays /\ Own(BOTTOM) \in Nat
  BY <1>2, <1>3, <1>4, <1>5 DEF DequeInv, PendingOK
<1>7. \A n \in Views : Held(n, ARRAY) \in Arrays
  BY <1>2, <1>4, <1>6, DequeAssumption DEF DequeInv, PendingOK, Arrays
<1>8. Bottom \in Nat
  BY <1>6 DEF Bottom
<1>9. Len(items) \in Nat /\ top \in Nat /\ pushed \in 0 .. MaxPush
  BY LenProperties DEF DequeInv, TypeOK
<1>10. MaxPush \in Nat /\ MaxPush < SizeT /\ SizeT \in Nat
  BY DequeAssumption
<1> QED
  BY <1>1, <1>2, <1>3, <1>5, <1>6, <1>7, <1>8, <1>9, <1>10

LEMMA Sizes ==
    ASSUME DequeInv
    PROVE  /\ top + Len(items) = Bottom /\ top <= Bottom /\ Bottom - top = Len(items)
           /\ Bottom <= pushed /\ Bottom <= MaxPush
           /\ Len(items) <= ArraySize(Own(ARRAY)) /\ ArraySize(Own(ARRAY)) \in Nat \ {0}
<1>1. PICK L \in Nat, t \in Nat, b \in Nat, m \in Nat, n \in Nat :
         L = Len(items) /\ t = top /\ b = Bottom /\ m = pushed /\ n = MaxPush /\ m <= n
  BY Facts
<1>2. t + L = b /\ b <= m /\ Len(items) <= ArraySize(Own(ARRAY))
  BY <1>1 DEF DequeInv, SizesOK
<1>3. t <= b /\ b - t = L /\ b <= n
  BY <1>1, <1>2
<1>4. ArraySize(Own(ARRAY)) \in Nat \ {0}
  BY Facts, ArraySizes
<1> QED
  BY <1>1, <1>2, <1>3, <1>4

\* The indices are too small for size_t to overflow.
LEMMA NoOverflow ==
    /\ \A n \in Nat : n + 1 <= MaxPush => Plus1(n) = n + 1
    /\ \A m, n \in Nat : n <= m /\ m <= MaxPush => Minus(m, n) = m - n
<1>1. MaxPush \in Nat /\ SizeT \in Nat \ {0} /\ MaxPush < SizeT
  BY DequeAssumption
<1>2. \A k \in 0 .. SizeT - 1 : k % SizeT = k
  BY <1>1
<1>3. ASSUME NEW m \in Nat, NEW n \in Nat, n <= m, m <= MaxPush PROVE Minus(m, n) = m - n
  <2>1. m + SizeT - n = (m - n) + SizeT /\ m - n \in 0 .. SizeT - 1
    BY <1>1, <1>3
  <2>2. \A k \in 0 .. SizeT - 1 : (k + SizeT) % SizeT = k
    BY <1>1
  <2> QED
    BY <2>1, <2>2 DEF Minus
<1>4. ASSUME NEW n \in Nat, n + 1 <= MaxPush PROVE Plus1(n) = n + 1
  BY <1>1, <1>2, <1>4 DEF Plus1
<1> QED
  BY <1>3, <1>4

\* A step that leaves memory and the deque alone.
LEMMA Quiet ==
    ASSUME DequeInv, UNCHANGED <<order, top, mem, pending, pushed, items>>, Bottom' = Bottom
    PROVE  /\ SizesOK' /\ ItemsOK' /\ PendingOK' /\ WeakOK' /\ ContentsOK' /\ VisibleOK'
           /\ Own(ARRAY)' = Own(ARRAY) /\ Own(BOTTOM)' = Own(BOTTOM)
           /\ \A p \in Thieves :
                 pc'[p] = pc[p] /\ loc'[p] = loc[p] => ThiefOK(p)'
<1>1. \A n, l : HeldAfter(mem', pending', n, l) = HeldAfter(mem, pending, n, l)
  OBVIOUS
<1>2. Len(pending') = Len(pending) /\ Len(items') = Len(items)
  OBVIOUS
<1>3. SizesOK'
  BY <1>1, <1>2 DEF DequeInv, SizesOK, Own
<1>4. ItemsOK'
  BY DEF DequeInv, ItemsOK
<1>5. PendingOK'
  BY <1>1, <1>2 DEF DequeInv, PendingOK, Own, Held, Views
<1>6. WeakOK'
  BY <1>1, <1>2 DEF DequeInv, WeakOK, Held
<1>7. ContentsOK'
  BY <1>1, <1>2 DEF DequeInv, ContentsOK, ItemAt, Own
<1>8. VisibleOK'
  BY <1>1, <1>2 DEF DequeInv, VisibleOK, ItemAt, Held, Views
<1>9. Own(ARRAY)' = Own(ARRAY) /\ Own(BOTTOM)' = Own(BOTTOM)
  BY DEF Own
<1>10. ASSUME NEW p \in Thieves, pc'[p] = pc[p], loc'[p] = loc[p] PROVE ThiefOK(p)'
  BY <1>1, <1>2, <1>9, <1>10 DEF DequeInv, ThiefOK, FirstIn, ClearOf, Held, Views
<1> QED
  BY <1>3, <1>4, <1>5, <1>6, <1>7, <1>8, <1>9, <1>10

-----------------------------------------------------------------------------
(* Steps of a thief *)

\* Only the thief itself changes.
LEMMA ThiefMoves ==
    ASSUME DequeInv, NEW p \in Thieves,
           UNCHANGED <<order, top, mem, pending, pushed, items>>,
           NEW place \in ThiefPlaces, pc' = [pc EXCEPT ![p] = place],
           NEW l \in Locals, loc' = [loc EXCEPT ![p] = l],
           NEW r \in {EMPTY, ABORT, BUSY} \cup (Nat \ {0}), result' = [result EXCEPT ![p] = r],
           r = BUSY <=> place # "idle",
           ThiefOK(p)'
    PROVE  DequeInv'
<1>1. p # Worker /\ p \in Procs /\ Worker \in Procs
  BY DequeAssumption DEF Procs
<1>2. /\ pc'[Worker] = pc[Worker] /\ loc'[Worker] = loc[Worker]
      /\ \A q \in Procs : q # p => pc'[q] = pc[q] /\ loc'[q] = loc[q] /\ result'[q] = result[q]
      /\ pc'[p] = place /\ result'[p] = r
  BY <1>1 DEF DequeInv, TypeOK
<1>3. Bottom' = Bottom
  BY <1>2 DEF Bottom, Own
<1>4. /\ SizesOK' /\ ItemsOK' /\ PendingOK' /\ WeakOK' /\ ContentsOK' /\ VisibleOK'
      /\ Own(ARRAY)' = Own(ARRAY) /\ Own(BOTTOM)' = Own(BOTTOM)
      /\ \A q \in Thieves : pc'[q] = pc[q] /\ loc'[q] = loc[q] => ThiefOK(q)'
  BY <1>3, Quiet
<1>5. TypeOK'
  BY <1>1, <1>2 DEF DequeInv, TypeOK, Procs
<1>6. \A q \in Thieves : ThiefOK(q)'
  BY <1>2, <1>4 DEF Procs
<1>7. WorkerOK'
  BY <1>2, <1>4 DEF DequeInv, WorkerOK
<1>8. ResultOK'
  <2>1. place \notin {"resize", "push_store"}
    BY DEF ThiefPlaces
  <2> QED
    BY <1>2, <2>1 DEF DequeInv, ResultOK
<1> QED
  BY <1>4, <1>5, <1>6, <1>7, <1>8 DEF DequeInv

\* The value of an operation that is in progress is not one that it returns.
LEMMA NotBusy ==
    /\ EMPTY # BUSY /\ ABORT # BUSY /\ \A x \in Nat : x # BUSY
BY DequeAssumption

LEMMA LocalsType ==
    ASSUME NEW l \in Locals
    PROVE  /\ NoLocals \in Locals
           /\ l.t \in Nat /\ l.b \in Nat /\ l.a \in Nat /\ l.x \in Nat
           /\ \A v \in Nat : /\ [l EXCEPT !.t = v] \in Locals
                             /\ [l EXCEPT !.a = v] \in Locals
                             /\ [l EXCEPT !.x = v] \in Locals
BY DEF Locals, NoLocals

LEMMA StealTopKeeps ==
    ASSUME DequeInv, NEW p \in Thieves, StealTop(p), UNCHANGED order PROVE DequeInv'
<1> DEFINE l == [loc[p] EXCEPT !.t = top]
<1>1. p \in Procs /\ loc[p] \in Locals /\ top \in Nat
  BY DEF DequeInv, TypeOK, Procs
<1>2. l \in Locals /\ l.t = top
  BY <1>1 DEF Locals
<1>3. loc' = [loc EXCEPT ![p] = l] /\ pc' = [pc EXCEPT ![p] = "steal_bottom"]
  BY DEF StealTop
<1>4. pc'[p] = "steal_bottom" /\ loc'[p].t = top
  BY <1>1, <1>2, <1>3 DEF DequeInv, TypeOK
<1>5. ThiefOK(p)'
  BY <1>1, <1>4 DEF ThiefOK, StealTop
<1>6. "steal_bottom" \in ThiefPlaces
  BY DEF ThiefPlaces
<1> HIDE DEF l
<1> QED
  BY <1>2, <1>3, <1>5, <1>6, ThiefMoves DEF StealTop

LEMMA StealBottomKeeps ==
    ASSUME DequeInv, NEW p \in Thieves, StealBottom(p), UNCHANGED order PROVE DequeInv'
<1>1. p \in Procs /\ loc[p] \in Locals /\ pc[p] = "steal_bottom"
  BY DEF DequeInv, TypeOK, Procs, StealBottom
<1>2. CASE loc[p].t < mem[BOTTOM] /\ pc' = [pc EXCEPT ![p] = "steal_array"] /\ UNCHANGED <<loc, result>>
  <2> DEFINE t == loc[p].t
  <2>1. t \in Nat /\ t <= top
    BY <1>1, LocalsType DEF DequeInv, ThiefOK
  <2>2. ASSUME t = top
        PROVE  /\ items # <<>>
               /\ \A h, n \in Views : h <= n =>
                     LET k == Entry(Held(h, ARRAY), t) IN FirstIn(k) /\ Held(n, k) = items[1]
    <3>1. Held(0, BOTTOM) = mem[BOTTOM] /\ 0 \in Views
      BY Facts
    <3>2. t < Held(0, BOTTOM) /\ Held(0, BOTTOM) <= Bottom /\ Held(0, BOTTOM) \in Nat
      BY <1>2, <3>1, Facts, Places DEF DequeInv, PendingOK
    <3>3. Len(items) >= 1 /\ items # <<>> /\ t \in top .. Bottom - 1
      BY <2>1, <2>2, <3>2, Facts, Sizes
    <3>4. ItemAt(t) = items[1]
      BY <2>1, <2>2 DEF ItemAt
    <3>5. ASSUME NEW h \in Views, NEW n \in Views, h <= n
          PROVE  Held(n, Entry(Held(h, ARRAY), t)) = items[1]
      <4>1. 0 <= h
        BY Facts DEF Views
      <4> QED
        BY <3>1, <3>2, <3>3, <3>4, <3>5, <4>1 DEF DequeInv, VisibleOK
    <3>6. ASSUME order = "PSO", NEW n \in Views, NEW i \in DOMAIN pending
          PROVE  pending[i][1] # Entry(Held(n, ARRAY), t)
      <4> DEFINE A == mem[ARRAY]
      <4>1. A \in Arrays /\ Held(n, ARRAY) \in Arrays
        BY Facts
      <4>2. CASE pending[i][1] \in {BOTTOM, FENCE}
        BY <4>1, <4>2, <2>1, Places
      <4>3. CASE \E b \in 0 .. ArraySize(A) - 1 :
                       pending[i][1] = Entry(A, b) /\ \A m \in 0 .. i - 1 : Held(m, BOTTOM) <= b
        <5>1. PICK b \in 0 .. ArraySize(A) - 1 :
                 pending[i][1] = Entry(A, b) /\ \A m \in 0 .. i - 1 : Held(m, BOTTOM) <= b
          BY <4>3
        <5>2. 0 \in 0 .. i - 1
          BY Facts DEF DequeInv, TypeOK
        <5>3. t < b /\ b - t < ArraySize(A) /\ b \in Nat
          BY <5>1, <5>2, <3>2, <4>1, <2>1, ArraySizes
        <5>4. Entry(A, t) # Entry(A, b)
          BY <5>3, <4>1, <2>1, Places
        <5> QED
          BY <5>1, <5>3, <5>4, <4>1, <2>1, Places
      <4> QED
        BY <3>6, <4>2, <4>3 DEF DequeInv, WeakOK
    <3> QED
      BY <3>3, <3>5, <3>6 DEF FirstIn, ClearOf
  <2>3. pc'[p] = "steal_array" /\ loc'[p] = loc[p]
    BY <1>1, <1>2 DEF DequeInv, TypeOK
  <2>4. ThiefOK(p)'
    <3>1. \A n, k : HeldAfter(mem', pending', n, k) = HeldAfter(mem, pending, n, k)
      BY DEF StealBottom
    <3> QED
      BY <2>1, <2>2, <2>3, <3>1 DEF ThiefOK, FirstIn, ClearOf, Held, Views, StealBottom
  <2>5. /\ loc' = [loc EXCEPT ![p] = loc[p]] /\ result' = [result EXCEPT ![p] = result[p]]
        /\ result[p] = BUSY /\ "steal_array" \in ThiefPlaces
        /\ result[p] \in {EMPTY, ABORT, BUSY} \cup (Nat \ {0})
    BY <1>1, <1>2 DEF DequeInv, TypeOK, ResultOK, ThiefPlaces
  <2> QED
    BY <1>1, <1>2, <2>4, <2>5, ThiefMoves DEF StealBottom
<1>3. CASE Finish(p, EMPTY)
  <2>1. pc'[p] = "idle" /\ "idle" \in ThiefPlaces
    BY <1>1, <1>3 DEF Finish, DequeInv, TypeOK, ThiefPlaces
  <2>2. ThiefOK(p)'
    BY <2>1 DEF ThiefOK
  <2> QED
    BY <1>1, <1>3, <2>1, <2>2, ThiefMoves, NotBusy, LocalsType DEF StealBottom, Finish
<1> QED
  BY <1>2, <1>3 DEF StealBottom

LEMMA StealArrayKeeps ==
    ASSUME DequeInv, NEW p \in Thieves, StealArray(p), UNCHANGED order PROVE DequeInv'
<1> DEFINE l == [loc[p] EXCEPT !.a = mem[ARRAY]]
<1>1. p \in Procs /\ loc[p] \in Locals /\ pc[p] = "steal_array"
  BY DEF DequeInv, TypeOK, Procs, StealArray
<1>2. mem[ARRAY] \in Nat /\ Held(0, ARRAY) = mem[ARRAY] /\ 0 \in Views
  BY Facts, Places DEF DequeInv, TypeOK
<1>3. l \in Locals /\ l.t = loc[p].t /\ l.a = mem[ARRAY]
  BY <1>1, <1>2 DEF Locals
<1>4. loc' = [loc EXCEPT ![p] = l] /\ pc' = [pc EXCEPT ![p] = "steal_entry"]
  BY DEF StealArray
<1>5. pc'[p] = "steal_entry" /\ loc'[p] = l
  BY <1>1, <1>3, <1>4 DEF DequeInv, TypeOK
<1> HIDE DEF l
<1>6. mem[ARRAY] <= Own(ARRAY)
  BY <1>2 DEF DequeInv, PendingOK
<1>7. loc[p].t <= top
  BY <1>1 DEF DequeInv, ThiefOK
<1>8. ASSUME loc[p].t = top, NEW n \in Views
      PROVE  FirstIn(Entry(mem[ARRAY], top)) /\ Held(n, Entry(mem[ARRAY], top)) = items[1]
  BY <1>1, <1>2, <1>8 DEF DequeInv, ThiefOK, Views
<1>9. ThiefOK(p)'
  <2>1. \A n, k : HeldAfter(mem', pending', n, k) = HeldAfter(mem, pending, n, k)
    BY DEF StealArray
  <2> QED
    BY <1>3, <1>5, <1>6, <1>7, <1>8, <2>1 DEF ThiefOK, FirstIn, ClearOf, Held, Own, Views, StealArray
<1>10. result' = [result EXCEPT ![p] = result[p]] /\ result[p] = BUSY /\ "steal_entry" \in ThiefPlaces
       /\ result[p] \in {EMPTY, ABORT, BUSY} \cup (Nat \ {0})
  BY <1>1 DEF DequeInv, TypeOK, ResultOK, ThiefPlaces, StealArray
<1>11. UNCHANGED <<order, top, mem, pending, pushed, items>>
  BY DEF StealArray
<1> QED
  BY <1>3, <1>4, <1>9, <1>10, <1>11, ThiefMoves

LEMMA StealEntryKeeps ==
    ASSUME DequeInv, NEW p \in Thieves, StealEntry(p), UNCHANGED order PROVE DequeInv'
<1> DEFINE x == mem[Entry(loc[p].a, loc[p].t)]
           l == [loc[p] EXCEPT !.x = x, !.a = 0]
<1>1. p \in Procs /\ loc[p] \in Locals /\ pc[p] = "steal_entry"
  BY DEF DequeInv, TypeOK, Procs, StealEntry
<1>2. loc[p].a \in Arrays /\ loc[p].t \in Nat /\ loc[p].t <= top
  <2>1. loc[p].a \in Nat /\ loc[p].t \in Nat
    BY <1>1, LocalsType
  <2>2. loc[p].a <= Own(ARRAY) /\ loc[p].t <= top /\ Own(ARRAY) \in Arrays
    BY <1>1 DEF DequeInv, ThiefOK, PendingOK
  <2> QED
    BY <2>1, <2>2, DequeAssumption DEF Arrays
<1>3. x \in Nat /\ Held(0, Entry(loc[p].a, loc[p].t)) = x /\ 0 \in Views
  BY <1>2, Facts, Places DEF DequeInv, TypeOK
<1> HIDE DEF x
<1>4. l \in Locals /\ l.t = loc[p].t /\ l.x = x
  BY <1>1, <1>3 DEF Locals
<1>5. loc' = [loc EXCEPT ![p] = l] /\ pc' = [pc EXCEPT ![p] = "steal_cas"]
  BY DEF StealEntry, x
<1>6. pc'[p] = "steal_cas" /\ loc'[p] = l
  BY <1>1, <1>4, <1>5 DEF DequeInv, TypeOK
<1> HIDE DEF l
<1>7. loc[p].t = top => items # <<>> /\ x = items[1]
  BY <1>1, <1>3 DEF DequeInv, ThiefOK, FirstIn
<1>8. ThiefOK(p)'
  BY <1>2, <1>4, <1>6, <1>7 DEF ThiefOK, StealEntry
<1>9. result' = [result EXCEPT ![p] = result[p]] /\ result[p] = BUSY /\ "steal_cas" \in ThiefPlaces
      /\ result[p] \in {EMPTY, ABORT, BUSY} \cup (Nat \ {0})
  BY <1>1 DEF DequeInv, TypeOK, ResultOK, ThiefPlaces, StealEntry
<1>10. UNCHANGED <<order, top, mem, pending, pushed, items>>
  BY DEF StealEntry
<1> QED
  BY <1>4, <1>5, <1>8, <1>9, <1>10, ThiefMoves

-----------------------------------------------------------------------------
(* Items leave the deque *)

\* The item that leaves is the first, or the last.
LEMMA TakeOutFirst ==
    ASSUME DequeInv, items # <<>>, TakeOut(items[1]) PROVE items' = Tail(items)
<1>1. Len(items) \in Nat /\ 1 \in DOMAIN items /\ items \in Seq(Nat)
  BY LenProperties, EmptySeq DEF DequeInv, TypeOK
<1>2. \A n \in DOMAIN items : items[n] = items[1] => n = 1
  BY <1>1 DEF DequeInv, ItemsOK
<1>3. (CHOOSE n \in DOMAIN items : items[n] = items[1]) = 1
  BY <1>1, <1>2
<1>4. items' = RemoveAt(items, 1)
  BY <1>1, <1>3 DEF TakeOut
<1>5. SubSeq(items, 1, 1 - 1) = <<>>
  BY <1>1, SubSeqEmpty
<1>6. SubSeq(items, 1 + 1, Len(items)) = Tail(items) /\ Tail(items) \in Seq(Nat)
  BY <1>1, TailIsSubSeq, HeadTailProperties
<1> QED
  BY <1>4, <1>5, <1>6, ConcatEmptySeq DEF RemoveAt

LEMMA TakeOutLast ==
    ASSUME DequeInv, items # <<>>, TakeOut(items[Len(items)])
    PROVE  items' = SubSeq(items, 1, Len(items) - 1)
<1>1. Len(items) \in Nat /\ Len(items) \in DOMAIN items /\ items \in Seq(Nat)
  BY LenProperties, EmptySeq DEF DequeInv, TypeOK
<1>2. \A n \in DOMAIN items : items[n] = items[Len(items)] => n = Len(items)
  BY <1>1 DEF DequeInv, ItemsOK
<1>3. (CHOOSE n \in DOMAIN items : items[n] = items[Len(items)]) = Len(items)
  BY <1>1, <1>2
<1>4. items' = RemoveAt(items, Len(items))
  BY <1>1, <1>3 DEF TakeOut
<1>5. SubSeq(items, Len(items) + 1, Len(items)) = <<>>
  BY <1>1, SubSeqEmpty
<1>6. SubSeq(items, 1, Len(items) - 1) \in Seq(Nat)
  BY <1>1, SubSeqProperties
<1> QED
  BY <1>4, <1>5, <1>6, ConcatEmptySeq DEF RemoveAt

\* The items that are left when one leaves at the head.
LEMMA AfterFirst ==
    ASSUME DequeInv, items # <<>>, items' = Tail(items)
    PROVE  /\ items' \in Seq(Nat) /\ Len(items') = Len(items) - 1 /\ Len(items) >= 1
           /\ \A i \in DOMAIN items' : items'[i] = items[i + 1] /\ i + 1 \in DOMAIN items
           /\ items[1] \in Nat \ {0}
<1>1. Len(items) \in Nat /\ items \in Seq(Nat) /\ Len(items) >= 1 /\ 1 \in DOMAIN items
  BY LenProperties, EmptySeq DEF DequeInv, TypeOK
<1>2. /\ Tail(items) \in Seq(Nat) /\ Len(Tail(items)) = Len(items) - 1
      /\ \A i \in 1 .. Len(Tail(items)) : Tail(items)[i] = items[i + 1]
  BY <1>1, HeadTailProperties
<1>3. \A i \in DOMAIN items' : i \in 1 .. Len(items) - 1 /\ i + 1 \in DOMAIN items
  BY <1>1, <1>2
<1>4. items[1] \in Nat \ {0}
  BY <1>1, Facts DEF DequeInv, ItemsOK
<1> QED
  BY <1>1, <1>2, <1>3, <1>4

\* A thief takes the first item: no other thief can any more.
LEMMA StealCasKeeps ==
    ASSUME DequeInv, NEW p \in Thieves, StealCas(p), UNCHANGED order PROVE DequeInv'
<1>1. p \in Procs /\ loc[p] \in Locals /\ pc[p] = "steal_cas" /\ p # Worker /\ Worker \in Procs
  BY DequeAssumption DEF DequeInv, TypeOK, Procs, StealCas
<1>2. CASE top # loc[p].t /\ Finish(p, ABORT) /\ UNCHANGED <<top, items>>
  <2>1. pc'[p] = "idle" /\ "idle" \in ThiefPlaces
    BY <1>1, <1>2 DEF Finish, DequeInv, TypeOK, ThiefPlaces
  <2>2. ThiefOK(p)'
    BY <2>1 DEF ThiefOK
  <2>3. UNCHANGED <<order, top, mem, pending, pushed, items>>
    BY <1>2 DEF StealCas
  <2> QED
    BY <1>1, <1>2, <2>1, <2>2, <2>3, ThiefMoves, NotBusy, LocalsType DEF Finish
<1>3. CASE top = loc[p].t /\ top' = Plus1(top) /\ TakeOut(loc[p].x) /\ Finish(p, loc[p].x)
  <2>1. items # <<>> /\ loc[p].x = items[1]
    BY <1>1, <1>3 DEF DequeInv, ThiefOK
  <2>2. items' = Tail(items)
    BY <1>3, <2>1, TakeOutFirst
  <2>3. /\ items' \in Seq(Nat) /\ Len(items') = Len(items) - 1 /\ Len(items) >= 1
        /\ \A i \in DOMAIN items' : items'[i] = items[i + 1] /\ i + 1 \in DOMAIN items
        /\ items[1] \in Nat \ {0}
    BY <2>1, <2>2, AfterFirst
  <2>4. top' = top + 1 /\ top' \in Nat
    <3>1. top + 1 <= MaxPush /\ top \in Nat
      BY <2>3, Facts DEF DequeInv, SizesOK
    <3> QED
      BY <1>3, <3>1, NoOverflow
  <2>5. /\ UNCHANGED <<order, mem, pending, pushed>> /\ result' = [result EXCEPT ![p] = items[1]]
        /\ pc' = [pc EXCEPT ![p] = "idle"] /\ loc' = [loc EXCEPT ![p] = NoLocals]
    BY <1>3, <2>1 DEF StealCas, Finish
  <2>6. /\ pc'[Worker] = pc[Worker] /\ loc'[Worker] = loc[Worker]
        /\ pc'[p] = "idle" /\ result'[p] = items[1]
        /\ \A q \in Procs : q # p => pc'[q] = pc[q] /\ loc'[q] = loc[q] /\ result'[q] = result[q]
    BY <1>1, <2>5 DEF DequeInv, TypeOK
  <2>7. \A n, k : HeldAfter(mem', pending', n, k) = HeldAfter(mem, pending, n, k)
    BY <2>5
  <2>8. Bottom' = Bottom
    BY <2>5, <2>6 DEF Bottom, Own
  <2>9. TypeOK'
    <3>1. NoLocals \in Locals /\ "idle" \in ThiefPlaces
      BY DEF ThiefPlaces, Locals, NoLocals
    <3>2. pc' \in [Procs -> WorkerPlaces \cup ThiefPlaces] /\ loc' \in [Procs -> Locals]
      BY <2>5, <3>1 DEF DequeInv, TypeOK
    <3>3. result' \in [Procs -> {EMPTY, ABORT, BUSY} \cup (Nat \ {0})]
      BY <2>3, <2>5 DEF DequeInv, TypeOK
    <3>4. pc'[Worker] \in WorkerPlaces /\ \A q \in Thieves : pc'[q] \in ThiefPlaces
      BY <2>6, <3>1 DEF DequeInv, TypeOK, Procs
    <3> QED
      BY <2>3, <2>4, <2>5, <3>2, <3>3, <3>4 DEF DequeInv, TypeOK
  <2>10. Own(ARRAY)' = Own(ARRAY) /\ Own(BOTTOM)' = Own(BOTTOM) /\ \A l : Own(l)' = Own(l)
    BY <2>5 DEF Own
  <2>11. SizesOK'
    <3>1. ArraySize(Own(ARRAY)) \in Nat /\ ArraySize(Own(ARRAY))' = ArraySize(Own(ARRAY))
      BY <2>10, Facts, ArraySizes DEF ArraySize
    <3>2. top' + Len(items') = Bottom' /\ Len(items') <= ArraySize(Own(ARRAY))
      <4>1. PICK L \in Nat, m \in Nat, n \in Nat :
               L = Len(items) /\ m = ArraySize(Own(ARRAY)) /\ n = top /\ L <= m
        BY <3>1, Facts, Sizes
      <4>2. L - 1 <= m /\ (n + 1) + (L - 1) = n + L
        BY <4>1
      <4> QED
        BY <2>3, <2>4, <2>8, <4>1, <4>2, Sizes
    <3> QED
      BY <2>5, <2>8, <3>1, <3>2 DEF DequeInv, SizesOK
  <2>12. ItemsOK'
    BY <2>3, <2>5, Facts DEF DequeInv, ItemsOK
  <2>13. PendingOK'
    BY <2>5, <2>7, <2>8, <2>10 DEF DequeInv, PendingOK, Held, Views
  <2>14. WeakOK'
    BY <2>5, <2>7 DEF DequeInv, WeakOK, Held
  <2>15. ASSUME NEW j \in top' .. Bottom' - 1
         PROVE  j \in top .. Bottom - 1 /\ ItemAt(j)' = ItemAt(j)
    <3>1. j \in top .. Bottom - 1 /\ j - top' + 1 = j - top /\ j - top >= 1 /\ j - top <= Len(items) - 1
      <4>1. PICK L \in Nat, n \in Nat, b \in Nat : L = Len(items) /\ n = top /\ b = Bottom /\ n + L = b
        BY Facts, Sizes
      <4>2. j \in n + 1 .. b - 1 /\ top' = n + 1
        BY <2>4, <2>8, <4>1
      <4>3. j \in n .. b - 1 /\ j - (n + 1) + 1 = j - n /\ j - n >= 1 /\ j - n <= L - 1
        BY <4>1, <4>2
      <4> QED
        BY <4>1, <4>2, <4>3
    <3>2. j - top \in DOMAIN items'
      BY <2>3, <3>1, Facts
    <3> QED
      BY <2>3, <3>1, <3>2 DEF ItemAt
  <2>16. ContentsOK'
    BY <2>10, <2>15 DEF DequeInv, ContentsOK
  <2>17. VisibleOK'
    BY <2>5, <2>7, <2>15 DEF DequeInv, VisibleOK, Held, Views
  <2>18. WorkerOK'
    <3>1. Len(items') < Len(items) /\ Len(items) \in Nat /\ Len(items') \in Nat
      BY <2>3, Facts
    <3>2. ArraySize(Own(ARRAY)) \in Nat
      BY Facts, ArraySizes
    <3>3. pc[Worker] = "take_cas" => items' = <<>>
      <4>1. ASSUME pc[Worker] = "take_cas" PROVE Len(items') = 0
        <5>1. Bottom = Own(BOTTOM) + 1 /\ loc[Worker].b = Own(BOTTOM) /\ loc[Worker].b <= top
          BY <4>1 DEF DequeInv, WorkerOK, Bottom, Taking
        <5>2. PICK L \in Nat, n \in Nat, b \in Nat :
                 L = Len(items) /\ n = top /\ b = Own(BOTTOM) /\ n + L = b + 1
          BY <5>1, Facts, Sizes
        <5>3. b <= n /\ L >= 1
          BY <2>3, <5>1, <5>2
        <5>4. L - 1 = 0
          BY <5>2, <5>3
        <5> QED
          BY <2>3, <5>2, <5>4
      <4> QED
        BY <2>3, <4>1, EmptySeq
    <3>4. pc[Worker] = "take_cas" => loc[Worker].b <= top'
      BY <2>4, Facts DEF DequeInv, WorkerOK
    <3>5. pc[Worker] = "push_store" => Len(items') < ArraySize(Own(ARRAY))
      BY <3>1, <3>2 DEF DequeInv, WorkerOK
    <3> QED
      BY <2>5, <2>6, <2>10, <3>3, <3>4, <3>5 DEF DequeInv, WorkerOK
  <2>19. ASSUME NEW q \in Thieves PROVE ThiefOK(q)'
    <3>1. CASE q = p
      BY <2>6, <3>1 DEF ThiefOK
    <3>2. CASE q # p
      <4>1. pc'[q] = pc[q] /\ loc'[q] = loc[q] /\ loc[q].t \in Nat
        BY <2>6, <3>2, LocalsType DEF DequeInv, TypeOK, Procs
      <4>2. pc[q] # "idle" => loc'[q].t <= top' /\ loc'[q].t # top'
        BY <2>4, <4>1, Facts DEF DequeInv, ThiefOK
      <4> QED
        BY <2>10, <4>1, <4>2 DEF DequeInv, ThiefOK
    <3> QED
      BY <3>1, <3>2
  <2>20. ResultOK'
    BY <1>1, <2>3, <2>6, NotBusy DEF DequeInv, ResultOK
  <2> QED
    BY <2>9, <2>11, <2>12, <2>13, <2>14, <2>16, <2>17, <2>18, <2>19, <2>20 DEF DequeInv
<1> QED
  BY <1>2, <1>3 DEF StealCas, CasTop

-----------------------------------------------------------------------------
(* Stores of the owner *)

\* The owner's store to bottom is appended.
LEMMA BottomStored ==
    ASSUME DequeInv, NEW v \in Nat, pending' = Append(pending, Store(BOTTOM, v)),
           UNCHANGED <<order, mem>>, v <= Bottom', Bottom <= Bottom', Bottom' \in Nat
    PROVE  /\ Len(pending') = Len(pending) + 1
           /\ pending' \in Seq((Locations \cup {FENCE}) \X Nat)
           /\ \A l : \A n \in Views : HeldAfter(mem', pending', n, l) = HeldAfter(mem, pending, n, l)
           /\ \A l : HeldAfter(mem', pending', Len(pending) + 1, l) = IF l = BOTTOM THEN v ELSE Own(l)
           /\ \A l : Own(l)' = IF l = BOTTOM THEN v ELSE Own(l)
           /\ \A i \in DOMAIN pending' : i \in DOMAIN pending \/ i = Len(pending) + 1
           /\ \A i \in DOMAIN pending : pending'[i] = pending[i]
           /\ pending'[Len(pending) + 1] = <<BOTTOM, v>>
           /\ PendingOK' /\ WeakOK'
<1> DEFINE N == Len(pending)
           S == (Locations \cup {FENCE}) \X Nat
           st == Store(BOTTOM, v)
<1>1. N \in Nat /\ Views = 0 .. N /\ pending \in Seq(S)
  BY Facts DEF Views, DequeInv, TypeOK
<1>2. st \in S /\ st[1] = BOTTOM /\ st[2] = v /\ st = <<BOTTOM, v>>
  BY Places DEF Store
<1>3. /\ pending' \in Seq(S) /\ Len(pending') = N + 1 /\ pending'[N + 1] = st
      /\ \A i \in 1 .. N : pending'[i] = pending[i]
  BY <1>1, <1>2, AppendProperties
<1>4. /\ \A l : \A n \in 0 .. N : HeldAfter(mem', pending', n, l) = HeldAfter(mem, pending, n, l)
      /\ \A l : HeldAfter(mem', pending', N + 1, l) =
                   IF l = BOTTOM THEN v ELSE HeldAfter(mem, pending, N, l)
  <2>1. mem' = mem /\ pending' = Append(pending, st)
    OBVIOUS
  <2> HIDE DEF st, S
  <2>2. ASSUME NEW l
        PROVE  /\ \A n \in 0 .. N : HeldAfter(mem, Append(pending, st), n, l) = HeldAfter(mem, pending, n, l)
               /\ HeldAfter(mem, Append(pending, st), N + 1, l) =
                     IF l = st[1] THEN st[2] ELSE HeldAfter(mem, pending, N, l)
    BY <1>1, <1>2, HeldAppend
  <2> QED
    BY <1>2, <2>1, <2>2
<1>5. \A l : Own(l)' = IF l = BOTTOM THEN v ELSE Own(l)
  BY <1>3, <1>4 DEF Own
<1>7. DOMAIN pending = 1 .. N /\ DOMAIN pending' = 1 .. N + 1
  BY <1>1, <1>3, LenProperties
<1>8. PendingOK'
  <2>1. ASSUME NEW i \in DOMAIN pending', pending'[i][1] = FENCE
        PROVE  i > 1 /\ i < Len(pending') /\ pending'[i + 1][1] = BOTTOM
    <3>1. i \in DOMAIN pending /\ pending[i][1] = FENCE
      BY <1>2, <1>3, <1>7, <2>1, Places
    <3>2. i > 1 /\ i < N /\ pending[i + 1][1] = BOTTOM
      BY <3>1 DEF DequeInv, PendingOK
    <3> QED
      BY <1>1, <1>3, <1>7, <3>1, <3>2
  <2>2. Own(ARRAY)' = Own(ARRAY) /\ Own(ARRAY) \in Arrays /\ Own(ARRAY) \in Nat
    BY <1>5, Places, Facts, ArraySizes
  <2>3. ASSUME NEW n \in Views'
        PROVE  /\ HeldAfter(mem', pending', n, ARRAY) <= Own(ARRAY)
               /\ HeldAfter(mem', pending', n, BOTTOM) <= Bottom'
    <3>1. CASE n \in Views
      <4>1. /\ HeldAfter(mem, pending, n, ARRAY) <= Own(ARRAY)
            /\ HeldAfter(mem, pending, n, BOTTOM) <= Bottom
            /\ HeldAfter(mem, pending, n, BOTTOM) \in Nat
        BY <3>1, Facts, Places DEF DequeInv, PendingOK, Held
      <4> QED
        BY <1>1, <1>4, <3>1, <4>1, Facts
    <3>2. CASE n = N + 1
      BY <1>4, <2>2, <3>2, Places DEF Own
    <3> QED
      BY <1>1, <1>3, <3>1, <3>2 DEF Views
  <2> QED
    BY <2>1, <2>2, <2>3 DEF PendingOK, Held
<1>9. WeakOK'
  <2> SUFFICES ASSUME order = "PSO", NEW i \in DOMAIN pending', pending'[i][1] \notin {BOTTOM, FENCE}
               PROVE  /\ i < Len(pending') /\ pending'[i + 1][1] = FENCE
                      /\ \E b \in 0 .. ArraySize(mem[ARRAY]) - 1 :
                           /\ pending'[i][1] = Entry(mem[ARRAY], b)
                           /\ \A n \in 0 .. i - 1 : HeldAfter(mem', pending', n, BOTTOM) <= b
    BY DEF DequeInv, WeakOK, Held
  <2>1. i \in DOMAIN pending /\ pending'[i] = pending[i]
    BY <1>2, <1>3, <1>7
  <2>2. /\ i < N /\ pending[i + 1][1] = FENCE
        /\ \E b \in 0 .. ArraySize(mem[ARRAY]) - 1 :
              /\ pending[i][1] = Entry(mem[ARRAY], b)
              /\ \A n \in 0 .. i - 1 : HeldAfter(mem, pending, n, BOTTOM) <= b
    BY <2>1 DEF DequeInv, WeakOK, Held
  <2>3. \A n \in 0 .. i - 1 : n \in 0 .. N
    BY <1>1, <1>7, <2>1
  <2>4. \A n \in 0 .. i - 1 : HeldAfter(mem', pending', n, BOTTOM) = HeldAfter(mem, pending, n, BOTTOM)
    BY <1>4, <2>3
  <2>5. i < Len(pending') /\ pending'[i + 1] = pending[i + 1]
    BY <1>1, <1>3, <1>7, <2>1, <2>2
  <2> QED
    BY <2>1, <2>2, <2>4, <2>5
<1>10. /\ \A l : \A n \in Views : HeldAfter(mem', pending', n, l) = HeldAfter(mem, pending, n, l)
       /\ \A l : HeldAfter(mem', pending', N + 1, l) = IF l = BOTTOM THEN v ELSE Own(l)
  BY <1>1, <1>4 DEF Own
<1>11. /\ \A i \in DOMAIN pending' : i \in DOMAIN pending \/ i = N + 1
       /\ \A i \in DOMAIN pending : pending'[i] = pending[i]
  BY <1>1, <1>3, <1>7
<1> QED
  BY <1>2, <1>3, <1>5, <1>8, <1>9, <1>10, <1>11

\* The view that a later view n is like, when stores have been appended.
Earlier(n) == IF n \in Views THEN n ELSE Len(pending)

\* Then a thief that relies on the first item still has it.
LEMMA ThievesStay ==
    ASSUME DequeInv, UNCHANGED <<order, top>>, Own(ARRAY) <= Own(ARRAY)', Own(ARRAY)' \in Nat,
           items # <<>> => items' # <<>> /\ items'[1] = items[1],
           NEW p \in Thieves, pc'[p] = pc[p], loc'[p] = loc[p],
           items # <<>> /\ loc[p].t = top =>
               \A k \in 0 .. Own(ARRAY) : LET l == Entry(k, top) IN
                   /\ \A n \in Views' : HeldAfter(mem', pending', n, l) = Held(Earlier(n), l)
                   /\ ClearOf(pending, l) => ClearOf(pending', l),
           \A n \in Views' : n \notin Views => n > Len(pending),
           items # <<>> => \A h, n \in Views' : h <= n =>
               \/ HeldAfter(mem', pending', h, ARRAY) = Held(Earlier(h), ARRAY)
               \/ LET l == Entry(HeldAfter(mem', pending', h, ARRAY), top)
                  IN  ClearOf(pending', l) /\ HeldAfter(mem', pending', n, l) = items[1]
    PROVE  ThiefOK(p)'
<1> DEFINE t == loc[p].t
           k == loc[p].a
<1>1. Len(pending) \in Nat /\ \A n \in Views' : n \in Nat /\ Earlier(n) \in Views
  BY Facts, LenProperties DEF Views, Earlier
<1>2. \A h, n \in Views' : h <= n => Earlier(h) <= Earlier(n)
  BY <1>1 DEF Earlier, Views
<1>3. t \in Nat /\ k \in Nat
  BY LocalsType DEF DequeInv, TypeOK, Procs
<1>4. ASSUME pc[p] = "steal_array", t = top, NEW h \in Views', NEW n \in Views', h <= n
      PROVE  LET l == Entry(HeldAfter(mem', pending', h, ARRAY), t)
             IN  items' # <<>> /\ ClearOf(pending', l) /\ HeldAfter(mem', pending', n, l) = items'[1]
  <2> DEFINE A == Held(Earlier(h), ARRAY)
             l == Entry(A, top)
  <2>1. A \in 0 .. Own(ARRAY)
    BY <1>1, <1>4, Facts DEF DequeInv, PendingOK, Arrays
  <2>2. ClearOf(pending, l) /\ Held(Earlier(n), l) = items[1] /\ items # <<>>
    BY <1>1, <1>2, <1>4 DEF DequeInv, ThiefOK, FirstIn
  <2> HIDE DEF A
  <2>3. CASE HeldAfter(mem', pending', h, ARRAY) = A
    BY <1>4, <2>1, <2>2, <2>3
  <2>4. CASE LET m == Entry(HeldAfter(mem', pending', h, ARRAY), top)
             IN  ClearOf(pending', m) /\ HeldAfter(mem', pending', n, m) = items[1]
    BY <1>4, <2>2, <2>4
  <2> QED
    BY <1>4, <2>2, <2>3, <2>4 DEF A
<1>5. ASSUME pc[p] = "steal_entry", t = top, NEW n \in Views'
      PROVE  /\ items' # <<>> /\ ClearOf(pending', Entry(k, t))
             /\ HeldAfter(mem', pending', n, Entry(k, t)) = items'[1]
  <2>1. k \in 0 .. Own(ARRAY)
    BY <1>3, <1>5, Facts DEF DequeInv, ThiefOK, Arrays
  <2>2. ClearOf(pending, Entry(k, t)) /\ Held(Earlier(n), Entry(k, t)) = items[1] /\ items # <<>>
    BY <1>1, <1>5 DEF DequeInv, ThiefOK, FirstIn
  <2> QED
    BY <1>5, <2>1, <2>2
<1>6. /\ pc[p] # "idle" => t <= top
      /\ pc[p] = "steal_entry" => k <= Own(ARRAY)'
      /\ pc[p] = "steal_cas" /\ t = top => items' # <<>> /\ loc[p].x = items'[1]
  <2>1. Own(ARRAY) \in Nat
    BY Facts DEF Arrays
  <2>2. ASSUME pc[p] = "steal_entry" PROVE k <= Own(ARRAY)'
    <3>1. k <= Own(ARRAY)
      BY <2>2 DEF DequeInv, ThiefOK
    <3> QED
      BY <1>3, <2>1, <3>1
  <2> QED
    BY <2>2 DEF DequeInv, ThiefOK
<1> QED
  BY <1>4, <1>5, <1>6 DEF ThiefOK, Held, FirstIn, ClearOf

\* The owner reads what it has just stored.
LEMMA OwnBottom ==
    ASSUME DequeInv, NEW v \in Nat, pending' = Append(pending, Store(BOTTOM, v)), mem' = mem
    PROVE  Own(BOTTOM)' = v
<1> DEFINE S == (Locations \cup {FENCE}) \X Nat
           st == Store(BOTTOM, v)
<1>1. pending \in Seq(S) /\ st \in S /\ st[1] = BOTTOM /\ st[2] = v
  BY Places DEF DequeInv, TypeOK, Store
<1>2. mem' = mem /\ pending' = Append(pending, st)
  OBVIOUS
<1> HIDE DEF S, st
<1>3. Len(Append(pending, st)) = Len(pending) + 1
  BY <1>1, AppendProperties
<1>4. HeldAfter(mem, Append(pending, st), Len(pending) + 1, BOTTOM) = v
  BY <1>1, HeldAppend
<1> QED
  BY <1>2, <1>3, <1>4 DEF Own

\* A store to bottom that leaves the items where they are.
LEMMA BottomKeeps ==
    ASSUME DequeInv, NEW v \in Nat, pending' = Append(pending, Store(BOTTOM, v)), v <= Bottom,
           UNCHANGED <<order, mem, top, items, pushed>>, Bottom' = Bottom,
           \A p \in Thieves : pc'[p] = pc[p] /\ loc'[p] = loc[p]
    PROVE  /\ pending' \in Seq((Locations \cup {FENCE}) \X Nat)
           /\ SizesOK' /\ ItemsOK' /\ PendingOK' /\ WeakOK' /\ ContentsOK' /\ VisibleOK'
           /\ \A p \in Thieves : ThiefOK(p)'
           /\ Own(ARRAY)' = Own(ARRAY) /\ Own(BOTTOM)' = v
<1> DEFINE N == Len(pending)
<1>1. Bottom' \in Nat /\ v <= Bottom' /\ Bottom <= Bottom'
  BY Facts
<1>2. /\ Len(pending') = Len(pending) + 1
      /\ pending' \in Seq((Locations \cup {FENCE}) \X Nat)
      /\ \A l : \A n \in Views : HeldAfter(mem', pending', n, l) = HeldAfter(mem, pending, n, l)
      /\ \A l : HeldAfter(mem', pending', Len(pending) + 1, l) = IF l = BOTTOM THEN v ELSE Own(l)
      /\ \A l : Own(l)' = IF l = BOTTOM THEN v ELSE Own(l)
      /\ \A i \in DOMAIN pending' : i \in DOMAIN pending \/ i = Len(pending) + 1
      /\ \A i \in DOMAIN pending : pending'[i] = pending[i]
      /\ pending'[Len(pending) + 1] = <<BOTTOM, v>>
      /\ PendingOK' /\ WeakOK'
  BY <1>1, BottomStored
<1>3. N \in Nat /\ N \in Views /\ (\A n \in Views' : n \in Nat /\ (n \in Views \/ (n = N + 1 /\ n \notin Views)))
  BY <1>2, Facts DEF Views
<1>4. \A l : Own(l) = Held(N, l)
  BY Facts
<1>5. /\ Own(ARRAY)' = Own(ARRAY) /\ Own(BOTTOM)' = v
      /\ Own(ARRAY) \in Arrays /\ Own(ARRAY) \in Nat
  BY <1>2, Places, Facts, ArraySizes
<1>6. ASSUME NEW l, l # BOTTOM, NEW n \in Views'
      PROVE  HeldAfter(mem', pending', n, l) = Held(Earlier(n), l)
  BY <1>2, <1>3, <1>4, <1>6 DEF Earlier, Held
<1>7. SizesOK'
  BY <1>5 DEF DequeInv, SizesOK
<1>8. ItemsOK'
  BY DEF DequeInv, ItemsOK
<1>9. \A j : ItemAt(j)' = ItemAt(j)
  BY DEF ItemAt
<1>10. \A j \in top .. Bottom - 1 : j \in Nat
  BY Facts
<1>11. ContentsOK'
  <2> SUFFICES ASSUME NEW j \in top .. Bottom - 1
               PROVE  HeldAfter(mem', pending', Len(pending'), Entry(Own(ARRAY)', j)) = ItemAt(j)
    BY <1>9 DEF ContentsOK, Own
  <2>1. Entry(Own(ARRAY), j) # BOTTOM
    BY <1>5, <1>10, Places
  <2>2. Own(Entry(Own(ARRAY), j)) = ItemAt(j)
    BY DEF DequeInv, ContentsOK
  <2> QED
    BY <1>2, <1>5, <2>1, <2>2
<1>12. VisibleOK'
  <2> SUFFICES ASSUME NEW m \in Views', NEW h \in Views', NEW n \in Views', m <= h, h <= n,
                      NEW j \in top .. Bottom - 1, j < HeldAfter(mem', pending', m, BOTTOM)
               PROVE  HeldAfter(mem', pending', n, Entry(HeldAfter(mem', pending', h, ARRAY), j)) = ItemAt(j)
    BY <1>9 DEF VisibleOK, Held
  <2> DEFINE A == Held(Earlier(h), ARRAY)
  <2>1. Earlier(h) \in Views /\ Earlier(n) \in Views /\ Earlier(h) <= Earlier(n)
    BY <1>3 DEF Earlier, Views
  <2>2. HeldAfter(mem', pending', h, ARRAY) = A /\ A \in Arrays
    BY <1>6, <2>1, Places, Facts
  <2>3. HeldAfter(mem', pending', n, Entry(A, j)) = Held(Earlier(n), Entry(A, j))
    BY <1>6, <1>10, <2>2, Places
  <2>4. CASE m \in Views
    <3>1. m <= Earlier(h) /\ j < Held(m, BOTTOM)
      BY <1>2, <1>3, <2>4 DEF Earlier, Views, Held
    <3> QED
      BY <2>1, <2>2, <2>3, <2>4, <3>1 DEF DequeInv, VisibleOK
  <2>5. CASE m = N + 1 /\ m \notin Views
    <3>1. h = N + 1 /\ n = N + 1 /\ Earlier(h) = N /\ Earlier(n) = N
      BY <1>3, <2>5 DEF Earlier, Views
    <3>2. A = Own(ARRAY)
      BY <1>4, <3>1
    <3> QED
      BY <1>4, <2>2, <2>3, <3>1, <3>2 DEF DequeInv, ContentsOK
  <2> QED
    BY <1>3, <2>4, <2>5
<1>13. ASSUME NEW p \in Thieves PROVE ThiefOK(p)'
  <2>1. ASSUME NEW k \in 0 .. Own(ARRAY)
        PROVE  LET l == Entry(k, top) IN
                 /\ \A n \in Views' : HeldAfter(mem', pending', n, l) = Held(Earlier(n), l)
                 /\ ClearOf(pending, l) => ClearOf(pending', l)
    <3>1. k \in Arrays
      BY <1>5, DequeAssumption DEF Arrays
    <3>2. Entry(k, top) # BOTTOM
      BY <3>1, Facts, Places
    <3> QED
      BY <1>2, <1>6, <3>2 DEF ClearOf
  <2>2. \A n \in Views' : HeldAfter(mem', pending', n, ARRAY) = Held(Earlier(n), ARRAY)
    BY <1>6, Places
  <2>3. \A n \in Views' : n \notin Views => n > Len(pending)
    BY <1>3
  <2> QED
    BY <1>5, <2>1, <2>2, <2>3, ThievesStay
<1> QED
  BY <1>2, <1>5, <1>7, <1>8, <1>11, <1>12, <1>13

-----------------------------------------------------------------------------
(* Steps of the owner *)

\* The types, when only the owner has moved.
LEMMA WorkerTypes ==
    ASSUME DequeInv, NEW place \in WorkerPlaces, pc' = [pc EXCEPT ![Worker] = place],
           NEW l \in Locals, loc' = [loc EXCEPT ![Worker] = l],
           NEW r \in {EMPTY, ABORT, BUSY} \cup (Nat \ {0}), result' = [result EXCEPT ![Worker] = r],
           UNCHANGED order, top' \in Nat, mem' \in [Locations -> Nat],
           pending' \in Seq((Locations \cup {FENCE}) \X Nat), pushed' \in 0 .. MaxPush,
           items' \in Seq(Nat)
    PROVE  /\ TypeOK'
           /\ pc'[Worker] = place /\ loc'[Worker] = l /\ result'[Worker] = r
           /\ \A p \in Thieves : pc'[p] = pc[p] /\ loc'[p] = loc[p]
           /\ (r = BUSY <=> place \notin {"idle", "resize", "push_store"}) => ResultOK'
<1>1. Worker \in Procs /\ \A p \in Thieves : p \in Procs /\ p # Worker
  BY DequeAssumption DEF Procs
<1>2. /\ pc'[Worker] = place /\ loc'[Worker] = l /\ result'[Worker] = r
      /\ \A p \in Procs : p # Worker => pc'[p] = pc[p] /\ loc'[p] = loc[p] /\ result'[p] = result[p]
  BY <1>1 DEF DequeInv, TypeOK
<1>3. /\ pc' \in [Procs -> WorkerPlaces \cup ThiefPlaces] /\ loc' \in [Procs -> Locals]
      /\ result' \in [Procs -> {EMPTY, ABORT, BUSY} \cup (Nat \ {0})]
  BY DEF DequeInv, TypeOK
<1>4. TypeOK'
  BY <1>1, <1>2, <1>3 DEF DequeInv, TypeOK
<1> QED
  BY <1>1, <1>2, <1>4 DEF DequeInv, ResultOK

LEMMA TakeStoreKeeps ==
    ASSUME DequeInv, TakeStore, UNCHANGED order PROVE DequeInv'
<1> DEFINE b == Own(BOTTOM) - 1
           l == [loc[Worker] EXCEPT !.b = b, !.a = Own(ARRAY)]
<1>1. pc[Worker] = "idle" /\ pushed > 0 /\ Worker \in Procs
  BY DEF TakeStore, Procs
<1>2. Bottom = Own(BOTTOM) /\ Bottom >= 1 /\ Bottom <= MaxPush
  BY <1>1, Facts DEF DequeInv, SizesOK, Bottom, Taking
<1>3. b \in Nat /\ Minus(Own(BOTTOM), 1) = b
  BY <1>2, Facts, NoOverflow
<1>4. l \in Locals /\ l.b = b /\ l.a = Own(ARRAY)
  BY <1>1, <1>3, Facts, ArraySizes DEF DequeInv, TypeOK, Locals
<1>5. /\ loc' = [loc EXCEPT ![Worker] = l] /\ pc' = [pc EXCEPT ![Worker] = "take_top"]
      /\ result' = [result EXCEPT ![Worker] = BUSY]
      /\ pending' = Append(pending, Store(BOTTOM, b))
      /\ UNCHANGED <<top, mem, pushed, items>>
  BY <1>3 DEF TakeStore
<1> HIDE DEF b, l
<1>6. /\ pc'[Worker] = "take_top" /\ "take_top" \in WorkerPlaces
      /\ \A p \in Thieves : pc'[p] = pc[p] /\ loc'[p] = loc[p]
  BY <1>1, <1>5, DequeAssumption DEF DequeInv, TypeOK, WorkerPlaces, Procs
<1>7. Own(BOTTOM)' = b
  BY <1>3, <1>5, OwnBottom
<1>8. Bottom' = Bottom /\ b <= Bottom
  BY <1>1, <1>2, <1>6, <1>7, Facts DEF Bottom, Taking, b
<1>9. /\ pending' \in Seq((Locations \cup {FENCE}) \X Nat)
      /\ SizesOK' /\ ItemsOK' /\ PendingOK' /\ WeakOK' /\ ContentsOK' /\ VisibleOK'
      /\ \A p \in Thieves : ThiefOK(p)'
      /\ Own(ARRAY)' = Own(ARRAY) /\ Own(BOTTOM)' = b
  BY <1>3, <1>5, <1>6, <1>8, BottomKeeps
<1>10. /\ TypeOK' /\ ResultOK' /\ loc'[Worker] = l
  BY <1>4, <1>5, <1>6, <1>9, WorkerTypes DEF DequeInv, TypeOK
<1>11. WorkerOK'
  BY <1>1, <1>4, <1>5, <1>6, <1>9, <1>10 DEF WorkerOK, Taking
<1> QED
  BY <1>9, <1>10, <1>11 DEF DequeInv

\* The items that are left when the last one is taken.
LEMMA AfterLast ==
    ASSUME DequeInv, items # <<>>, items' = SubSeq(items, 1, Len(items) - 1)
    PROVE  /\ items' \in Seq(Nat) /\ Len(items') = Len(items) - 1 /\ Len(items) >= 1
           /\ \A i \in DOMAIN items' : items'[i] = items[i] /\ i \in DOMAIN items
           /\ items[Len(items)] \in Nat \ {0}
<1>1. Len(items) \in Nat /\ items \in Seq(Nat) /\ Len(items) >= 1 /\ Len(items) \in DOMAIN items
  BY LenProperties, EmptySeq DEF DequeInv, TypeOK
<1>2. /\ SubSeq(items, 1, Len(items) - 1) \in Seq(Nat)
      /\ Len(SubSeq(items, 1, Len(items) - 1)) = Len(items) - 1
      /\ \A i \in 1 .. Len(items) - 1 : SubSeq(items, 1, Len(items) - 1)[i] = items[1 + i - 1]
  <2>1. PICK L \in Nat : L = Len(items)
    BY <1>1
  <2>2. \A i \in 1 .. L - 1 : items[i] \in Nat
    BY <1>1, <2>1, ElementOfSeq
  <2>3. L >= 1
    BY <1>1, <2>1
  <2>4. /\ SubSeq(items, 1, L - 1) \in Seq(Nat)
        /\ Len(SubSeq(items, 1, L - 1)) = L - 1
        /\ \A i \in 1 .. L - 1 : SubSeq(items, 1, L - 1)[i] = items[1 + i - 1]
    BY <2>2, <2>3, SubSeqProperties
  <2> QED
    BY <2>1, <2>4
<1>3. \A i \in DOMAIN items' : i \in 1 .. Len(items) - 1 /\ 1 + i - 1 = i /\ i \in DOMAIN items
  BY <1>1, <1>2
<1>4. items[Len(items)] \in Nat \ {0}
  BY <1>1, Facts DEF DequeInv, ItemsOK
<1> QED
  BY <1>1, <1>2, <1>3, <1>4

\* While the owner takes, what it knows of the deque.
LEMMA OwnerTaking ==
    ASSUME DequeInv, pc[Worker] \in Taking
    PROVE  LET b == loc[Worker].b IN
           /\ Worker \in Procs /\ b \in Nat
           /\ b = Own(BOTTOM) /\ loc[Worker].a = Own(ARRAY) /\ Bottom = b + 1
           /\ Plus1(b) = b + 1 /\ top + Len(items) = b + 1 /\ b + 1 <= pushed
<1>1. Worker \in Procs
  BY DEF Procs
<1>2. loc[Worker].b = Own(BOTTOM) /\ loc[Worker].a = Own(ARRAY)
  BY DEF DequeInv, WorkerOK, Taking
<1>3. Bottom = Own(BOTTOM) + 1 /\ Own(BOTTOM) \in Nat /\ Own(BOTTOM) + 1 <= MaxPush
  BY Facts DEF DequeInv, SizesOK, Bottom
<1> QED
  BY <1>1, <1>2, <1>3, NoOverflow DEF DequeInv, SizesOK

\* There is more than one item: no thief can take the last.
LEMMA TakeLastKeeps ==
    ASSUME DequeInv, TakeTop, UNCHANGED order, top < loc[Worker].b,
           Finish(Worker, Own(Entry(loc[Worker].a, loc[Worker].b))),
           TakeOut(Own(Entry(loc[Worker].a, loc[Worker].b))), UNCHANGED pending
    PROVE  DequeInv' /\ items' = SubSeq(items, 1, Len(items) - 1)
<1> DEFINE b == loc[Worker].b
           L == Len(items)
           x == items[L]
<1>1. pc[Worker] = "take_top" /\ pc[Worker] \in Taking /\ pending = <<>>
  BY DEF TakeTop, SeqCstFence, Taking
<1>2. /\ Worker \in Procs /\ b \in Nat
      /\ b = Own(BOTTOM) /\ loc[Worker].a = Own(ARRAY) /\ Bottom = b + 1
      /\ top + L = b + 1 /\ b + 1 <= pushed
  BY <1>1, OwnerTaking
<1>3. L \in Nat /\ top \in Nat /\ L >= 2 /\ items # <<>>
  <2>1. L \in Nat /\ top \in Nat /\ L >= 2
    BY <1>2, Facts
  <2> QED
    BY <2>1, EmptySeq
<1>4. Own(Entry(loc[Worker].a, loc[Worker].b)) = x
  <2>1. b \in top .. Bottom - 1 /\ b - top + 1 = L
    BY <1>2, <1>3
  <2> QED
    BY <1>2, <2>1 DEF DequeInv, ContentsOK, ItemAt
<1>5. items' = SubSeq(items, 1, L - 1)
  BY <1>3, <1>4, TakeOutLast
<1>6. /\ items' \in Seq(Nat) /\ Len(items') = L - 1
      /\ \A i \in DOMAIN items' : items'[i] = items[i] /\ i \in DOMAIN items
      /\ x \in Nat \ {0}
  BY <1>3, <1>5, AfterLast
<1>7. /\ UNCHANGED <<order, top, mem, pending, pushed>> /\ result' = [result EXCEPT ![Worker] = x]
      /\ pc' = [pc EXCEPT ![Worker] = "idle"] /\ loc' = [loc EXCEPT ![Worker] = NoLocals]
      /\ "idle" \in WorkerPlaces /\ NoLocals \in Locals
  BY <1>4 DEF TakeTop, Finish, WorkerPlaces, Locals, NoLocals
<1> HIDE DEF b, L, x
<1>8. /\ TypeOK' /\ pc'[Worker] = "idle" /\ ResultOK'
      /\ \A p \in Thieves : pc'[p] = pc[p] /\ loc'[p] = loc[p]
  <2>1. top' \in Nat /\ mem' \in [Locations -> Nat] /\ pushed' \in 0 .. MaxPush
        /\ pending' \in Seq((Locations \cup {FENCE}) \X Nat)
    BY <1>7 DEF DequeInv, TypeOK
  <2> QED
    BY <1>6, <1>7, <2>1, NotBusy, WorkerTypes
<1>9. \A n, l : HeldAfter(mem', pending', n, l) = HeldAfter(mem, pending, n, l)
  BY <1>7
<1>10. Own(ARRAY)' = Own(ARRAY) /\ Own(BOTTOM)' = b /\ Bottom' = b
  BY <1>2, <1>7, <1>8 DEF Own, Bottom, Taking
<1>11. Views = {0} /\ Views' = {0} /\ Held(0, BOTTOM) = b
  BY <1>1, <1>2, <1>7, EmptySeq DEF Views, Own, Held
<1>12. SizesOK'
  <2>1. ArraySize(Own(ARRAY)) \in Nat /\ ArraySize(Own(ARRAY))' = ArraySize(Own(ARRAY))
    BY <1>10, Facts, ArraySizes DEF ArraySize
  <2>2. top + Len(items') = b /\ b <= pushed /\ b >= 1 /\ Len(items') <= ArraySize(Own(ARRAY))
    <3>1. L <= ArraySize(Own(ARRAY)) /\ pushed \in Nat
      BY Sizes, Facts DEF L
    <3>2. top + (L - 1) = b /\ b <= pushed /\ b >= 1 /\ L - 1 <= ArraySize(Own(ARRAY))
      BY <1>2, <1>3, <2>1, <3>1
    <3> QED
      BY <1>6, <3>2
  <2> QED
    BY <1>7, <1>10, <2>1, <2>2 DEF SizesOK
<1>13. ItemsOK'
  BY <1>6, <1>7 DEF DequeInv, ItemsOK
<1>14. PendingOK'
  BY <1>1, <1>2, <1>7, <1>9, <1>10, <1>11, Facts DEF DequeInv, PendingOK, Held
<1>15. WeakOK'
  BY <1>7, <1>9 DEF DequeInv, WeakOK, Held
<1>16. ASSUME NEW j \in top' .. Bottom' - 1 PROVE j \in top .. Bottom - 1 /\ ItemAt(j)' = ItemAt(j)
  <2>1. j \in top .. Bottom - 1 /\ j - top + 1 \in 1 .. L - 1
    BY <1>2, <1>3, <1>7, <1>10
  <2>2. DOMAIN items' = 1 .. L - 1
    BY <1>6, LenProperties
  <2> QED
    BY <1>6, <1>7, <2>1, <2>2 DEF ItemAt
<1>17. ContentsOK'
  BY <1>7, <1>10, <1>16 DEF DequeInv, ContentsOK, Own
<1>18. VisibleOK'
  BY <1>9, <1>11, <1>16 DEF DequeInv, VisibleOK, Held
<1>19. WorkerOK'
  BY <1>8 DEF WorkerOK, Taking
<1>20. items' # <<>> /\ items'[1] = items[1]
  <2>1. 1 \in DOMAIN items'
    BY <1>3, <1>6, LenProperties
  <2> QED
    BY <1>6, <2>1, EmptySeq
<1>21. ASSUME NEW p \in Thieves PROVE ThiefOK(p)'
  BY <1>3, <1>7, <1>8, <1>9, <1>10, <1>11, <1>20 DEF DequeInv, ThiefOK, FirstIn, ClearOf, Held
<1> QED
  BY <1>5, <1>8, <1>12, <1>13, <1>14, <1>15, <1>17, <1>18, <1>19, <1>21 DEF DequeInv, L

\* There is one item or none: the owner competes with the thieves for it.
LEMMA TakeRaceKeeps ==
    ASSUME DequeInv, TakeTop, UNCHANGED order, top = loc[Worker].b,
           loc' = [loc EXCEPT ![Worker].t = top,
                              ![Worker].x = Own(Entry(loc[Worker].a, loc[Worker].b))],
           pc' = [pc EXCEPT ![Worker] = "take_cas"], UNCHANGED <<pending, items, result>>
    PROVE  DequeInv'
<1> DEFINE b == loc[Worker].b
           x == Own(Entry(loc[Worker].a, b))
           l == [loc[Worker] EXCEPT !.t = top, !.x = x]
<1>1. pc[Worker] = "take_top" /\ pc[Worker] \in Taking /\ pending = <<>>
  BY DEF TakeTop, SeqCstFence, Taking
<1>2. /\ Worker \in Procs /\ b \in Nat
      /\ b = Own(BOTTOM) /\ loc[Worker].a = Own(ARRAY) /\ Bottom = b + 1
      /\ top + Len(items) = b + 1 /\ b + 1 <= pushed
  BY <1>1, OwnerTaking
<1>3. Len(items) = 1 /\ items # <<>> /\ x = items[1] /\ x \in Nat
  <2>1. Len(items) = 1
    <3>1. Len(items) \in Nat /\ top \in Nat /\ top = b
      BY Facts
    <3>2. PICK n \in Nat : n = Len(items)
      BY <3>1
    <3> QED
      BY <1>2, <3>1, <3>2
  <2>2. items # <<>> /\ 1 \in DOMAIN items
    <3>1. items # <<>>
      BY <2>1, EmptySeq
    <3>2. DOMAIN items = 1 .. 1
      BY <2>1, LenProperties DEF DequeInv, TypeOK
    <3> QED
      BY <3>1, <3>2
  <2>3. b \in top .. Bottom - 1 /\ b - top + 1 = 1
    BY <1>2, Facts
  <2>4. x = items[1]
    BY <1>2, <2>3 DEF DequeInv, ContentsOK, ItemAt
  <2> QED
    BY <2>1, <2>2, <2>4 DEF DequeInv, TypeOK
<1>4. l \in Locals /\ l.t = top /\ l.x = x /\ l.b = b /\ l.a = loc[Worker].a
  BY <1>2, <1>3, Facts DEF DequeInv, TypeOK, Locals
<1>5. /\ loc' = [loc EXCEPT ![Worker] = l]
      /\ UNCHANGED <<order, top, mem, pending, pushed, items>>
      /\ result' = [result EXCEPT ![Worker] = BUSY] /\ result[Worker] = BUSY
      /\ "take_cas" \in WorkerPlaces
  <2>1. result[Worker] = BUSY
    BY <1>1, <1>2 DEF DequeInv, ResultOK
  <2> QED
    BY <1>1, <1>2, <2>1 DEF TakeTop, DequeInv, TypeOK, WorkerPlaces
<1> HIDE DEF b, x, l
<1>6. /\ TypeOK' /\ pc'[Worker] = "take_cas" /\ loc'[Worker] = l /\ ResultOK'
      /\ \A p \in Thieves : pc'[p] = pc[p] /\ loc'[p] = loc[p]
  <2>1. /\ top' \in Nat /\ mem' \in [Locations -> Nat] /\ pushed' \in 0 .. MaxPush
        /\ pending' \in Seq((Locations \cup {FENCE}) \X Nat) /\ items' \in Seq(Nat)
    BY <1>5 DEF DequeInv, TypeOK
  <2>2. pc' = [pc EXCEPT ![Worker] = "take_cas"] /\ "take_cas" \notin {"idle", "resize", "push_store"}
    OBVIOUS
  <2>3. /\ TypeOK' /\ pc'[Worker] = "take_cas" /\ loc'[Worker] = l
        /\ \A p \in Thieves : pc'[p] = pc[p] /\ loc'[p] = loc[p]
        /\ (BUSY = BUSY <=> "take_cas" \notin {"idle", "resize", "push_store"}) => ResultOK'
    BY <1>4, <1>5, <2>1, <2>2, WorkerTypes
  <2> QED
    BY <2>2, <2>3
<1>7. Bottom' = Bottom
  BY <1>1, <1>5, <1>6 DEF Bottom, Own, Taking
<1>8. /\ SizesOK' /\ ItemsOK' /\ PendingOK' /\ WeakOK' /\ ContentsOK' /\ VisibleOK'
      /\ Own(ARRAY)' = Own(ARRAY) /\ Own(BOTTOM)' = Own(BOTTOM)
      /\ \A p \in Thieves : ThiefOK(p)'
  BY <1>5, <1>6, <1>7, Quiet
<1>9. WorkerOK'
  <2>1. pushed' > 0 /\ l.b <= top'
    BY <1>2, <1>4, <1>5, Facts DEF b
  <2>2. pending' = <<>> /\ l.t = l.b /\ l.x = items'[1] /\ l.b = Own(BOTTOM)' /\ l.a = Own(ARRAY)'
    BY <1>1, <1>2, <1>3, <1>4, <1>5, <1>8 DEF b
  <2> QED
    BY <1>6, <2>1, <2>2 DEF WorkerOK, Taking
<1> QED
  BY <1>6, <1>8, <1>9 DEF DequeInv

\* The deque is found empty.
LEMMA TakeNoneKeeps ==
    ASSUME DequeInv, UNCHANGED <<order, top, mem, pushed, items>>, pc[Worker] \in Taking,
           loc[Worker].b < top, Finish(Worker, EMPTY),
           pending' = Append(pending, Store(BOTTOM, Plus1(loc[Worker].b)))
    PROVE  DequeInv' /\ items = <<>>
<1> DEFINE b == loc[Worker].b
<1>1. /\ Worker \in Procs /\ b \in Nat /\ Bottom = b + 1 /\ Plus1(b) = b + 1
      /\ top + Len(items) = b + 1 /\ b + 1 <= pushed
  BY OwnerTaking
<1>2. items = <<>>
  <2>1. Len(items) = 0
    BY <1>1, Facts
  <2> QED
    BY <2>1, EmptySeq DEF DequeInv, TypeOK
<1>3. /\ result' = [result EXCEPT ![Worker] = EMPTY]
      /\ pc' = [pc EXCEPT ![Worker] = "idle"] /\ loc' = [loc EXCEPT ![Worker] = NoLocals]
      /\ "idle" \in WorkerPlaces /\ NoLocals \in Locals
  BY DEF Finish, WorkerPlaces, Locals, NoLocals
<1>4. pc'[Worker] = "idle" /\ \A p \in Thieves : pc'[p] = pc[p] /\ loc'[p] = loc[p]
  BY <1>1, <1>3, DequeAssumption DEF DequeInv, TypeOK, Procs
<1>5. Bottom' = b + 1 /\ b + 1 \in Nat
  <2>1. Own(BOTTOM)' = b + 1
    BY <1>1, OwnBottom
  <2> QED
    BY <1>1, <1>4, <2>1 DEF Bottom, Taking
<1>6. /\ pending' \in Seq((Locations \cup {FENCE}) \X Nat)
      /\ SizesOK' /\ ItemsOK' /\ PendingOK' /\ WeakOK' /\ ContentsOK' /\ VisibleOK'
      /\ \A p \in Thieves : ThiefOK(p)'
  BY <1>1, <1>4, <1>5, BottomKeeps
<1>7. TypeOK' /\ ResultOK'
  <2>1. /\ top' \in Nat /\ mem' \in [Locations -> Nat] /\ pushed' \in 0 .. MaxPush
        /\ items' \in Seq(Nat)
    BY DEF DequeInv, TypeOK
  <2> QED
    BY <1>3, <1>6, <2>1, NotBusy, WorkerTypes
<1>8. WorkerOK'
  BY <1>4 DEF WorkerOK, Taking
<1> QED
  BY <1>2, <1>6, <1>7, <1>8 DEF DequeInv

LEMMA TakeTopKeeps ==
    ASSUME DequeInv, TakeTop, UNCHANGED order PROVE DequeInv'
<1>1. CASE top > loc[Worker].b /\ Finish(Worker, EMPTY) /\ UNCHANGED items
           /\ pending' = Append(pending, Store(BOTTOM, Plus1(loc[Worker].b)))
  <2>1. pc[Worker] \in Taking /\ UNCHANGED <<top, mem, pushed>>
    BY DEF TakeTop, Taking
  <2>2. loc[Worker].b < top
    BY <1>1, <2>1, OwnerTaking, Facts
  <2> QED
    BY <1>1, <2>1, <2>2, TakeNoneKeeps
<1> QED
  BY <1>1, TakeLastKeeps, TakeRaceKeeps DEF TakeTop

\* The race for the last item: whoever wins, nothing is left.
LEMMA TakeCasKeeps ==
    ASSUME DequeInv, TakeCas, UNCHANGED order PROVE DequeInv' /\ items' = <<>>
<1> DEFINE b == loc[Worker].b
<1>1. /\ pc[Worker] = "take_cas" /\ pc[Worker] \in Taking /\ UNCHANGED <<mem, pushed>>
      /\ pending' = Append(pending, Store(BOTTOM, Plus1(b)))
  BY DEF TakeCas, Taking
<1>2. /\ Worker \in Procs /\ b \in Nat /\ Bottom = b + 1 /\ Plus1(b) = b + 1
      /\ top + Len(items) = b + 1 /\ b + 1 <= pushed
  BY <1>1, OwnerTaking
<1>3. pending = <<>> /\ loc[Worker].t = b /\ b <= top /\ (items # <<>> => loc[Worker].x = items[1])
  BY <1>1 DEF DequeInv, WorkerOK
<1>4. CASE top # b /\ Finish(Worker, EMPTY) /\ UNCHANGED <<top, items>>
  <2>1. b < top
    BY <1>2, <1>3, <1>4, Facts
  <2> QED
    BY <1>1, <1>4, <2>1, TakeNoneKeeps
<1>5. CASE top = b /\ top' = Plus1(top) /\ TakeOut(loc[Worker].x) /\ Finish(Worker, loc[Worker].x)
  <2>1. Len(items) = 1 /\ items # <<>> /\ loc[Worker].x = items[1]
    <3>1. Len(items) = 1
      <4>1. Len(items) \in Nat /\ top \in Nat
        BY Facts
      <4>2. PICK n \in Nat : n = Len(items)
        BY <4>1
      <4> QED
        BY <1>2, <1>5, <4>1, <4>2
    <3> QED
      BY <1>3, <3>1, EmptySeq
  <2>2. items' = Tail(items)
    BY <1>5, <2>1, TakeOutFirst
  <2>3. items' \in Seq(Nat) /\ Len(items') = 0 /\ items[1] \in Nat \ {0}
    BY <2>1, <2>2, AfterFirst
  <2>4. items' = <<>> /\ DOMAIN items' = {}
    BY <2>3, EmptySeq, LenProperties
  <2>5. top' = b + 1
    BY <1>2, <1>5
  <2>6. /\ result' = [result EXCEPT ![Worker] = items[1]]
        /\ pc' = [pc EXCEPT ![Worker] = "idle"] /\ loc' = [loc EXCEPT ![Worker] = NoLocals]
        /\ "idle" \in WorkerPlaces /\ NoLocals \in Locals
    BY <1>5, <2>1 DEF Finish, WorkerPlaces, Locals, NoLocals
  <2>7. pc'[Worker] = "idle" /\ \A p \in Thieves : pc'[p] = pc[p] /\ loc'[p] = loc[p]
    BY <1>2, <2>6, DequeAssumption DEF DequeInv, TypeOK, Procs
  <2>8. Own(BOTTOM)' = b + 1
    BY <1>1, <1>2, OwnBottom
  <2>9. Bottom' = b + 1 /\ b + 1 \in Nat
    BY <1>2, <2>7, <2>8 DEF Bottom, Taking
  <2>10. /\ pending' \in Seq((Locations \cup {FENCE}) \X Nat)
         /\ \A l : Own(l)' = IF l = BOTTOM THEN b + 1 ELSE Own(l)
         /\ PendingOK' /\ WeakOK'
    BY <1>1, <1>2, <2>9, BottomStored
  <2>11. Own(ARRAY)' = Own(ARRAY)
    BY <2>10, Places
  <2>12. TypeOK' /\ ResultOK'
    <3>1. top' \in Nat /\ mem' \in [Locations -> Nat] /\ pushed' \in 0 .. MaxPush
      BY <1>1, <1>2, <2>5 DEF DequeInv, TypeOK
    <3> QED
      BY <2>3, <2>6, <2>10, <3>1, NotBusy, WorkerTypes
  <2>13. SizesOK'
    <3>1. ArraySize(Own(ARRAY)) \in Nat /\ ArraySize(Own(ARRAY))' = ArraySize(Own(ARRAY))
      BY <2>11, Facts, ArraySizes DEF ArraySize
    <3> QED
      BY <1>1, <1>2, <2>3, <2>5, <2>9, <3>1 DEF SizesOK
  <2>14. ItemsOK'
    BY <2>4 DEF ItemsOK
  <2>15. \A j : j \notin top' .. Bottom' - 1
    BY <1>2, <2>5, <2>9
  <2>16. ContentsOK' /\ VisibleOK'
    BY <2>15 DEF ContentsOK, VisibleOK
  <2>17. WorkerOK'
    BY <2>7 DEF WorkerOK, Taking
  <2>18. ASSUME NEW p \in Thieves PROVE ThiefOK(p)'
    <3>1. pc'[p] = pc[p] /\ loc'[p] = loc[p] /\ loc[p].t \in Nat
      BY <2>7, LocalsType DEF DequeInv, TypeOK, Procs
    <3>2. pc[p] # "idle" => loc'[p].t <= top' /\ loc'[p].t # top'
      BY <1>2, <1>5, <2>5, <3>1 DEF DequeInv, ThiefOK
    <3> QED
      BY <2>11, <3>1, <3>2 DEF DequeInv, ThiefOK
  <2> QED
    BY <2>4, <2>10, <2>12, <2>13, <2>14, <2>16, <2>17, <2>18 DEF DequeInv
<1> QED
  BY <1>3, <1>4, <1>5 DEF TakeCas, CasTop

\* A machine that does not keep the order of stores has one array.
LEMMA OneArray ==
    ASSUME DequeInv, order = "PSO"
    PROVE  /\ \A n \in Views : Held(n, ARRAY) = mem[ARRAY]
           /\ Own(ARRAY) = mem[ARRAY] /\ mem[ARRAY] \in Arrays
<1>1. ASSUME NEW i \in DOMAIN pending PROVE pending[i][1] # ARRAY
  <2>1. mem[ARRAY] \in Arrays
    BY Facts
  <2>2. \A k \in 0 .. ArraySize(mem[ARRAY]) - 1 : k \in Nat
    BY <2>1, ArraySizes
  <2> QED
    BY <2>1, <2>2, Places DEF DequeInv, WeakOK
<1>2. ASSUME NEW n \in Views PROVE Held(n, ARRAY) = mem[ARRAY]
  <2>1. n \in Nat /\ \A i \in 1 .. n : i \in DOMAIN pending
    BY Facts, LenProperties DEF Views, DequeInv, TypeOK
  <2> QED
    BY <1>1, <2>1, HeldUnwritten DEF Held
<1> QED
  BY <1>2, Facts

LEMMA PushLoadKeeps ==
    ASSUME DequeInv, PushLoad, UNCHANGED order PROVE DequeInv'
<1> DEFINE b == Own(BOTTOM)
           a == Own(ARRAY)
           l == [loc[Worker] EXCEPT !.b = b, !.a = a]
           place == IF Full(b, a) THEN "resize" ELSE "push_store"
<1>1. pc[Worker] = "idle" /\ pushed < MaxPush /\ Worker \in Procs
  BY DEF PushLoad, Procs
<1>2. Bottom = b /\ b \in Nat /\ b <= MaxPush /\ a \in Arrays /\ a \in Nat
  BY <1>1, Facts, ArraySizes DEF DequeInv, SizesOK, Bottom, Taking
<1>3. Full(b, a) <=> Len(items) >= ArraySize(a)
  <2>1. top <= b /\ b - top = Len(items) /\ ArraySize(a) \in Nat
    BY <1>2, Sizes
  <2>2. Minus(b, top) = Len(items)
    BY <1>2, <2>1, Facts, NoOverflow
  <2> QED
    BY <2>1, <2>2, Facts DEF Full
<1>4. ASSUME Full(b, a) PROVE order = "TSO" /\ a < MaxArray
  <2>1. ArraySize(a) < MaxPush
    BY <1>1, <1>2, <1>3, <1>4, Facts, ArraySizes DEF DequeInv, SizesOK
  <2>2. order # "PSO"
    BY <1>2, <2>1, Facts, OneArray, ArraySizes DEF DequeInv, WeakOK
  <2>3. a # MaxArray
    BY <1>2, <2>1, Facts, DequeAssumption, ArraySizes
  <2> QED
    BY <1>2, <2>2, <2>3, DequeAssumption DEF DequeInv, TypeOK, Arrays
<1>5. l \in Locals /\ l.b = b /\ l.a = a
  BY <1>1, <1>2 DEF DequeInv, TypeOK, Locals
<1>6. place \in WorkerPlaces /\ place \in {"resize", "push_store"}
  BY DEF WorkerPlaces
<1>7. /\ loc' = [loc EXCEPT ![Worker] = l] /\ pc' = [pc EXCEPT ![Worker] = place]
      /\ UNCHANGED <<order, top, mem, pending, pushed, items>>
      /\ result' = [result EXCEPT ![Worker] = result[Worker]]
      /\ result[Worker] \in {EMPTY, ABORT} \cup (Nat \ {0}) /\ result[Worker] # BUSY
  <2>1. result[Worker] # BUSY /\ result[Worker] \in {EMPTY, ABORT, BUSY} \cup (Nat \ {0})
    BY <1>1 DEF DequeInv, TypeOK, ResultOK
  <2> QED
    BY <1>1, <2>1 DEF PushLoad, DequeInv, TypeOK
<1>8. place = "resize" <=> Full(b, a)
  OBVIOUS
<1> HIDE DEF b, a, l, place
<1>9. /\ TypeOK' /\ pc'[Worker] = place /\ loc'[Worker] = l /\ ResultOK'
      /\ \A p \in Thieves : pc'[p] = pc[p] /\ loc'[p] = loc[p]
  <2>1. /\ top' \in Nat /\ mem' \in [Locations -> Nat] /\ pushed' \in 0 .. MaxPush
        /\ pending' \in Seq((Locations \cup {FENCE}) \X Nat) /\ items' \in Seq(Nat)
    BY <1>7 DEF DequeInv, TypeOK
  <2> QED
    BY <1>5, <1>6, <1>7, <2>1, WorkerTypes
<1>10. Bottom' = Bottom
  BY <1>1, <1>6, <1>7, <1>9 DEF Bottom, Own, Taking
<1>11. /\ SizesOK' /\ ItemsOK' /\ PendingOK' /\ WeakOK' /\ ContentsOK' /\ VisibleOK'
       /\ Own(ARRAY)' = Own(ARRAY) /\ Own(BOTTOM)' = Own(BOTTOM)
       /\ \A p \in Thieves : ThiefOK(p)'
  BY <1>7, <1>9, <1>10, Quiet
<1>12. WorkerOK'
  <2>1. l.b = Own(BOTTOM)' /\ l.a = Own(ARRAY)'
    BY <1>5, <1>11 DEF a, b
  <2>2. place = "resize" => order' = "TSO" /\ l.a < MaxArray
    BY <1>4, <1>5, <1>7, <1>8
  <2>3. place = "push_store" => Len(items') < ArraySize(a)
    BY <1>2, <1>3, <1>6, <1>7, <1>8, Facts, ArraySizes
  <2>4. ArraySize(Own(ARRAY)') = ArraySize(a) /\ pushed' < MaxPush
    BY <1>1, <1>7, <1>11 DEF a
  <2> QED
    BY <1>6, <1>9, <2>1, <2>2, <2>3, <2>4 DEF WorkerOK, Taking
<1> QED
  BY <1>9, <1>11, <1>12 DEF DequeInv

\* What the owner reads and what thieves will see, once it has pushed.
LEMMA PushStored ==
    ASSUME DequeInv, PushStore, UNCHANGED order
    PROVE  LET N == Len(pending)
               b == Own(BOTTOM)
               E == Entry(Own(ARRAY), b)
               x == pushed + 1
           IN  /\ pending' \in Seq((Locations \cup {FENCE}) \X Nat) /\ Len(pending') = N + 3
               /\ \A i \in 1 .. N : pending'[i] = pending[i]
               /\ pending'[N + 1] = <<E, x>> /\ pending'[N + 2] = <<FENCE, 0>>
               /\ pending'[N + 3] = <<BOTTOM, b + 1>>
               /\ \A l : \A n \in 0 .. N :
                     HeldAfter(mem', pending', n, l) = HeldAfter(mem, pending, n, l)
               /\ \A l : \A n \in N + 1 .. N + 3 : l \notin {E, BOTTOM, FENCE} =>
                     HeldAfter(mem', pending', n, l) = Own(l)
               /\ \A n \in N + 1 .. N + 3 : HeldAfter(mem', pending', n, E) = x
               /\ \A n \in N + 1 .. N + 2 : HeldAfter(mem', pending', n, BOTTOM) = b
               /\ HeldAfter(mem', pending', N + 3, BOTTOM) = b + 1
<1> DEFINE S == (Locations \cup {FENCE}) \X Nat
           b == Own(BOTTOM)
           E == Entry(Own(ARRAY), b)
           x == pushed + 1
           s1 == Append(pending, <<E, x>>)
           s2 == Append(s1, <<FENCE, 0>>)
           s3 == Append(s2, <<BOTTOM, b + 1>>)
<1>1. pc[Worker] = "push_store" /\ loc[Worker].b = b /\ loc[Worker].a = Own(ARRAY)
  BY DEF PushStore, DequeInv, WorkerOK
<1>2. Bottom = b /\ b \in Nat /\ Plus1(b) = b + 1 /\ x \in Nat
  <2>1. Bottom = b /\ b \in Nat /\ pushed < MaxPush /\ x \in Nat
    BY <1>1, Facts DEF Bottom, Taking, DequeInv, WorkerOK
  <2>2. b + 1 <= MaxPush
    BY <2>1, Facts DEF DequeInv, SizesOK
  <2> QED
    BY <2>1, <2>2, NoOverflow
<1>3. <<E, x>> \in S /\ <<FENCE, 0>> \in S /\ <<BOTTOM, b + 1>> \in S /\ E # BOTTOM
      /\ E # FENCE /\ BOTTOM # FENCE
  <2>1. E \in Locations /\ E # BOTTOM
    BY <1>2, Facts, Places
  <2>2. BOTTOM \in Locations /\ FENCE \notin Locations
    BY Places
  <2> HIDE DEF E, b, x
  <2> QED
    BY <1>2, <2>1, <2>2
<1>4. PICK N \in Nat : N = Len(pending)
  BY Facts
<1>5. pending \in Seq(S)
  BY DEF DequeInv, TypeOK
<1>6. mem' = mem /\ pending' = s3
  <2> HIDE DEF S, b, E, x
  <2>1. s1 \in Seq(S) /\ s1 = pending \o << <<E, x>> >>
    BY <1>3, <1>5, AppendProperties, AppendIsConcat
  <2> HIDE DEF s1
  <2>2. s2 \in Seq(S) /\ s2 = s1 \o << <<FENCE, 0>> >>
    BY <1>3, <2>1, AppendProperties, AppendIsConcat
  <2> HIDE DEF s2
  <2>3. s3 = s2 \o << <<BOTTOM, b + 1>> >>
    BY <1>3, <2>2, AppendIsConcat
  <2> HIDE DEF s3
  <2>4. pending' = pending \o << <<E, x>> >> \o << <<FENCE, 0>> >> \o << <<BOTTOM, b + 1>> >> /\ mem' = mem
    BY <1>1, <1>2 DEF PushStore, ReleaseFence, Store, E, x
  <2> QED
    BY <2>1, <2>2, <2>3, <2>4
<1> HIDE DEF S, b, E, x
<1>7. /\ pending' \in Seq(S) /\ Len(pending') = N + 3
      /\ \A i \in 1 .. N : pending'[i] = pending[i]
      /\ pending'[N + 1] = <<E, x>> /\ pending'[N + 2] = <<FENCE, 0>>
      /\ pending'[N + 3] = <<BOTTOM, b + 1>>
  <2>1. /\ s1 \in Seq(S) /\ Len(s1) = N + 1 /\ s1[N + 1] = <<E, x>>
        /\ \A i \in 1 .. N : s1[i] = pending[i]
    BY <1>3, <1>4, <1>5, AppendProperties
  <2> HIDE DEF s1
  <2>2. /\ s2 \in Seq(S) /\ Len(s2) = N + 2 /\ s2[N + 2] = <<FENCE, 0>>
        /\ \A i \in 1 .. N + 1 : s2[i] = s1[i]
    <3>1. N + 1 \in Nat /\ N + 1 + 1 = N + 2
      OBVIOUS
    <3> QED
      BY <1>3, <2>1, <3>1, AppendProperties
  <2> HIDE DEF s2
  <2>3. /\ s3 \in Seq(S) /\ Len(s3) = N + 3 /\ s3[N + 3] = <<BOTTOM, b + 1>>
        /\ \A i \in 1 .. N + 2 : s3[i] = s2[i]
    <3>1. N + 2 \in Nat /\ N + 2 + 1 = N + 3
      OBVIOUS
    <3> QED
      BY <1>3, <2>2, <3>1, AppendProperties
  <2> HIDE DEF s3
  <2> QED
    BY <1>6, <2>1, <2>2, <2>3
<1> HIDE DEF s1, s2, s3
<1>8. PICK s : s = pending'
  OBVIOUS
<1>9. \A l : \A n \in 0 .. N : HeldAfter(mem, s, n, l) = HeldAfter(mem, pending, n, l)
  <2> SUFFICES ASSUME NEW l, NEW n \in 0 .. N
               PROVE  HeldAfter(mem, s, n, l) = HeldAfter(mem, pending, n, l)
    OBVIOUS
  <2>1. n \in Nat /\ \A i \in 1 .. n : s[i] = pending[i]
    BY <1>7, <1>8
  <2>2. \A m : m[l] = mem[l] => HeldAfter(m, s, n, l) = HeldAfter(mem, pending, n, l)
    BY <2>1, HeldPrefix
  <2> QED
    BY <2>2
<1>10. ASSUME NEW l, NEW n \in N + 1 .. N + 3, l \notin {E, BOTTOM, FENCE}
       PROVE  HeldAfter(mem, s, n, l) = Own(l)
  <2>1. \A i \in N + 1 .. n : s[i][1] # l
    BY <1>7, <1>8, <1>10
  <2>2. HeldAfter(mem, s, n, l) = HeldAfter(mem, s, N, l)
    BY <2>1, HeldSkip
  <2> QED
    BY <1>4, <1>9, <2>2 DEF Own
<1>11. ASSUME NEW n \in N + 1 .. N + 3 PROVE HeldAfter(mem, s, n, E) = x
  <2>1. LastWrite(s, n, E, N + 1) /\ s[N + 1][2] = x
    <3>1. \A i \in N + 1 + 1 .. n : i = N + 2 \/ i = N + 3
      OBVIOUS
    <3> QED
      BY <1>3, <1>7, <1>8, <3>1 DEF LastWrite
  <2> QED
    BY <2>1, HeldWritten
<1>12. ASSUME NEW n \in N + 1 .. N + 2 PROVE HeldAfter(mem, s, n, BOTTOM) = b
  <2>1. \A i \in N + 1 .. n : s[i][1] # BOTTOM
    BY <1>3, <1>7, <1>8
  <2>2. HeldAfter(mem, s, n, BOTTOM) = HeldAfter(mem, s, N, BOTTOM)
    BY <2>1, HeldSkip
  <2> QED
    BY <1>4, <1>9, <2>2 DEF Own, b
<1>13. HeldAfter(mem, s, N + 3, BOTTOM) = b + 1
  <2>1. LastWrite(s, N + 3, BOTTOM, N + 3) /\ s[N + 3][2] = b + 1
    BY <1>7, <1>8 DEF LastWrite
  <2> QED
    BY <2>1, HeldWritten
<1>14. mem' = mem
  BY <1>6
<1> QED
  BY <1>4, <1>7, <1>8, <1>9, <1>10, <1>11, <1>12, <1>13, <1>14 DEF S, b, E, x

LEMMA PushStoreKeeps ==
    ASSUME DequeInv, PushStore, UNCHANGED order
    PROVE  DequeInv' /\ items' = Append(items, pushed + 1)
<1> DEFINE S == (Locations \cup {FENCE}) \X Nat
           b == Own(BOTTOM)
           a == Own(ARRAY)
           E == Entry(a, b)
           x == pushed + 1
<1>1. /\ pc[Worker] = "push_store" /\ Worker \in Procs
      /\ UNCHANGED <<order, top, mem>> /\ pushed' = x /\ items' = Append(items, x)
      /\ loc' = [loc EXCEPT ![Worker] = NoLocals] /\ pc' = [pc EXCEPT ![Worker] = "idle"]
      /\ result' = result
  BY DEF PushStore, Procs
<1>2. PICK N \in Nat, L \in Nat : N = Len(pending) /\ L = Len(items)
  BY Facts
<1>3. /\ b = Bottom /\ b \in Nat /\ a \in Arrays /\ a \in Nat /\ x \in Nat /\ top \in Nat
      /\ ArraySize(a) \in Nat /\ L < ArraySize(a) /\ pushed < MaxPush /\ top + L = b /\ b <= pushed
      /\ L \in Nat
  <2>1. b = Bottom
    BY <1>1, Facts DEF Bottom, Taking
  <2>2. a = Own(ARRAY) /\ L < ArraySize(a) /\ pushed < MaxPush
    BY <1>1, <1>2 DEF DequeInv, WorkerOK
  <2>3. a \in Arrays /\ a \in Nat /\ ArraySize(a) \in Nat
    BY <2>2, Facts, ArraySizes
  <2>4. pushed \in Nat /\ x \in Nat /\ top \in Nat /\ b \in Nat
    BY <2>1, Facts
  <2>5. top + L = b /\ b <= pushed
    BY <1>2, <2>1, Sizes
  <2> QED
    BY <1>2, <2>1, <2>2, <2>3, <2>4, <2>5
<1>4. /\ pending' \in Seq(S) /\ Len(pending') = N + 3
      /\ \A i \in 1 .. N : pending'[i] = pending[i]
      /\ pending'[N + 1] = <<E, x>> /\ pending'[N + 2] = <<FENCE, 0>>
      /\ pending'[N + 3] = <<BOTTOM, b + 1>>
  BY <1>2, PushStored
<1>5. \A l : \A n \in 0 .. N : HeldAfter(mem', pending', n, l) = Held(n, l)
  BY <1>2, PushStored DEF Held
<1>6. /\ \A l : \A n \in N + 1 .. N + 3 : l \notin {E, BOTTOM, FENCE} =>
            HeldAfter(mem', pending', n, l) = Own(l)
      /\ \A n \in N + 1 .. N + 3 : HeldAfter(mem', pending', n, E) = x
      /\ \A n \in N + 1 .. N + 2 : HeldAfter(mem', pending', n, BOTTOM) = b
      /\ HeldAfter(mem', pending', N + 3, BOTTOM) = b + 1
  BY <1>2, PushStored
<1>7. Views = 0 .. N /\ Views' = 0 .. N + 3 /\ \A l : Own(l) = Held(N, l)
  BY <1>2, <1>4, Facts DEF Views
<1>8. DOMAIN pending = 1 .. N /\ DOMAIN pending' = 1 .. N + 3
  BY <1>2, <1>4, LenProperties DEF DequeInv, TypeOK
<1>9. /\ E \in Locations /\ E # BOTTOM /\ E # ARRAY
      /\ ARRAY # BOTTOM /\ BOTTOM # FENCE /\ ARRAY # FENCE /\ E # FENCE
      /\ \A l \in Locations : l # FENCE
  BY <1>3, Places
<1>10. ASSUME NEW k \in 0 .. a, NEW j \in Nat
       PROVE  /\ Entry(k, j) \notin {ARRAY, BOTTOM, FENCE}
              /\ top <= j /\ j < b => Entry(k, j) # E
  <2>1. k \in Arrays
    BY <1>3, DequeAssumption DEF Arrays
  <2>2. CASE k = a
    <3>1. top <= j /\ j < b => b - j < ArraySize(a)
      BY <1>3
    <3> QED
      BY <1>3, <1>9, <2>1, <2>2, <3>1, Places
  <2>3. CASE k # a
    BY <1>3, <1>9, <2>1, <2>3, Places
  <2> QED
    BY <2>2, <2>3
<1> HIDE DEF S, b, a, E, x
<1>11. ASSUME NEW l \in Locations, l \notin {E, BOTTOM}, NEW n \in 0 .. N + 3
       PROVE  HeldAfter(mem', pending', n, l) = Held(Earlier(n), l)
  <2>1. CASE n \in 0 .. N
    BY <1>5, <1>7, <2>1 DEF Earlier
  <2>2. CASE n \in N + 1 .. N + 3
    BY <1>2, <1>6, <1>7, <1>9, <1>11, <2>2 DEF Earlier
  <2> QED
    BY <2>1, <2>2
<1>12. \A l : Own(l)' = HeldAfter(mem', pending', N + 3, l)
  BY <1>4 DEF Own
<1>13. Own(ARRAY)' = a /\ Own(BOTTOM)' = b + 1
  <2>1. N + 3 \in N + 1 .. N + 3
    OBVIOUS
  <2> QED
    BY <1>6, <1>9, <1>12, <2>1 DEF a
<1>14. TypeOK' /\ ResultOK' /\ pc'[Worker] = "idle"
       /\ \A p \in Thieves : pc'[p] = pc[p] /\ loc'[p] = loc[p]
  <2>1. /\ "idle" \in WorkerPlaces /\ NoLocals \in Locals
        /\ result' = [result EXCEPT ![Worker] = result[Worker]]
        /\ result[Worker] \in {EMPTY, ABORT, BUSY} \cup (Nat \ {0})
        /\ result[Worker] # BUSY
    BY <1>1 DEF DequeInv, TypeOK, ResultOK, WorkerPlaces, Locals, NoLocals
  <2>2. /\ top' \in Nat /\ mem' \in [Locations -> Nat] /\ pushed' \in 0 .. MaxPush
        /\ items' \in Seq(Nat) /\ pending' \in Seq((Locations \cup {FENCE}) \X Nat)
    <3>1. x \in 0 .. MaxPush
      BY <1>3, Facts DEF x
    <3>2. Append(items, x) \in Seq(Nat)
      BY <1>3, AppendProperties DEF DequeInv, TypeOK
    <3> QED
      BY <1>1, <1>4, <3>1, <3>2 DEF DequeInv, TypeOK, S
  <2> QED
    BY <1>1, <2>1, <2>2, WorkerTypes
<1>15. Bottom' = b + 1
  BY <1>3, <1>13, <1>14 DEF Bottom, Taking
<1>16. /\ Len(items') = L + 1 /\ items'[L + 1] = x /\ DOMAIN items' = 1 .. L + 1
       /\ \A i \in 1 .. L : items'[i] = items[i] /\ i \in DOMAIN items
  <2>1. items \in Seq(Nat) /\ items' = Append(items, x) /\ DOMAIN items = 1 .. L
    BY <1>1, <1>2, LenProperties DEF DequeInv, TypeOK
  <2>2. DOMAIN items' = 1 .. L + 1
    BY <1>2, <1>3, <2>1, AppendProperties, LenProperties
  <2> QED
    BY <1>2, <1>3, <2>1, <2>2, AppendProperties
<1>17. SizesOK'
  <2>1. Len(items') <= ArraySize(a) /\ top + (L + 1) = b + 1 /\ b + 1 <= x /\ b + 1 >= 1
    BY <1>3, <1>16, Facts DEF x
  <2>2. ArraySize(Own(ARRAY))' = ArraySize(a)
    BY <1>13 DEF ArraySize
  <2> QED
    BY <1>1, <1>15, <1>16, <2>1, <2>2 DEF SizesOK
<1>18. ItemsOK'
  <2>1. ASSUME NEW i \in 1 .. L + 1
        PROVE  /\ items'[i] \in 1 .. x
               /\ \A k \in 1 .. L + 1 : i < k => items'[i] < items'[k]
    <3>1. CASE i \in 1 .. L
      <4>1. items'[i] = items[i] /\ items[i] \in 1 .. pushed
        BY <1>16, <3>1 DEF DequeInv, ItemsOK
      <4>2. ASSUME NEW k \in 1 .. L, i < k PROVE items'[i] < items'[k]
        BY <1>16, <3>1, <4>2 DEF DequeInv, ItemsOK
      <4>3. \A k \in 1 .. L + 1 : k \in 1 .. L \/ k = L + 1
        OBVIOUS
      <4>4. items[i] < x /\ items[i] \in 1 .. x
        BY <4>1, Facts DEF x
      <4> QED
        BY <1>16, <4>1, <4>2, <4>3, <4>4
    <3>2. CASE i = L + 1
      BY <1>3, <1>16, <3>2, Facts DEF x
    <3> QED
      BY <3>1, <3>2
  <2> QED
    BY <1>1, <1>16, <2>1 DEF ItemsOK
<1>19. PendingOK'
  <2>1. ASSUME NEW i \in 1 .. N + 3, pending'[i][1] = FENCE
        PROVE  i > 1 /\ i < N + 3 /\ pending'[i + 1][1] = BOTTOM
    <3>1. CASE i \in 1 .. N
      <4>1. i > 1 /\ i < N /\ pending[i + 1][1] = BOTTOM
        BY <1>2, <1>4, <1>8, <2>1, <3>1 DEF DequeInv, PendingOK
      <4> QED
        BY <1>4, <4>1
    <3>2. CASE i = N + 2
      BY <1>4, <3>2
    <3>3. i # N + 1 /\ i # N + 3
      BY <1>4, <1>9, <2>1
    <3> QED
      BY <3>1, <3>2, <3>3
  <2>2. ASSUME NEW n \in 0 .. N + 3
        PROVE  HeldAfter(mem', pending', n, ARRAY) <= a /\ HeldAfter(mem', pending', n, BOTTOM) <= b + 1
    <3>1. Earlier(n) \in Views
      BY <1>2, <1>7 DEF Earlier
    <3>2. HeldAfter(mem', pending', n, ARRAY) <= a
      BY <1>9, <1>11, <3>1, Places DEF DequeInv, PendingOK, a
    <3>3. CASE n \in 0 .. N
      <4>1. Held(n, BOTTOM) <= b /\ Held(n, BOTTOM) \in Nat
        BY <1>3, <1>7, <3>3, Facts, Places DEF DequeInv, PendingOK
      <4> QED
        BY <1>3, <1>5, <3>2, <3>3, <4>1
    <3>4. CASE n \in N + 1 .. N + 3
      <4>1. n \in N + 1 .. N + 2 \/ n = N + 3
        BY <3>4
      <4> QED
        BY <1>3, <1>6, <3>2, <4>1
    <3> QED
      BY <3>2, <3>3, <3>4
  <2> QED
    BY <1>3, <1>4, <1>7, <1>8, <1>13, <1>15, <2>1, <2>2 DEF PendingOK, Held
<1>20. WeakOK'
  <2> SUFFICES ASSUME order = "PSO"
               PROVE  \A i \in 1 .. N + 3 :
                         \/ pending'[i][1] \in {BOTTOM, FENCE}
                         \/ /\ i < N + 3 /\ pending'[i + 1][1] = FENCE
                            /\ \E v \in 0 .. ArraySize(mem[ARRAY]) - 1 :
                                  /\ pending'[i][1] = Entry(mem[ARRAY], v)
                                  /\ \A n \in 0 .. i - 1 : HeldAfter(mem', pending', n, BOTTOM) <= v
    BY <1>1, <1>4, <1>8 DEF DequeInv, WeakOK, Held
  <2>1. ASSUME NEW i \in 1 .. N, pending[i][1] \notin {BOTTOM, FENCE}
        PROVE  /\ i < N + 3 /\ pending'[i + 1][1] = FENCE
               /\ \E v \in 0 .. ArraySize(mem[ARRAY]) - 1 :
                     /\ pending'[i][1] = Entry(mem[ARRAY], v)
                     /\ \A n \in 0 .. i - 1 : HeldAfter(mem', pending', n, BOTTOM) <= v
    <3>1. /\ i < N /\ pending[i + 1][1] = FENCE
          /\ \E v \in 0 .. ArraySize(mem[ARRAY]) - 1 :
                /\ pending[i][1] = Entry(mem[ARRAY], v)
                /\ \A n \in 0 .. i - 1 : Held(n, BOTTOM) <= v
      BY <1>2, <1>8, <2>1 DEF DequeInv, WeakOK
    <3>2. \A n \in 0 .. i - 1 : n \in 0 .. N
      OBVIOUS
    <3>3. pending'[i] = pending[i] /\ pending'[i + 1] = pending[i + 1]
      BY <1>4, <3>1
    <3> QED
      BY <1>5, <3>1, <3>2, <3>3
  <2>2. /\ pending'[N + 1][1] = Entry(mem[ARRAY], b) /\ pending'[N + 1 + 1][1] = FENCE
        /\ b \in 0 .. ArraySize(mem[ARRAY]) - 1
        /\ \A n \in 0 .. N + 1 - 1 : HeldAfter(mem', pending', n, BOTTOM) <= b
    <3>1. a = mem[ARRAY] /\ MaxPush <= ArraySize(mem[ARRAY])
      BY OneArray DEF DequeInv, WeakOK, a
    <3>2. b < ArraySize(mem[ARRAY]) /\ N + 1 + 1 = N + 2
      BY <1>3, <3>1, Facts
    <3>3. ASSUME NEW n \in 0 .. N PROVE Held(n, BOTTOM) <= b
      BY <1>3, <1>7 DEF DequeInv, PendingOK
    <3>4. b \in 0 .. ArraySize(mem[ARRAY]) - 1
      BY <1>3, <3>1, <3>2
    <3>5. \A n \in 0 .. N + 1 - 1 : n \in 0 .. N
      OBVIOUS
    <3> QED
      BY <1>4, <1>5, <3>1, <3>2, <3>3, <3>4, <3>5 DEF E
  <2>3. ASSUME NEW i \in 1 .. N + 3
        PROVE  i \in 1 .. N \/ i = N + 1 \/ i = N + 2 \/ i = N + 3
    OBVIOUS
  <2>4. ASSUME NEW i \in 1 .. N PROVE pending'[i] = pending[i]
    BY <1>4
  <2>5. N + 1 < N + 3 /\ N + 1 \in Nat
    OBVIOUS
  <2>6. pending'[N + 2][1] = FENCE /\ pending'[N + 3][1] = BOTTOM
    BY <1>4
  <2> QED
    BY <2>1, <2>2, <2>3, <2>4, <2>5, <2>6
<1>21. /\ items'[b - top + 1] = x
       /\ \A j \in top .. b - 1 : items'[j - top + 1] = ItemAt(j)
  <2>1. b - top + 1 = L + 1
    BY <1>3
  <2>2. ASSUME NEW j \in top .. b - 1 PROVE items'[j - top + 1] = items[j - top + 1]
    <3>1. j - top + 1 \in 1 .. L
      BY <1>3
    <3> QED
      BY <1>16, <3>1
  <2> QED
    BY <1>16, <2>1, <2>2 DEF ItemAt
<1>22. ASSUME NEW A \in 0 .. a, NEW j \in top .. b - 1, NEW n \in 0 .. N + 3
       PROVE  HeldAfter(mem', pending', n, Entry(A, j)) = Held(Earlier(n), Entry(A, j))
  <2>1. j \in Nat /\ top <= j /\ j < b
    BY <1>3
  <2>2. A \in Arrays
    BY <1>3, DequeAssumption DEF Arrays
  <2> QED
    BY <1>10, <1>11, <2>1, <2>2, Places
<1>23. ASSUME NEW j \in top .. b, NEW n \in 0 .. N + 3, n > N
       PROVE  HeldAfter(mem', pending', n, Entry(a, j)) = items'[j - top + 1]
  <2>1. CASE j = b
    BY <1>6, <1>21, <1>23, <2>1 DEF E
  <2>2. CASE j \in top .. b - 1
    <3>1. Earlier(n) = N /\ a \in 0 .. a
      BY <1>2, <1>3, <1>7, <1>23 DEF Earlier
    <3>2. Own(Entry(a, j)) = ItemAt(j)
      BY <1>3, <2>2 DEF DequeInv, ContentsOK, a
    <3> QED
      BY <1>7, <1>21, <1>22, <2>2, <3>1, <3>2
  <2> QED
    BY <1>3, <2>1, <2>2
<1>24. ContentsOK'
  <2> SUFFICES ASSUME NEW j \in top' .. Bottom' - 1
               PROVE  HeldAfter(mem', pending', Len(pending'), Entry(Own(ARRAY)', j)) = ItemAt(j)'
    BY DEF ContentsOK, Own
  <2>1. j \in top .. b /\ ItemAt(j)' = items'[j - top + 1]
    BY <1>1, <1>3, <1>15 DEF ItemAt
  <2>2. N + 3 \in 0 .. N + 3 /\ N + 3 > N
    OBVIOUS
  <2> QED
    BY <1>4, <1>13, <1>23, <2>1, <2>2
<1>25. VisibleOK'
  <2> SUFFICES ASSUME NEW m \in Views', NEW h \in Views', NEW n \in Views', m <= h, h <= n,
                      NEW j \in top' .. Bottom' - 1, j < HeldAfter(mem', pending', m, BOTTOM)
               PROVE  HeldAfter(mem', pending', n, Entry(HeldAfter(mem', pending', h, ARRAY), j))
                         = ItemAt(j)'
    BY DEF VisibleOK, Held
  <2>0. /\ m \in 0 .. N + 3 /\ h \in 0 .. N + 3 /\ n \in 0 .. N + 3
        /\ j \in top .. b /\ ItemAt(j)' = items'[j - top + 1]
    BY <1>1, <1>3, <1>7, <1>15 DEF ItemAt
  <2> DEFINE A == Held(Earlier(h), ARRAY)
  <2>1. /\ Earlier(h) \in Views /\ Earlier(n) \in Views /\ Earlier(h) <= Earlier(n)
        /\ h > N => Earlier(h) = N /\ n > N
    BY <1>2, <1>7, <2>0 DEF Earlier
  <2>2. HeldAfter(mem', pending', h, ARRAY) = A /\ A \in 0 .. a
    <3>1. HeldAfter(mem', pending', h, ARRAY) = A
      BY <1>9, <1>11, <2>0, Places
    <3>2. A <= a /\ A \in Nat
      BY <2>1, Facts, ArraySizes DEF DequeInv, PendingOK, a
    <3> QED
      BY <1>3, <3>1, <3>2
  <2>3. CASE h > N
    BY <1>3, <1>7, <1>23, <2>0, <2>1, <2>2, <2>3 DEF a
  <2>4. CASE h <= N
    <3>1. m \in Views /\ h \in Views /\ Earlier(h) = h /\ j < Held(m, BOTTOM)
      BY <1>2, <1>5, <1>7, <2>0, <2>4 DEF Earlier
    <3>2. Held(m, BOTTOM) <= b /\ Held(m, BOTTOM) \in Nat
      BY <1>3, <3>1, Facts, Places DEF DequeInv, PendingOK
    <3>3. j \in top .. b - 1
      BY <1>3, <2>0, <3>1, <3>2
    <3>4. Held(Earlier(n), Entry(A, j)) = ItemAt(j)
      <4>1. ASSUME NEW q \in Views, h <= q PROVE Held(q, Entry(Held(h, ARRAY), j)) = ItemAt(j)
        BY <1>3, <3>1, <3>3, <4>1 DEF DequeInv, VisibleOK
      <4> QED
        BY <2>1, <3>1, <4>1
    <3> QED
      BY <1>21, <1>22, <2>0, <2>2, <3>3, <3>4
  <2> QED
    BY <2>0, <2>3, <2>4
<1>26. ASSUME NEW p \in Thieves PROVE ThiefOK(p)'
  <2>1. items # <<>> => items' # <<>> /\ items'[1] = items[1]
    <3>1. items' # <<>>
      BY <1>16, EmptySeq
    <3>2. items # <<>> => 1 \in 1 .. L
      BY <1>2, EmptySeq DEF DequeInv, TypeOK
    <3> QED
      BY <1>16, <3>1, <3>2
  <2>2. ASSUME items # <<>>, NEW k \in 0 .. a
        PROVE  LET l == Entry(k, top) IN
                 /\ \A n \in Views' : HeldAfter(mem', pending', n, l) = Held(Earlier(n), l)
                 /\ ClearOf(pending, l) => ClearOf(pending', l)
    <3>1. top \in top .. b - 1 /\ top < b
      <4>1. L # 0
        BY <1>2, <2>2, EmptySeq DEF DequeInv, TypeOK
      <4> QED
        BY <1>3, <4>1
    <3>2. Entry(k, top) \notin {E, BOTTOM, FENCE}
      BY <1>3, <1>10, <3>1
    <3>3. ASSUME \A i \in 1 .. N : pending[i][1] # Entry(k, top), NEW i \in 1 .. N + 3
          PROVE  pending'[i][1] # Entry(k, top)
      <4>1. i \in 1 .. N \/ i = N + 1 \/ i = N + 2 \/ i = N + 3
        OBVIOUS
      <4> QED
        BY <1>4, <3>2, <3>3, <4>1
    <3>4. ClearOf(pending, Entry(k, top)) => ClearOf(pending', Entry(k, top))
      BY <1>1, <1>8, <3>3 DEF ClearOf
    <3> QED
      BY <1>7, <1>22, <3>1, <3>4
  <2>3. \A n \in Views' : HeldAfter(mem', pending', n, ARRAY) = Held(Earlier(n), ARRAY)
    BY <1>7, <1>9, <1>11, Places
  <2>4. \A n \in Views' : n \notin Views => n > Len(pending)
    BY <1>2, <1>7
  <2>5. Own(ARRAY) <= Own(ARRAY)' /\ Own(ARRAY)' \in Nat
    BY <1>3, <1>13 DEF a
  <2>6. pc'[p] = pc[p] /\ loc'[p] = loc[p] /\ UNCHANGED <<order, top>>
    BY <1>1, <1>14
  <2> QED
    BY <2>1, <2>2, <2>3, <2>4, <2>5, <2>6, ThievesStay DEF a
<1>27. WorkerOK'
  BY <1>14 DEF WorkerOK, Taking
<1> QED
  BY <1>1, <1>14, <1>17, <1>18, <1>19, <1>20, <1>24, <1>25, <1>26, <1>27 DEF DequeInv, x

\* What the owner reads and what thieves will see, once it has grown the array.
LEMMA Grown ==
    ASSUME DequeInv, Resize, UNCHANGED order
    PROVE  LET N == Len(pending)
               M == Len(items)
               a == Own(ARRAY)
           IN  /\ pending' \in Seq((Locations \cup {FENCE}) \X Nat) /\ Len(pending') = N + M + 1
               /\ \A i \in 1 .. N : pending'[i] = pending[i]
               /\ \A i \in N + 1 .. N + M + 1 : pending'[i][1] # FENCE
               /\ \A l : \A n \in 0 .. N :
                     HeldAfter(mem', pending', n, l) = HeldAfter(mem, pending, n, l)
               /\ \A l \in Locations : \A n \in N + 1 .. N + M + 1 :
                     (\A j \in top .. Bottom - 1 : l # Entry(a + 1, j)) /\ l # ARRAY =>
                         HeldAfter(mem', pending', n, l) = Own(l)
               /\ \A n \in N + 1 .. N + M : HeldAfter(mem', pending', n, ARRAY) = a
               /\ HeldAfter(mem', pending', N + M + 1, ARRAY) = a + 1
               /\ \A j \in top .. Bottom - 1 :
                     HeldAfter(mem', pending', N + M + 1, Entry(a + 1, j)) = ItemAt(j)
<1> DEFINE S == (Locations \cup {FENCE}) \X Nat
           a == Own(ARRAY)
           b == Own(BOTTOM)
           live == [n \in 1 .. b - top |->
                       Store(Entry(a + 1, top + n - 1), Own(Entry(a, top + n - 1)))]
<1>1. /\ pc[Worker] = "resize" /\ loc[Worker].a = a /\ a < MaxArray /\ mem' = mem
      /\ pending' = pending \o live \o << <<ARRAY, a + 1>> >>
  BY DEF Resize, Store, DequeInv, WorkerOK
<1>2. PICK N \in Nat, M \in Nat : N = Len(pending) /\ M = Len(items)
  BY Facts
<1>3. /\ b = Bottom /\ b \in Nat /\ top \in Nat /\ top + M = b
      /\ a \in Nat /\ a \in Arrays /\ a + 1 \in Arrays
      /\ ArraySize(a) \in Nat \ {0} /\ ArraySize(a + 1) = 2 * ArraySize(a) /\ M <= ArraySize(a)
  <2>1. b = Bottom
    BY <1>1, Facts DEF Bottom, Taking
  <2>2. a \in Nat /\ a \in Arrays /\ a + 1 \in Arrays
    BY <1>1, Facts, DequeAssumption DEF Arrays
  <2>3. ArraySize(a) \in Nat \ {0} /\ ArraySize(a + 1) = 2 * ArraySize(a)
    BY <2>2, ArraySizes
  <2> QED
    BY <1>2, <2>1, <2>2, <2>3, Facts DEF DequeInv, SizesOK
<1>4. \A i \in 1 .. M : top + i - 1 \in top .. b - 1 /\ top + i - 1 \in Nat
  BY <1>3
<1>5. ASSUME NEW i \in 1 .. M
      PROVE  live[i] = <<Entry(a + 1, top + i - 1), ItemAt(top + i - 1)>> /\ live[i] \in S
             /\ live[i][1] # FENCE /\ live[i][1] # ARRAY
  <2> DEFINE j == top + i - 1
  <2>1. i \in 1 .. b - top /\ j \in top .. b - 1 /\ j \in Nat
    BY <1>3, <1>4
  <2>2. live[i] = <<Entry(a + 1, j), Own(Entry(a, j))>>
    BY <2>1 DEF Store
  <2>3. Own(Entry(a, j)) = ItemAt(j) /\ Own(Entry(a, j)) \in Nat
    <3>1. Own(Entry(a, j)) = ItemAt(j)
      BY <1>3, <2>1 DEF DequeInv, ContentsOK
    <3>2. Entry(a, j) \in Locations
      BY <1>3, <2>1, Places
    <3> QED
      BY <3>1, <3>2, Facts
  <2>4. Entry(a + 1, j) \in Locations /\ Entry(a + 1, j) # ARRAY /\ Entry(a + 1, j) # FENCE
    BY <1>3, <2>1, Places
  <2> HIDE DEF live, a, b, j
  <2>5. <<Entry(a + 1, j), Own(Entry(a, j))>> \in S
    BY <2>3, <2>4
  <2> QED
    BY <2>2, <2>3, <2>4, <2>5 DEF j
<1>6. live \in Seq(S) /\ Len(live) = M
  <2>1. b - top = M
    BY <1>3
  <2>2. live = [n \in 1 .. M |-> live[n]]
    BY <2>1
  <2> HIDE DEF live, S
  <2>3. live \in [1 .. M -> S]
    BY <1>5, <2>2
  <2> QED
    BY <1>2, <2>3, SeqDef, LenProperties
<1>7. <<ARRAY, a + 1>> \in S /\ ARRAY # FENCE
  <2>1. ARRAY \in Locations /\ FENCE \notin Locations
    BY Places
  <2> HIDE DEF a
  <2> QED
    BY <1>3, <2>1
<1> HIDE DEF S, a, b, live
<1>8. /\ pending' \in Seq(S) /\ Len(pending') = N + M + 1
      /\ \A i \in 1 .. N : pending'[i] = pending[i]
      /\ \A i \in 1 .. M : pending'[N + i] = live[i]
      /\ pending'[N + M + 1] = <<ARRAY, a + 1>>
  <2> DEFINE s == pending \o live
  <2>1. pending \in Seq(S)
    BY DEF DequeInv, TypeOK, S
  <2>2. /\ s \in Seq(S) /\ Len(s) = N + M
        /\ \A i \in 1 .. N + M : s[i] = IF i <= N THEN pending[i] ELSE live[i - N]
    <3>1. /\ s \in Seq(S) /\ Len(s) = Len(pending) + Len(live)
          /\ \A i \in 1 .. Len(pending) + Len(live) :
                s[i] = IF i <= Len(pending) THEN pending[i] ELSE live[i - Len(pending)]
      BY <1>6, <2>1, ConcatProperties
    <3> HIDE DEF s
    <3> QED
      BY <1>2, <1>6, <3>1
  <2> HIDE DEF s
  <2>3. pending' = Append(s, <<ARRAY, a + 1>>)
    BY <1>1, <1>7, <2>2, AppendIsConcat DEF s
  <2>4. /\ pending' \in Seq(S) /\ Len(pending') = N + M + 1
        /\ \A i \in 1 .. N + M : pending'[i] = s[i]
        /\ pending'[N + M + 1] = <<ARRAY, a + 1>>
    BY <1>7, <2>2, <2>3, AppendProperties
  <2>5. ASSUME NEW i \in 1 .. M PROVE pending'[N + i] = live[i]
    <3>1. N + i \in 1 .. N + M /\ ~(N + i <= N) /\ N + i - N = i
      OBVIOUS
    <3> QED
      BY <2>2, <2>4, <3>1
  <2>6. ASSUME NEW i \in 1 .. N PROVE pending'[i] = pending[i]
    BY <2>2, <2>4
  <2> QED
    BY <2>4, <2>5, <2>6
<1>9. PICK s : s = pending'
  OBVIOUS
<1>10. ASSUME NEW l, NEW n \in 0 .. N
       PROVE  HeldAfter(mem, s, n, l) = HeldAfter(mem, pending, n, l)
  <2>1. n \in Nat /\ \A i \in 1 .. n : s[i] = pending[i]
    BY <1>8, <1>9
  <2>2. \A m : m[l] = mem[l] => HeldAfter(m, s, n, l) = HeldAfter(mem, pending, n, l)
    BY <2>1, HeldPrefix
  <2> QED
    BY <2>2
<1>11. ASSUME NEW i \in N + 1 .. N + M + 1
       PROVE  \/ \E j \in top .. b - 1 : s[i] = <<Entry(a + 1, j), ItemAt(j)>> /\ s[i][1] # ARRAY /\ i <= N + M
              \/ i = N + M + 1 /\ s[i] = <<ARRAY, a + 1>>
  <2>1. CASE i = N + M + 1
    BY <1>8, <1>9, <2>1
  <2>2. CASE i - N \in 1 .. M
    <3>1. N + (i - N) = i
      OBVIOUS
    <3>2. s[i] = live[i - N]
      BY <1>8, <1>9, <2>2, <3>1
    <3> QED
      <4>1. PICK j : j = top + (i - N) - 1
        OBVIOUS
      <4>2. j \in top .. b - 1 /\ i <= N + M
        BY <1>4, <2>2, <4>1
      <4>3. s[i] = <<Entry(a + 1, j), ItemAt(j)>> /\ s[i][1] # ARRAY
        BY <1>5, <2>2, <3>2, <4>1
      <4> QED
        BY <4>2, <4>3
  <2> QED
    BY <2>1, <2>2
<1>12. ASSUME NEW l, NEW n \in N + 1 .. N + M + 1, \A i \in N + 1 .. n : s[i][1] # l
       PROVE  HeldAfter(mem, s, n, l) = Own(l)
  <2>1. HeldAfter(mem, s, n, l) = HeldAfter(mem, s, N, l)
    BY <1>12, HeldSkip
  <2> QED
    BY <1>2, <1>10, <2>1 DEF Own
<1>13. ASSUME NEW l \in Locations, NEW n \in N + 1 .. N + M + 1, l # ARRAY,
              \A j \in top .. b - 1 : l # Entry(a + 1, j)
       PROVE  HeldAfter(mem, s, n, l) = Own(l)
  <2>1. ASSUME NEW i \in N + 1 .. n PROVE s[i][1] # l
    <3>1. i \in N + 1 .. N + M + 1
      OBVIOUS
    <3> QED
      BY <1>11, <1>13, <3>1
  <2> QED
    BY <1>12, <2>1
<1>14. ASSUME NEW n \in N + 1 .. N + M PROVE HeldAfter(mem, s, n, ARRAY) = a
  <2>1. ASSUME NEW i \in N + 1 .. n PROVE s[i][1] # ARRAY
    <3>1. i \in N + 1 .. N + M + 1 /\ i # N + M + 1
      OBVIOUS
    <3> QED
      BY <1>11, <3>1
  <2>2. n \in N + 1 .. N + M + 1
    OBVIOUS
  <2> QED
    BY <1>12, <2>1, <2>2 DEF a
<1>15. HeldAfter(mem, s, N + M + 1, ARRAY) = a + 1
  <2>1. LastWrite(s, N + M + 1, ARRAY, N + M + 1) /\ s[N + M + 1][2] = a + 1
    BY <1>8, <1>9 DEF LastWrite
  <2> QED
    BY <2>1, HeldWritten
<1>16. ASSUME NEW j \in top .. b - 1
       PROVE  HeldAfter(mem, s, N + M + 1, Entry(a + 1, j)) = ItemAt(j)
  <2> DEFINE i == j - top + 1
             l == Entry(a + 1, j)
  <2>1. i \in 1 .. M /\ top + i - 1 = j /\ N + i \in 1 .. N + M + 1
    BY <1>3
  <2>2. s[N + i] = <<l, ItemAt(j)>>
    BY <1>5, <1>8, <1>9, <2>1
  <2>3. ASSUME NEW k \in N + i + 1 .. N + M + 1 PROVE s[k][1] # l
    <3>1. CASE k = N + M + 1
      BY <1>3, <1>8, <1>9, <3>1, Places
    <3>2. CASE k - N \in i + 1 .. M
      <4>1. k - N \in 1 .. M /\ N + (k - N) = k
        BY <2>1, <3>2
      <4>2. s[k][1] = Entry(a + 1, top + (k - N) - 1)
        <5>1. s[k] = live[k - N]
          BY <1>8, <1>9, <4>1
        <5> QED
          BY <1>5, <4>1, <5>1
      <4>3. /\ j \in Nat /\ top + (k - N) - 1 \in Nat /\ j < top + (k - N) - 1
            /\ top + (k - N) - 1 - j < ArraySize(a + 1)
        BY <1>3, <2>1, <3>2
      <4> QED
        BY <1>3, <4>2, <4>3, Places
    <3> QED
      BY <2>1, <3>1, <3>2
  <2> HIDE DEF i, l
  <2>4. LastWrite(s, N + M + 1, l, N + i)
    BY <2>1, <2>2, <2>3 DEF LastWrite
  <2>5. HeldAfter(mem, s, N + M + 1, l) = s[N + i][2]
    BY <2>4, HeldWritten
  <2> QED
    BY <2>2, <2>5 DEF l
<1>17. \A i \in N + 1 .. N + M + 1 : s[i][1] # FENCE
  <2>1. \A j \in top .. b - 1 : Entry(a + 1, j) # FENCE
    BY <1>3, Places
  <2> QED
    BY <1>7, <1>11, <2>1
<1> QED
  BY <1>1, <1>2, <1>3, <1>8, <1>9, <1>10, <1>13, <1>14, <1>15, <1>16, <1>17 DEF S, a

LEMMA ResizeKeeps ==
    ASSUME DequeInv, Resize, UNCHANGED order PROVE DequeInv'
<1> DEFINE S == (Locations \cup {FENCE}) \X Nat
           a == Own(ARRAY)
           b == Own(BOTTOM)
           l == [loc[Worker] EXCEPT !.a = a + 1]
<1>1. /\ pc[Worker] = "resize" /\ Worker \in Procs /\ loc[Worker].a = a /\ loc[Worker].b = b
      /\ a < MaxArray /\ order = "TSO" /\ pushed < MaxPush
      /\ UNCHANGED <<order, top, mem, pushed, items, result>>
      /\ loc' = [loc EXCEPT ![Worker].a = a + 1] /\ pc' = [pc EXCEPT ![Worker] = "push_store"]
  BY DEF Resize, DequeInv, WorkerOK, Procs
<1>2. PICK N \in Nat, M \in Nat : N = Len(pending) /\ M = Len(items)
  BY Facts
<1>3. /\ b = Bottom /\ b \in Nat /\ top \in Nat /\ top + M = b
      /\ a \in Nat /\ a \in Arrays /\ a + 1 \in Arrays
      /\ M < ArraySize(a + 1)
  <2>1. b = Bottom
    BY <1>1, Facts DEF Bottom, Taking
  <2>2. a \in Nat /\ a \in Arrays /\ a + 1 \in Arrays
    <3>1. a < MaxArray /\ a \in Arrays /\ MaxArray \in Nat
      BY <1>1, Facts, DequeAssumption
    <3> HIDE DEF a
    <3> QED
      BY <3>1 DEF Arrays
  <2>3. ArraySize(a) \in Nat \ {0} /\ ArraySize(a + 1) = 2 * ArraySize(a) /\ M <= ArraySize(a)
    BY <1>2, <2>2, ArraySizes DEF DequeInv, SizesOK
  <2>4. M < ArraySize(a + 1)
    BY <2>3
  <2> QED
    BY <1>2, <2>1, <2>2, <2>4, Facts DEF DequeInv, SizesOK
<1>4. /\ pending' \in Seq(S) /\ Len(pending') = N + M + 1
      /\ \A i \in 1 .. N : pending'[i] = pending[i]
      /\ \A i \in N + 1 .. N + M + 1 : pending'[i][1] # FENCE
  BY <1>2, Grown
<1>5. \A k : \A n \in 0 .. N : HeldAfter(mem', pending', n, k) = Held(n, k)
  BY <1>2, Grown DEF Held
<1>6. /\ \A k \in Locations : \A n \in N + 1 .. N + M + 1 :
            (\A j \in top .. b - 1 : k # Entry(a + 1, j)) /\ k # ARRAY =>
               HeldAfter(mem', pending', n, k) = Own(k)
      /\ \A n \in N + 1 .. N + M : HeldAfter(mem', pending', n, ARRAY) = a
      /\ HeldAfter(mem', pending', N + M + 1, ARRAY) = a + 1
      /\ \A j \in top .. b - 1 :
            HeldAfter(mem', pending', N + M + 1, Entry(a + 1, j)) = ItemAt(j)
  BY <1>2, <1>3, Grown
<1>7. Views = 0 .. N /\ Views' = 0 .. N + M + 1 /\ \A k : Own(k) = Held(N, k)
  BY <1>2, <1>4, Facts DEF Views
<1>8. DOMAIN pending = 1 .. N /\ DOMAIN pending' = 1 .. N + M + 1
  BY <1>2, <1>4, LenProperties DEF DequeInv, TypeOK
<1>9. l \in Locals /\ l.b = b /\ l.a = a + 1 /\ loc' = [loc EXCEPT ![Worker] = l]
  <2>1. loc[Worker] \in Locals /\ a + 1 \in Nat /\ loc[Worker].b = b
    BY <1>1, <1>3 DEF DequeInv, TypeOK
  <2>2. loc' = [loc EXCEPT ![Worker] = l]
    BY <1>1
  <2> HIDE DEF a, b
  <2>3. l \in Locals /\ l.b = b /\ l.a = a + 1
    BY <2>1 DEF Locals
  <2> QED
    BY <2>2, <2>3
<1> HIDE DEF S, a, b, l
<1>10. ASSUME NEW k \in Locations, k # ARRAY, \A j \in Nat : k # Entry(a + 1, j), NEW n \in 0 .. N + M + 1
       PROVE  HeldAfter(mem', pending', n, k) = Held(Earlier(n), k)
  <2>1. CASE n \in 0 .. N
    BY <1>5, <1>7, <2>1 DEF Earlier
  <2>2. CASE n \in N + 1 .. N + M + 1
    <3>1. \A j \in top .. b - 1 : j \in Nat
      BY <1>3
    <3>2. HeldAfter(mem', pending', n, k) = Own(k)
      BY <1>6, <1>10, <2>2, <3>1
    <3>3. Earlier(n) = N
      BY <1>2, <1>7, <2>2 DEF Earlier
    <3> QED
      BY <1>7, <3>2, <3>3
  <2> QED
    BY <2>1, <2>2
<1>11. ASSUME NEW n \in 0 .. N + M + 1
       PROVE  /\ HeldAfter(mem', pending', n, BOTTOM) = Held(Earlier(n), BOTTOM)
              /\ \A k \in 0 .. a : \A j \in Nat :
                    HeldAfter(mem', pending', n, Entry(k, j)) = Held(Earlier(n), Entry(k, j))
  <2>1. \A j \in Nat : BOTTOM # Entry(a + 1, j)
    BY <1>3, Places
  <2>2. ASSUME NEW k \in 0 .. a, NEW j \in Nat
        PROVE  /\ Entry(k, j) \in Locations /\ Entry(k, j) # ARRAY
               /\ \A i \in Nat : Entry(k, j) # Entry(a + 1, i)
    <3>1. k \in Arrays /\ k # a + 1
      BY <1>3, DequeAssumption DEF Arrays
    <3> QED
      BY <1>3, <3>1, Places
  <2>3. HeldAfter(mem', pending', n, BOTTOM) = Held(Earlier(n), BOTTOM)
    BY <1>10, <2>1, Places
  <2>4. ASSUME NEW k \in 0 .. a, NEW j \in Nat
        PROVE  HeldAfter(mem', pending', n, Entry(k, j)) = Held(Earlier(n), Entry(k, j))
    BY <1>10, <2>2
  <2> QED
    BY <2>3, <2>4
<1>12. ASSUME NEW n \in 0 .. N + M + 1
       PROVE  \/ n <= N + M /\ HeldAfter(mem', pending', n, ARRAY) = Held(Earlier(n), ARRAY)
              \/ n = N + M + 1 /\ HeldAfter(mem', pending', n, ARRAY) = a + 1
  <2>1. CASE n \in 0 .. N
    BY <1>5, <1>7, <2>1 DEF Earlier
  <2>2. CASE n \in N + 1 .. N + M
    <3>1. Earlier(n) = N
      BY <1>2, <1>7, <2>2 DEF Earlier
    <3> QED
      BY <1>6, <1>7, <2>2, <3>1 DEF a
  <2>3. CASE n = N + M + 1
    BY <1>6, <2>3
  <2> QED
    BY <2>1, <2>2, <2>3
<1>13. Own(ARRAY)' = a + 1 /\ Own(BOTTOM)' = b
  <2>1. N + M + 1 \in 0 .. N + M + 1 /\ Earlier(N + M + 1) = N
    BY <1>2, <1>7 DEF Earlier
  <2>2. HeldAfter(mem', pending', N + M + 1, BOTTOM) = b
    BY <1>7, <1>11, <2>1 DEF b
  <2> QED
    BY <1>4, <1>6, <2>2 DEF Own
<1>14. TypeOK' /\ ResultOK' /\ pc'[Worker] = "push_store" /\ loc'[Worker] = l
       /\ \A p \in Thieves : pc'[p] = pc[p] /\ loc'[p] = loc[p]
  <2>1. /\ "push_store" \in WorkerPlaces
        /\ result' = [result EXCEPT ![Worker] = result[Worker]]
        /\ result[Worker] \in {EMPTY, ABORT, BUSY} \cup (Nat \ {0})
        /\ result[Worker] # BUSY
    BY <1>1 DEF DequeInv, TypeOK, ResultOK, WorkerPlaces
  <2>2. /\ top' \in Nat /\ mem' \in [Locations -> Nat] /\ pushed' \in 0 .. MaxPush
        /\ items' \in Seq(Nat) /\ pending' \in Seq((Locations \cup {FENCE}) \X Nat)
    BY <1>1, <1>4 DEF DequeInv, TypeOK, S
  <2> QED
    <3>1. pc' = [pc EXCEPT ![Worker] = "push_store"] /\ order' = order
      BY <1>1
    <3> QED
      BY <1>9, <2>1, <2>2, <3>1, WorkerTypes
<1>15. Bottom' = b
  BY <1>3, <1>13, <1>14 DEF Bottom, Taking
<1>16. \A j : ItemAt(j)' = ItemAt(j)
  BY <1>1 DEF ItemAt
<1>17. SizesOK'
  <2>1. ArraySize(Own(ARRAY))' = ArraySize(a + 1) /\ Len(items') = M
    BY <1>1, <1>2, <1>13 DEF ArraySize
  <2>2. M <= ArraySize(a + 1)
    BY <1>3, ArraySizes
  <2>3. b <= pushed /\ (pushed > 0 => b >= 1)
    BY <1>3 DEF DequeInv, SizesOK
  <2> QED
    BY <1>1, <1>3, <1>15, <2>1, <2>2, <2>3 DEF SizesOK
<1>18. ItemsOK'
  BY <1>1 DEF DequeInv, ItemsOK
<1>19. PendingOK'
  <2>1. ASSUME NEW i \in 1 .. N + M + 1, pending'[i][1] = FENCE
        PROVE  i > 1 /\ i < N + M + 1 /\ pending'[i + 1][1] = BOTTOM
    <3>1. i \in 1 .. N
      BY <1>4, <2>1
    <3>2. i > 1 /\ i < N /\ pending[i + 1][1] = BOTTOM
      BY <1>2, <1>4, <1>8, <2>1, <3>1 DEF DequeInv, PendingOK
    <3> QED
      BY <1>4, <3>2
  <2>2. ASSUME NEW n \in 0 .. N + M + 1
        PROVE  HeldAfter(mem', pending', n, ARRAY) <= a + 1 /\ HeldAfter(mem', pending', n, BOTTOM) <= b
    <3>1. Earlier(n) \in Views
      BY <1>2, <1>7 DEF Earlier
    <3>2. Held(Earlier(n), ARRAY) <= a /\ Held(Earlier(n), ARRAY) \in Nat /\ Held(Earlier(n), BOTTOM) <= b
      BY <1>3, <3>1, Facts, Places DEF DequeInv, PendingOK, a
    <3> QED
      BY <1>3, <1>11, <1>12, <3>2
  <2> QED
    BY <1>3, <1>4, <1>7, <1>8, <1>13, <1>15, <2>1, <2>2 DEF PendingOK, Held
<1>20. WeakOK'
  BY <1>1 DEF WeakOK
<1>21. ASSUME NEW j \in top .. b - 1
       PROVE  HeldAfter(mem', pending', N + M + 1, Entry(a + 1, j)) = ItemAt(j) /\ j \in Nat
  BY <1>3, <1>6
<1>22. ContentsOK'
  <2> SUFFICES ASSUME NEW j \in top' .. Bottom' - 1
               PROVE  HeldAfter(mem', pending', Len(pending'), Entry(Own(ARRAY)', j)) = ItemAt(j)'
    BY DEF ContentsOK, Own
  <2>1. j \in top .. b - 1
    BY <1>1, <1>15
  <2> QED
    BY <1>4, <1>13, <1>16, <1>21, <2>1
<1>23. VisibleOK'
  <2> SUFFICES ASSUME NEW m \in Views', NEW h \in Views', NEW n \in Views', m <= h, h <= n,
                      NEW j \in top' .. Bottom' - 1, j < HeldAfter(mem', pending', m, BOTTOM)
               PROVE  HeldAfter(mem', pending', n, Entry(HeldAfter(mem', pending', h, ARRAY), j))
                         = ItemAt(j)
    BY <1>16 DEF VisibleOK, Held
  <2>1. /\ m \in 0 .. N + M + 1 /\ h \in 0 .. N + M + 1 /\ n \in 0 .. N + M + 1
        /\ j \in top .. b - 1 /\ j \in Nat
    BY <1>1, <1>3, <1>7, <1>15
  <2>2. CASE h = N + M + 1
    BY <1>6, <1>21, <2>1, <2>2
  <2>3. CASE HeldAfter(mem', pending', h, ARRAY) = Held(Earlier(h), ARRAY)
    <3> DEFINE A == Held(Earlier(h), ARRAY)
    <3>1. /\ Earlier(m) \in Views /\ Earlier(h) \in Views /\ Earlier(n) \in Views
          /\ Earlier(m) <= Earlier(h) /\ Earlier(h) <= Earlier(n)
      BY <1>2, <1>7, <2>1 DEF Earlier
    <3>2. j < Held(Earlier(m), BOTTOM)
      BY <1>11, <2>1
    <3>3. Held(Earlier(n), Entry(A, j)) = ItemAt(j)
      BY <1>3, <2>1, <3>1, <3>2 DEF DequeInv, VisibleOK
    <3>4. A \in 0 .. a
      <4>1. A <= a /\ A \in Nat
        BY <3>1, Facts, ArraySizes DEF DequeInv, PendingOK, a
      <4> QED
        BY <1>3, <4>1
    <3> QED
      BY <1>11, <2>1, <2>3, <3>3, <3>4
  <2> QED
    BY <1>12, <2>1, <2>2, <2>3
<1>24. ASSUME NEW p \in Thieves PROVE ThiefOK(p)'
  <2>1. \A s, k : ClearOf(s, k)
    BY <1>1 DEF ClearOf
  <2>2. ASSUME NEW k \in 0 .. a
        PROVE  \A n \in Views' : HeldAfter(mem', pending', n, Entry(k, top)) = Held(Earlier(n), Entry(k, top))
    BY <1>3, <1>7, <1>11
  <2>3. ASSUME items # <<>>, NEW h \in Views', NEW n \in Views', h <= n
        PROVE  \/ HeldAfter(mem', pending', h, ARRAY) = Held(Earlier(h), ARRAY)
               \/ HeldAfter(mem', pending', n, Entry(HeldAfter(mem', pending', h, ARRAY), top)) = items[1]
    <3>1. top \in top .. b - 1 /\ ItemAt(top) = items[1]
      <4>1. M # 0
        BY <1>2, <2>3, EmptySeq DEF DequeInv, TypeOK
      <4> QED
        BY <1>3, <4>1 DEF ItemAt
    <3>2. CASE h = N + M + 1
      <4>1. n = N + M + 1
        BY <1>7, <2>3, <3>2
      <4> QED
        BY <1>6, <1>21, <3>1, <3>2, <4>1
    <3> QED
      BY <1>7, <1>12, <3>2
  <2>4. \A n \in Views' : n \notin Views => n > Len(pending)
    BY <1>2, <1>7
  <2>5. Own(ARRAY) <= Own(ARRAY)' /\ Own(ARRAY)' \in Nat
    BY <1>3, <1>13 DEF a
  <2>6. pc'[p] = pc[p] /\ loc'[p] = loc[p] /\ UNCHANGED <<order, top, items>>
    BY <1>1, <1>14
  <2> QED
    BY <2>1, <2>2, <2>3, <2>4, <2>5, <2>6, ThievesStay DEF a
<1>25. WorkerOK'
  <2>1. Len(items') < ArraySize(Own(ARRAY)')
    BY <1>1, <1>2, <1>3, <1>13
  <2>2. l.b = Own(BOTTOM)' /\ l.a = Own(ARRAY)' /\ pushed' < MaxPush
    BY <1>1, <1>9, <1>13
  <2> QED
    BY <1>14, <2>1, <2>2 DEF WorkerOK, Taking
<1> QED
  BY <1>14, <1>17, <1>18, <1>19, <1>20, <1>22, <1>23, <1>24, <1>25 DEF DequeInv

-----------------------------------------------------------------------------
(* Stores reach memory *)

\* l is the entry of an item that no thief expects to find there as yet.
Early(n, l) ==
    /\ order = "PSO" /\ l \notin {BOTTOM, ARRAY}
    /\ \E i \in DOMAIN pending : pending[i][1] = l
    /\ \A j \in top .. Bottom - 1 : \A m \in 0 .. n :
          l = Entry(mem[ARRAY], j) => Held(m, BOTTOM) <= j

\* Whatever reaches memory, a thief sees what it could have seen later, and
\* possibly an item that it does not look for.
LEMMA Reached ==
    ASSUME DequeInv, UNCHANGED <<order, top, pc, loc, pushed, items, result>>,
           mem' \in [Locations -> Nat], pending' \in Seq((Locations \cup {FENCE}) \X Nat),
           NEW up, \A n \in Views' : up[n] \in Views,
           \A m, n \in Views' : m <= n => up[m] <= up[n],
           \A l \in Locations : HeldAfter(mem', pending', Len(pending'), l) = Own(l),
           \A n \in Views' : \A l \in Locations :
               HeldAfter(mem', pending', n, l) = Held(up[n], l) \/ Early(up[n], l),
           \A i \in DOMAIN pending' : \E k \in DOMAIN pending : pending'[i] = pending[k],
           \A i \in DOMAIN pending' : pending'[i][1] = FENCE =>
               i > 1 /\ i < Len(pending') /\ pending'[i + 1][1] = BOTTOM,
           WeakOK'
    PROVE  DequeInv'
<1>1. \A n \in Views' : HeldAfter(mem', pending', n, BOTTOM) = Held(up[n], BOTTOM)
      /\ HeldAfter(mem', pending', n, ARRAY) = Held(up[n], ARRAY)
  BY Places DEF Early
<1>2. Own(ARRAY)' = Own(ARRAY) /\ Own(BOTTOM)' = Own(BOTTOM)
  BY Places DEF Own
<1>3. Bottom' = Bottom
  BY <1>2 DEF Bottom
<1>4. TypeOK'
  BY DEF DequeInv, TypeOK
<1>5. SizesOK'
  BY <1>2, <1>3 DEF DequeInv, SizesOK
<1>6. ItemsOK'
  BY DEF DequeInv, ItemsOK
<1>7. PendingOK'
  BY <1>1, <1>2, <1>3 DEF DequeInv, PendingOK, Held
<1>8. \A j : ItemAt(j)' = ItemAt(j)
  BY DEF ItemAt
<1>9. \A j \in top .. Bottom - 1 : j \in Nat
  BY Facts
<1>10. ContentsOK'
  <2> SUFFICES ASSUME NEW j \in top .. Bottom - 1
               PROVE  HeldAfter(mem', pending', Len(pending'), Entry(Own(ARRAY)', j)) = ItemAt(j)
    BY <1>3, <1>8 DEF ContentsOK, Own
  <2>1. Entry(Own(ARRAY), j) \in Locations
    BY <1>9, Facts, Places
  <2> QED
    BY <1>2, <2>1 DEF DequeInv, ContentsOK
<1>11. VisibleOK'
  <2> SUFFICES ASSUME NEW m \in Views', NEW h \in Views', NEW n \in Views', m <= h, h <= n,
                      NEW j \in top .. Bottom - 1, j < HeldAfter(mem', pending', m, BOTTOM)
               PROVE  HeldAfter(mem', pending', n, Entry(HeldAfter(mem', pending', h, ARRAY), j))
                         = ItemAt(j)
    BY <1>3, <1>8 DEF VisibleOK, Held
  <2> DEFINE A == Held(up[h], ARRAY)
  <2>1. /\ up[m] \in Views /\ up[h] \in Views /\ up[n] \in Views
        /\ up[m] <= up[h] /\ up[h] <= up[n] /\ up[m] \in 0 .. up[n]
    BY Facts DEF Views
  <2>2. HeldAfter(mem', pending', h, ARRAY) = A /\ A \in Arrays /\ j < Held(up[m], BOTTOM)
    BY <1>1, <2>1, Facts
  <2>3. Entry(A, j) \in Locations
    BY <1>9, <2>2, Places
  <2>4. Held(up[n], Entry(A, j)) = ItemAt(j)
    BY <2>1, <2>2 DEF DequeInv, VisibleOK
  <2>5. ~Early(up[n], Entry(A, j))
    <3>1. order = "PSO" => A = mem[ARRAY]
      BY <2>1, OneArray
    <3>2. Held(up[m], BOTTOM) \in Nat
      BY <2>1, Facts, Places
    <3> QED
      BY <1>9, <2>1, <2>2, <3>1, <3>2 DEF Early
  <2> QED
    BY <2>2, <2>3, <2>4, <2>5
<1>12. WorkerOK'
  <2>1. pending = <<>> => pending' = <<>>
    <3>1. pending = <<>> => DOMAIN pending' = {}
      <4>1. pending = <<>> => DOMAIN pending = {}
        OBVIOUS
      <4> QED
        BY <4>1
    <3>2. DOMAIN pending' = 1 .. Len(pending') /\ Len(pending') \in Nat
      BY LenProperties
    <3>3. DOMAIN pending' = {} => Len(pending') = 0
      BY <3>2
    <3> QED
      BY <3>1, <3>3, EmptySeq
  <2> QED
    BY <1>2, <2>1 DEF DequeInv, WorkerOK
<1>13. ASSUME NEW l \in Locations, ClearOf(pending, l), NEW n \in Views'
       PROVE  ClearOf(pending', l) /\ HeldAfter(mem', pending', n, l) = Held(up[n], l)
  <2>1. ~Early(up[n], l)
    BY <1>13 DEF ClearOf, Early
  <2> QED
    BY <1>13, <2>1 DEF ClearOf
<1>14. ASSUME NEW p \in Thieves PROVE ThiefOK(p)'
  <2> DEFINE t == loc[p].t
             k == loc[p].a
  <2>1. top \in Nat /\ k \in Nat /\ Own(ARRAY) \in Arrays
    BY Facts, LocalsType DEF DequeInv, TypeOK, Procs
  <2>2. ASSUME pc[p] = "steal_array", t = top, NEW h \in Views', NEW n \in Views', h <= n
        PROVE  LET l == Entry(HeldAfter(mem', pending', h, ARRAY), t)
               IN  items # <<>> /\ ClearOf(pending', l) /\ HeldAfter(mem', pending', n, l) = items[1]
    <3> DEFINE A == Held(up[h], ARRAY)
    <3>1. A \in Arrays /\ HeldAfter(mem', pending', h, ARRAY) = A /\ Entry(A, top) \in Locations
      BY <1>1, <2>1, Facts, Places
    <3>2. /\ ClearOf(pending, Entry(A, top)) /\ Held(up[n], Entry(A, top)) = items[1]
          /\ items # <<>>
      BY <2>2 DEF DequeInv, ThiefOK, FirstIn
    <3> HIDE DEF A
    <3> QED
      BY <1>13, <2>2, <3>1, <3>2
  <2>3. ASSUME pc[p] = "steal_entry", t = top, NEW n \in Views'
        PROVE  /\ items # <<>> /\ ClearOf(pending', Entry(k, t))
               /\ HeldAfter(mem', pending', n, Entry(k, t)) = items[1]
    <3>1. k \in Arrays
      BY <2>1, <2>3, DequeAssumption DEF DequeInv, ThiefOK, Arrays
    <3>2. Entry(k, top) \in Locations
      BY <2>1, <3>1, Places
    <3>3. /\ ClearOf(pending, Entry(k, top)) /\ Held(up[n], Entry(k, top)) = items[1]
          /\ items # <<>>
      BY <2>3 DEF DequeInv, ThiefOK, FirstIn
    <3> QED
      BY <1>13, <2>3, <3>2, <3>3
  <2>4. /\ pc[p] # "idle" => t <= top
        /\ pc[p] = "steal_entry" => k <= Own(ARRAY)
        /\ pc[p] = "steal_cas" /\ t = top => items # <<>> /\ loc[p].x = items[1]
    BY DEF DequeInv, ThiefOK
  <2> QED
    BY <1>2, <2>2, <2>3, <2>4 DEF ThiefOK, Held, FirstIn, ClearOf
<1>15. ResultOK'
  BY DEF DequeInv, ResultOK
<1> QED
  BY <1>4, <1>5, <1>6, <1>7, <1>10, <1>11, <1>12, <1>14, <1>15 DEF DequeInv

\* The first store reaches memory, with the fence behind it if there is one.
LEMMA CommitFirst ==
    ASSUME DequeInv, UNCHANGED <<order, top, pc, loc, pushed, items, result>>,
           pending # <<>>, pending[1][1] # FENCE,
           mem' = [mem EXCEPT ![pending[1][1]] = pending[1][2]],
           NEW d \in 1 .. 2, d <= Len(pending), d = 2 => pending[2][1] = FENCE,
           d < Len(pending) => pending[d + 1][1] # FENCE,
           pending' \in Seq((Locations \cup {FENCE}) \X Nat), Len(pending') = Len(pending) - d,
           \A i \in 1 .. Len(pending) - d : pending'[i] = pending[i + d]
    PROVE  DequeInv'
<1> DEFINE S == (Locations \cup {FENCE}) \X Nat
<1>1. PICK N \in Nat : N = Len(pending)
  BY Facts
<1>2. PICK K \in Nat : K + d = N
  <2>1. N - d \in Nat /\ (N - d) + d = N
    BY <1>1
  <2> QED
    BY <2>1
<1>20. K = Len(pending') /\ K = N - d /\ d <= N /\ d \in Nat
  BY <1>1, <1>2
<1>3. DOMAIN pending = 1 .. N /\ DOMAIN pending' = 1 .. K /\ Views = 0 .. N /\ Views' = 0 .. K
  BY <1>1, <1>20, LenProperties DEF DequeInv, TypeOK, Views
<1>4. pending[1] \in S /\ pending[1][1] \in Locations /\ pending[1][2] \in Nat
  <2>1. 1 \in 1 .. N
    BY <1>2, <1>20
  <2> QED
    BY <1>1, <2>1, ElementOfSeq DEF DequeInv, TypeOK
<1>5. mem' \in [Locations -> Nat]
  BY <1>4 DEF DequeInv, TypeOK
<1>6. ASSUME NEW l \in Locations PROVE mem'[l] = HeldAfter(mem, pending, d, l)
  <2>1. mem'[l] = IF l = pending[1][1] THEN pending[1][2] ELSE mem[l]
    BY <1>4 DEF DequeInv, TypeOK
  <2>2. HeldAfter(mem, pending, 1, l) = IF l = pending[1][1] THEN pending[1][2] ELSE mem[l]
    <3>1. CASE l = pending[1][1]
      <4>1. LastWrite(pending, 1, l, 1)
        BY <3>1 DEF LastWrite
      <4> QED
        BY <3>1, <4>1, HeldWritten
    <3>2. CASE l # pending[1][1]
      <4>1. \A i \in 1 .. 1 : pending[i][1] # l
        BY <3>2
      <4> QED
        BY <3>2, <4>1, HeldUnwritten
    <3> QED
      BY <3>1, <3>2
  <2>3. HeldAfter(mem, pending, d, l) = HeldAfter(mem, pending, 1, l)
    <3>1. \A i \in 1 + 1 .. d : pending[i][1] # l
      BY Places
    <3> QED
      BY <3>1, HeldSkip
  <2> QED
    BY <2>1, <2>2, <2>3
<1>7. ASSUME NEW n \in 0 .. K, NEW l \in Locations
      PROVE  HeldAfter(mem', pending', n, l) = Held(n + d, l)
  <2>1. \A i \in 1 .. n : pending'[i] = pending[i + d]
    BY <1>1, <1>2, <1>20
  <2>2. \A m, s : m[l] = HeldAfter(mem, pending, d, l) /\ (\A i \in 1 .. n : s[i] = pending[i + d])
                    => HeldAfter(m, s, n, l) = HeldAfter(mem, pending, n + d, l)
    <3>1. n \in Nat /\ d \in Nat
      BY <1>20
    <3> QED
      BY ONLY <3>1, HeldShift
  <2>3. mem'[l] = HeldAfter(mem, pending, d, l)
    BY <1>6
  <2> QED
    BY <2>3, <2>1, <2>2 DEF Held
<1> DEFINE up == [n \in 0 .. K |-> n + d]
<1>8. /\ \A n \in Views' : up[n] \in Views /\ up[n] = n + d
      /\ \A m, n \in Views' : m <= n => up[m] <= up[n]
  BY <1>2, <1>3, <1>20
<1>9. \A l \in Locations : HeldAfter(mem', pending', Len(pending'), l) = Own(l)
  <2>1. K \in 0 .. K /\ K + d = N
    BY <1>2, <1>20
  <2> QED
    <3> SUFFICES ASSUME NEW l \in Locations PROVE HeldAfter(mem', pending', K, l) = Own(l)
      BY <1>20
    <3>1. HeldAfter(mem', pending', K, l) = Held(N, l)
      BY <1>7, <2>1
    <3> QED
      BY <1>1, <3>1, Facts
<1>10. \A n \in Views' : \A l \in Locations : HeldAfter(mem', pending', n, l) = Held(up[n], l)
  BY <1>3, <1>7, <1>8
<1>11. \A i \in 1 .. K : pending'[i] = pending[i + d] /\ i + d \in 1 .. N
  BY <1>1, <1>2, <1>3, <1>20
<1>12. ASSUME NEW i \in 1 .. K, pending'[i][1] = FENCE
       PROVE  i > 1 /\ i < K /\ pending'[i + 1][1] = BOTTOM
  <2>1. pending[i + d][1] = FENCE /\ i + d \in 1 .. N
    BY <1>11, <1>12
  <2>2. i + d < N /\ pending[i + d + 1][1] = BOTTOM
    BY <1>1, <1>3, <2>1 DEF DequeInv, PendingOK
  <2>3. i < K /\ i + 1 \in 1 .. K /\ i + 1 + d = i + d + 1
    BY <1>2, <1>3, <1>20, <2>2
  <2>4. pending'[i + 1][1] = BOTTOM
    BY <1>11, <2>2, <2>3
  <2>5. i # 1
    BY <1>1, <1>2, <2>1, <2>2
  <2> QED
    BY <1>2, <1>3, <1>20, <2>3, <2>4, <2>5
<1>13. WeakOK'
  <2> SUFFICES ASSUME order = "PSO"
               PROVE  /\ MaxPush <= ArraySize(mem'[ARRAY])
                      /\ \A i \in 1 .. K :
                           \/ pending'[i][1] \in {BOTTOM, FENCE}
                           \/ /\ i < K /\ pending'[i + 1][1] = FENCE
                              /\ \E b \in 0 .. ArraySize(mem'[ARRAY]) - 1 :
                                   /\ pending'[i][1] = Entry(mem'[ARRAY], b)
                                   /\ \A n \in 0 .. i - 1 : HeldAfter(mem', pending', n, BOTTOM) <= b
    BY <1>3, <1>20 DEF WeakOK, Held
  <2>1. mem'[ARRAY] = mem[ARRAY]
    <3>1. d \in Views
      BY <1>2, <1>3, <1>20
    <3> QED
      BY <1>6, <3>1, Places, OneArray DEF Held
  <2>2. MaxPush <= ArraySize(mem[ARRAY])
    BY DEF DequeInv, WeakOK
  <2>3. ASSUME NEW i \in 1 .. K, pending'[i][1] \notin {BOTTOM, FENCE}
        PROVE  /\ i < K /\ pending'[i + 1][1] = FENCE
               /\ \E b \in 0 .. ArraySize(mem[ARRAY]) - 1 :
                    /\ pending'[i][1] = Entry(mem[ARRAY], b)
                    /\ \A n \in 0 .. i - 1 : HeldAfter(mem', pending', n, BOTTOM) <= b
    <3>1. pending'[i] = pending[i + d] /\ i + d \in 1 .. N
      BY <1>11
    <3>2. i + d < N /\ pending[i + d + 1][1] = FENCE
      BY <1>1, <1>3, <2>3, <3>1 DEF DequeInv, WeakOK
    <3>3. PICK b \in 0 .. ArraySize(mem[ARRAY]) - 1 :
             /\ pending[i + d][1] = Entry(mem[ARRAY], b)
             /\ \A n \in 0 .. i + d - 1 : Held(n, BOTTOM) <= b
      <4>1. \E b \in 0 .. ArraySize(mem[ARRAY]) - 1 :
               /\ pending[i + d][1] = Entry(mem[ARRAY], b)
               /\ \A n \in 0 .. (i + d) - 1 : Held(n, BOTTOM) <= b
        BY <1>1, <1>3, <2>3, <3>1 DEF DequeInv, WeakOK
      <4> QED
        BY <4>1
    <3>4. i < K /\ i + 1 \in 1 .. K /\ i + 1 + d = i + d + 1
      BY <1>2, <1>3, <1>20, <3>2
    <3>5. pending'[i + 1][1] = FENCE
      BY <1>11, <3>2, <3>4
    <3>6. ASSUME NEW n \in 0 .. i - 1 PROVE HeldAfter(mem', pending', n, BOTTOM) <= b
      <4>1. n \in 0 .. K /\ n + d \in 0 .. i + d - 1
        BY <1>3, <1>20, <3>4
      <4> QED
        BY <1>7, <3>3, <4>1, Places
    <3> QED
      BY <1>2, <1>20, <3>1, <3>3, <3>4, <3>5, <3>6
  <2> QED
    BY <2>1, <2>2, <2>3
<1> HIDE DEF up
<1> QED
  <2>1. ASSUME NEW i \in DOMAIN pending'
        PROVE  /\ \E k \in DOMAIN pending : pending'[i] = pending[k]
               /\ pending'[i][1] = FENCE => i > 1 /\ i < Len(pending') /\ pending'[i + 1][1] = BOTTOM
    BY <1>3, <1>11, <1>12, <1>20
  <2>2. (\A n \in Views' : up[n] \in Views) /\ (\A m, n \in Views' : m <= n => up[m] <= up[n])
    BY <1>8
  <2>3. \A n \in Views' : \A l \in Locations :
           HeldAfter(mem', pending', n, l) = Held(up[n], l) \/ Early(up[n], l)
    BY <1>10
  <2>4. /\ \A i \in DOMAIN pending' : \E k \in DOMAIN pending : pending'[i] = pending[k]
        /\ \A i \in DOMAIN pending' : pending'[i][1] = FENCE =>
               i > 1 /\ i < Len(pending') /\ pending'[i + 1][1] = BOTTOM
    BY <2>1
  <2> QED
    BY <1>5, <1>9, <1>13, <2>2, <2>3, <2>4, Reached

\* A later store reaches memory first: stores of bottom stand before it.
LEMMA CommitLater ==
    ASSUME DequeInv, UNCHANGED <<order, top, pc, loc, pushed, items, result>>,
           order = "PSO", NEW c \in Nat, 2 <= c, c <= Len(pending), pending[c][1] # FENCE,
           \A m \in 1 .. c - 1 : pending[m][1] \notin {FENCE, pending[c][1]},
           mem' = [mem EXCEPT ![pending[c][1]] = pending[c][2]],
           pending' \in Seq((Locations \cup {FENCE}) \X Nat), Len(pending') = Len(pending) - 1,
           \A i \in 1 .. c - 1 : pending'[i] = pending[i],
           \A i \in c .. Len(pending) - 1 : pending'[i] = pending[i + 1]
    PROVE  DequeInv'
<1> DEFINE E == pending[c][1]
           v == pending[c][2]
           A == mem[ARRAY]
<1>1. PICK N \in Nat : N = Len(pending)
  BY Facts
<1>2. PICK K \in Nat : K + 1 = N /\ K = N - 1 /\ 2 <= c /\ c <= N
  <2>1. N - 1 \in Nat
    BY <1>1
  <2> QED
    BY <1>1, <2>1
<1>3. /\ Len(pending') = K /\ DOMAIN pending = 1 .. N /\ DOMAIN pending' = 1 .. K
      /\ Views = 0 .. N /\ Views' = 0 .. K
  BY <1>1, <1>2, LenProperties DEF DequeInv, TypeOK, Views
<1>4. E \in Locations /\ v \in Nat
  <2>1. c \in 1 .. N
    BY <1>2
  <2> QED
    BY <1>1, <2>1, ElementOfSeq DEF DequeInv, TypeOK
<1>5. mem' \in [Locations -> Nat] /\ \A l \in Locations : mem'[l] = IF l = E THEN v ELSE mem[l]
  BY <1>4 DEF DequeInv, TypeOK
<1>6. A \in Arrays /\ ArraySize(A) \in Nat /\ MaxPush <= ArraySize(A)
  BY OneArray, ArraySizes DEF DequeInv, WeakOK
<1>7. ASSUME NEW i \in 1 .. N, pending[i][1] \notin {BOTTOM, FENCE}
      PROVE  /\ i < N /\ pending[i + 1][1] = FENCE
             /\ \E b \in 0 .. ArraySize(A) - 1 :
                   pending[i][1] = Entry(A, b) /\ \A n \in 0 .. i - 1 : Held(n, BOTTOM) <= b
  BY <1>1, <1>3, <1>7 DEF DequeInv, WeakOK
<1>8. ASSUME NEW i \in 1 .. c - 1 PROVE pending[i][1] = BOTTOM
  <2>1. i \in 1 .. N /\ pending[i][1] # FENCE
    BY <1>2
  <2>2. pending[i][1] # BOTTOM => pending[i + 1][1] = FENCE
    BY <1>7, <2>1
  <2>3. i + 1 \in 1 .. c - 1 \/ i + 1 = c
    OBVIOUS
  <2> QED
    BY <2>1, <2>2, <2>3
<1>9. E # BOTTOM
  <2>1. 1 \in 1 .. c - 1
    BY <1>2
  <2> QED
    BY <1>8, <2>1
<1>10. PICK b \in 0 .. ArraySize(A) - 1 : E = Entry(A, b) /\ \A n \in 0 .. c - 1 : Held(n, BOTTOM) <= b
  <2>1. c \in 1 .. N
    BY <1>2
  <2> QED
    BY <1>7, <1>9, <2>1
<1>11. c < N /\ b \in Nat /\ E # ARRAY
  <2>1. c \in 1 .. N
    BY <1>2
  <2>2. c < N
    BY <1>7, <1>9, <2>1
  <2> QED
    BY <1>6, <1>10, <2>2, Places
<1> HIDE DEF E, v
<1>12. ASSUME NEW n \in 0 .. K, NEW l \in Locations
       PROVE  /\ n >= c => HeldAfter(mem', pending', n, l) = Held(n + 1, l)
              /\ n < c => HeldAfter(mem', pending', n, l) = IF l = E THEN v ELSE Held(n, l)
  <2>1. c \in Nat \ {0} /\ n \in Nat
    BY <1>2
  <2>2. \A i \in 1 .. c - 1 : pending[i][1] # pending[c][1] /\ pending'[i] = pending[i]
    OBVIOUS
  <2>3. \A i \in c .. n : pending'[i] = pending[i + 1]
    BY <1>1, <1>2
  <2>4. mem'[l] = IF l = pending[c][1] THEN pending[c][2] ELSE mem[l]
    BY <1>5 DEF E, v
  <2>5. Overtaken(mem, pending, mem', pending', c, n, l)
    BY <2>2, <2>3, <2>4 DEF Overtaken
  <2> QED
    BY <2>1, <2>5, HeldWithout DEF Held, E, v
<1> DEFINE up == [n \in 0 .. K |-> IF n < c THEN n ELSE n + 1]
<1>13. /\ \A n \in Views' : up[n] \in Views /\ up[n] = IF n < c THEN n ELSE n + 1
       /\ \A m, n \in Views' : m <= n => up[m] <= up[n]
  BY <1>2, <1>3
<1> HIDE DEF up
<1>14. \A l \in Locations : HeldAfter(mem', pending', Len(pending'), l) = Own(l)
  <2> SUFFICES ASSUME NEW l \in Locations PROVE HeldAfter(mem', pending', K, l) = Own(l)
    BY <1>3
  <2>1. K \in 0 .. K /\ K >= c /\ K + 1 = N
    BY <1>2, <1>11
  <2>2. HeldAfter(mem', pending', K, l) = Held(N, l)
    BY <1>12, <2>1
  <2> QED
    BY <1>1, <2>2, Facts
<1>15. ASSUME NEW n \in 0 .. K, NEW l \in Locations
       PROVE  HeldAfter(mem', pending', n, l) = Held(up[n], l) \/ Early(up[n], l)
  <2>1. CASE l # E \/ n >= c
    <3>1. n \in 0 .. K /\ (n >= c \/ n < c)
      BY <1>2, <1>3
    <3> QED
      <4>1. HeldAfter(mem', pending', n, l) = IF n < c THEN Held(n, l) ELSE Held(n + 1, l)
        <5>1. n >= c => HeldAfter(mem', pending', n, l) = Held(n + 1, l)
          BY <1>12
        <5>2. n < c => HeldAfter(mem', pending', n, l) = IF l = E THEN v ELSE Held(n, l)
          BY <1>12
        <5>3. n \in Nat /\ ~(n < c /\ n >= c)
          BY <1>2, <3>1
        <5> QED
          BY <2>1, <3>1, <5>1, <5>2, <5>3
      <4>2. up[n] = IF n < c THEN n ELSE n + 1
        BY <1>3, <1>13
      <4> QED
        BY <4>1, <4>2
  <2>2. CASE l = E /\ n < c
    <3>1. c \in DOMAIN pending /\ pending[c][1] = l
      BY <1>2, <1>3, <2>2 DEF E
    <3>2. up[n] = n
      BY <1>3, <1>13, <2>2
    <3>3. ASSUME NEW j \in top .. Bottom - 1, NEW m \in 0 .. n, l = Entry(A, j)
          PROVE  Held(m, BOTTOM) <= j
      <4>1. m \in 0 .. c - 1 /\ m \in Views /\ j \in Nat /\ n \in Nat
        <5>1. j \in Nat
          BY Facts
        <5> QED
          BY <1>2, <1>3, <2>2, <5>1
      <4>2. Held(m, BOTTOM) <= b /\ Held(m, BOTTOM) \in Nat
        BY <1>10, <4>1, Facts, Places
      <4>3. ~(j < b)
        <5>1. j < b => b - j < ArraySize(A)
          BY <1>6, <1>10, <4>1
        <5> QED
          <6>1. j < b => Entry(A, j) # Entry(A, b)
            BY <1>6, <1>11, <4>1, <5>1, Places
          <6> QED
            BY <1>10, <2>2, <3>3, <6>1
      <4> QED
        BY <1>11, <4>1, <4>2, <4>3
    <3>4. l \notin {BOTTOM, ARRAY}
      BY <1>9, <1>11, <2>2
    <3> QED
      BY <3>1, <3>2, <3>3, <3>4 DEF Early
  <2> QED
    BY <1>2, <1>3, <2>1, <2>2
<1>16. ASSUME NEW i \in 1 .. K
       PROVE  \/ i < c /\ pending'[i] = pending[i] /\ pending[i][1] = BOTTOM /\ i \in 1 .. N
              \/ i >= c /\ pending'[i] = pending[i + 1] /\ i + 1 \in 1 .. N
  <2>1. i \in 1 .. c - 1 \/ i \in c .. N - 1
    BY <1>2
  <2> QED
    BY <1>1, <1>2, <1>8, <2>1
<1>17. ASSUME NEW i \in 1 .. K, pending'[i][1] = FENCE
       PROVE  i > 1 /\ i < K /\ pending'[i + 1][1] = BOTTOM
  <2>1. i >= c /\ pending[i + 1][1] = FENCE /\ i + 1 \in 1 .. N
    BY <1>16, <1>17, Places
  <2>2. i + 1 < N /\ pending[i + 1 + 1][1] = BOTTOM
    BY <1>1, <1>3, <2>1 DEF DequeInv, PendingOK
  <2>3. i > 1 /\ i < K /\ i + 1 \in 1 .. K /\ ~(i + 1 < c)
    BY <1>2, <2>1, <2>2
  <2> QED
    BY <1>16, <2>2, <2>3
<1>18. WeakOK'
  <2> SUFFICES /\ MaxPush <= ArraySize(mem'[ARRAY])
               /\ \A i \in 1 .. K :
                    \/ pending'[i][1] \in {BOTTOM, FENCE}
                    \/ /\ i < K /\ pending'[i + 1][1] = FENCE
                       /\ \E w \in 0 .. ArraySize(mem'[ARRAY]) - 1 :
                            /\ pending'[i][1] = Entry(mem'[ARRAY], w)
                            /\ \A n \in 0 .. i - 1 : HeldAfter(mem', pending', n, BOTTOM) <= w
    BY <1>3 DEF WeakOK, Held
  <2>1. mem'[ARRAY] = A
    BY <1>5, <1>11, Places
  <2>2. ASSUME NEW i \in 1 .. K, pending'[i][1] \notin {BOTTOM, FENCE}
        PROVE  /\ i < K /\ pending'[i + 1][1] = FENCE
               /\ \E w \in 0 .. ArraySize(A) - 1 :
                    /\ pending'[i][1] = Entry(A, w)
                    /\ \A n \in 0 .. i - 1 : HeldAfter(mem', pending', n, BOTTOM) <= w
    <3>1. i >= c /\ pending'[i] = pending[i + 1] /\ i + 1 \in 1 .. N
      BY <1>16, <2>2
    <3>2. /\ i + 1 < N /\ pending[i + 1 + 1][1] = FENCE
          /\ \E w \in 0 .. ArraySize(A) - 1 :
               /\ pending[i + 1][1] = Entry(A, w)
               /\ \A n \in 0 .. (i + 1) - 1 : Held(n, BOTTOM) <= w
      BY <1>7, <2>2, <3>1
    <3>7. (i + 1) - 1 = i
      OBVIOUS
    <3>3. PICK w \in 0 .. ArraySize(A) - 1 :
             /\ pending[i + 1][1] = Entry(A, w)
             /\ \A n \in 0 .. i : Held(n, BOTTOM) <= w
      BY <3>2, <3>7
    <3>4. i < K /\ i + 1 \in 1 .. K /\ ~(i + 1 < c)
      BY <1>2, <3>1, <3>2
    <3>5. pending'[i + 1][1] = FENCE
      BY <1>16, <3>2, <3>4
    <3>6. ASSUME NEW n \in 0 .. i - 1 PROVE HeldAfter(mem', pending', n, BOTTOM) <= w
      <4>1. n \in 0 .. K /\ n \in 0 .. i /\ n + 1 \in 0 .. i
            /\ (n < c \/ n >= c)
        BY <1>2, <3>4
      <4>2. HeldAfter(mem', pending', n, BOTTOM) = Held(n, BOTTOM)
            \/ HeldAfter(mem', pending', n, BOTTOM) = Held(n + 1, BOTTOM)
        BY <1>9, <1>12, <4>1, Places
      <4> QED
        BY <3>3, <4>1, <4>2
    <3> QED
      BY <3>1, <3>3, <3>4, <3>5, <3>6
  <2> QED
    BY <1>6, <2>1, <2>2
<1>19. ASSUME NEW i \in DOMAIN pending'
       PROVE  /\ \E k \in DOMAIN pending : pending'[i] = pending[k]
              /\ pending'[i][1] = FENCE => i > 1 /\ i < Len(pending') /\ pending'[i + 1][1] = BOTTOM
  BY <1>3, <1>16, <1>17
<1>20. (\A n \in Views' : up[n] \in Views) /\ (\A m, n \in Views' : m <= n => up[m] <= up[n])
  BY <1>13
<1>21. \A n \in Views' : \A l \in Locations :
          HeldAfter(mem', pending', n, l) = Held(up[n], l) \/ Early(up[n], l)
  BY <1>3, <1>15
<1>22. /\ \A i \in DOMAIN pending' : \E k \in DOMAIN pending : pending'[i] = pending[k]
       /\ \A i \in DOMAIN pending' : pending'[i][1] = FENCE =>
              i > 1 /\ i < Len(pending') /\ pending'[i + 1][1] = BOTTOM
  BY <1>19
<1> QED
  BY <1>5, <1>14, <1>18, <1>20, <1>21, <1>22, Reached

\* What removing an element leaves.
LEMMA RemoveAtProperties ==
    ASSUME NEW S, NEW s \in Seq(S), NEW n \in 1 .. Len(s)
    PROVE  /\ RemoveAt(s, n) \in Seq(S) /\ Len(RemoveAt(s, n)) = Len(s) - 1
           /\ \A i \in 1 .. n - 1 : RemoveAt(s, n)[i] = s[i]
           /\ \A i \in n .. Len(s) - 1 : RemoveAt(s, n)[i] = s[i + 1]
<1> DEFINE u == SubSeq(s, 1, n - 1)
           w == SubSeq(s, n + 1, Len(s))
<1>1. PICK N \in Nat : N = Len(s) /\ n \in Nat /\ n >= 1 /\ n <= N
  BY LenProperties
<1>2. \A i \in 1 .. N : s[i] \in S
  BY <1>1, ElementOfSeq
<1>3. u \in Seq(S) /\ Len(u) = n - 1 /\ \A i \in 1 .. n - 1 : u[i] = s[i]
  <2>1. \A i \in 1 .. n - 1 : s[i] \in S
    BY <1>1, <1>2
  <2>2. /\ u \in Seq(S) /\ Len(u) = IF 1 <= n - 1 THEN n - 1 - 1 + 1 ELSE 0
        /\ \A i \in 1 .. n - 1 - 1 + 1 : u[i] = s[1 + i - 1]
    BY <1>1, <2>1, SubSeqProperties
  <2> HIDE DEF u
  <2> QED
    BY <1>1, <2>2
<1>4. w \in Seq(S) /\ Len(w) = N - n /\ \A i \in 1 .. N - n : w[i] = s[n + i]
  <2>1. \A i \in n + 1 .. N : s[i] \in S
    BY <1>1, <1>2
  <2>2. /\ SubSeq(s, n + 1, N) \in Seq(S)
        /\ Len(SubSeq(s, n + 1, N)) = IF n + 1 <= N THEN N - (n + 1) + 1 ELSE 0
        /\ \A i \in 1 .. N - (n + 1) + 1 : SubSeq(s, n + 1, N)[i] = s[n + 1 + i - 1]
    BY <1>1, <2>1, SubSeqProperties
  <2>3. w = SubSeq(s, n + 1, N)
    BY <1>1
  <2> HIDE DEF w
  <2> QED
    BY <1>1, <2>2, <2>3
<1>5. RemoveAt(s, n) = u \o w
  BY DEF RemoveAt
<1> HIDE DEF u, w
<1>6. PICK U \in Nat, W \in Nat : U = Len(u) /\ U = n - 1 /\ W = Len(w) /\ W = N - n
  <2>1. n - 1 \in Nat /\ N - n \in Nat
    BY <1>1
  <2> QED
    BY <1>3, <1>4, <2>1
<1>7. /\ u \o w \in Seq(S) /\ Len(u \o w) = U + W
      /\ \A i \in 1 .. U + W : (u \o w)[i] = IF i <= U THEN u[i] ELSE w[i - U]
  <2>1. /\ u \o w \in Seq(S) /\ Len(u \o w) = Len(u) + Len(w)
        /\ \A i \in 1 .. Len(u) + Len(w) : (u \o w)[i] = IF i <= Len(u) THEN u[i] ELSE w[i - Len(u)]
    BY <1>3, <1>4, ConcatProperties
  <2> QED
    BY <1>6, <2>1
<1>8. ASSUME NEW i \in 1 .. n - 1 PROVE RemoveAt(s, n)[i] = s[i]
  <2>1. i \in 1 .. U + W /\ i <= U
    BY <1>1, <1>6
  <2> QED
    BY <1>3, <1>5, <1>7, <2>1
<1>9. ASSUME NEW i \in n .. N - 1 PROVE RemoveAt(s, n)[i] = s[i + 1]
  <2>1. i \in 1 .. U + W /\ ~(i <= U) /\ i - U \in 1 .. N - n /\ n + (i - U) = i + 1
    BY <1>1, <1>6
  <2> QED
    BY <1>4, <1>5, <1>7, <2>1
<1>10. U + W = N - 1
  BY <1>1, <1>6
<1>11. RemoveAt(s, n) \in Seq(S) /\ Len(RemoveAt(s, n)) = N - 1
  BY <1>5, <1>7, <1>10
<1> QED
  BY <1>1, <1>8, <1>9, <1>11

LEMMA CommitKeeps ==
    ASSUME DequeInv, Commit, UNCHANGED order PROVE DequeInv'
<1> DEFINE S == (Locations \cup {FENCE}) \X Nat
<1>1. PICK n \in DOMAIN pending :
         /\ MayCommit(n) /\ mem' = [mem EXCEPT ![pending[n][1]] = pending[n][2]]
         /\ pending' = IF RemoveAt(pending, n) # <<>> /\ Head(RemoveAt(pending, n))[1] = FENCE
                         THEN Tail(RemoveAt(pending, n)) ELSE RemoveAt(pending, n)
         /\ UNCHANGED <<top, pc, loc, pushed, items, result>>
  BY DEF Commit
<1> DEFINE rest == RemoveAt(pending, n)
<1>2. PICK N \in Nat : N = Len(pending)
  BY Facts
<1>3. pending \in Seq(S) /\ n \in 1 .. N
  BY <1>2, LenProperties DEF DequeInv, TypeOK
<1>4. /\ rest \in Seq(S) /\ Len(rest) = N - 1
      /\ \A i \in 1 .. n - 1 : rest[i] = pending[i]
      /\ \A i \in n .. N - 1 : rest[i] = pending[i + 1]
  BY <1>2, <1>3, RemoveAtProperties
<1>5. pending[n][1] # FENCE
  BY <1>1 DEF MayCommit
<1>6. 1 \in 1 .. N /\ pending # <<>> /\ pending[1][1] # FENCE
  <2>1. 1 \in DOMAIN pending
    BY <1>2, <1>3, LenProperties
  <2> QED
    <3>1. pending[1][1] = FENCE => 1 > 1
      BY <2>1 DEF DequeInv, PendingOK
    <3>2. pending # <<>>
      BY <1>2, <1>3, EmptySeq
    <3> QED
      BY <1>3, <3>1, <3>2
<1>7. pending' = IF rest # <<>> /\ Head(rest)[1] = FENCE THEN Tail(rest) ELSE rest
  BY <1>1
<1> HIDE DEF rest, S
<1>8. PICK R \in Nat : R = N - 1
  <2>1. N - 1 \in Nat
    BY <1>3
  <2> QED
    BY <2>1
<1>9. (rest # <<>> <=> R >= 1) /\ (rest # <<>> => Head(rest) = rest[1])
  <2>1. rest = <<>> <=> R = 0
    BY <1>4, <1>8, EmptySeq
  <2>2. rest # <<>> => Head(rest) = rest[1]
    BY <1>4, HeadTailProperties
  <2> QED
    BY <1>8, <2>1, <2>2
<1>10. CASE n = 1
  <2>1. \A i \in 1 .. N - 1 : rest[i] = pending[i + 1]
    BY <1>4, <1>10
  <2>2. CASE R >= 1 /\ rest[1][1] = FENCE
    <3>1. pending' = Tail(rest)
      BY <1>7, <1>9, <2>2
    <3>2. /\ Tail(rest) \in Seq(S) /\ Len(Tail(rest)) = N - 1 - 1
          /\ \A i \in 1 .. Len(Tail(rest)) : Tail(rest)[i] = rest[i + 1]
      BY <1>4, <1>9, <2>2, HeadTailProperties
    <3>3. N >= 2 /\ pending[2][1] = FENCE
      <4>1. 1 \in 1 .. N - 1 /\ 1 + 1 = 2
        BY <1>8, <2>2
      <4> QED
        BY <1>8, <2>1, <2>2, <4>1
    <3>4. Len(pending') = N - 2 /\ N - 1 - 1 = N - 2
      BY <3>1, <3>2
    <3>5. ASSUME NEW i \in 1 .. N - 2 PROVE pending'[i] = pending[i + 2]
      <4>1. i + 1 \in 1 .. N - 1 /\ i + 1 + 1 = i + 2 /\ i \in 1 .. Len(Tail(rest))
        BY <3>2, <3>4
      <4> QED
        BY <2>1, <3>1, <3>2, <4>1
    <3>6. 2 < N => pending[2 + 1][1] # FENCE
      <4>1. 2 \in DOMAIN pending
        BY <1>2, <1>3, <3>3, LenProperties
      <4>2. pending[2 + 1][1] = BOTTOM
        BY <3>3, <4>1 DEF DequeInv, PendingOK
      <4> QED
        BY <4>2, Places
    <3> QED
      <4>1. PICK d \in 1 .. 2 : d = 2
        OBVIOUS
      <4>2. /\ d <= Len(pending) /\ (d = 2 => pending[2][1] = FENCE)
            /\ d < Len(pending) => pending[d + 1][1] # FENCE
            /\ Len(pending') = Len(pending) - d
            /\ \A i \in 1 .. Len(pending) - d : pending'[i] = pending[i + d]
        BY <1>2, <3>3, <3>4, <3>5, <3>6, <4>1
      <4>3. pending' \in Seq((Locations \cup {FENCE}) \X Nat)
        BY <3>1, <3>2 DEF S
      <4>4. mem' = [mem EXCEPT ![pending[1][1]] = pending[1][2]]
        BY <1>1, <1>10
      <4> QED
        BY <1>1, <1>6, <4>2, <4>3, <4>4, CommitFirst
  <2>3. CASE ~(R >= 1 /\ rest[1][1] = FENCE)
    <3>1. pending' = rest
      BY <1>7, <1>9, <2>3
    <3>2. 1 < N => pending[1 + 1][1] # FENCE
      <4>1. 1 < N => 1 \in 1 .. N - 1 /\ R >= 1
        BY <1>8
      <4> QED
        BY <2>1, <2>3, <4>1
    <3> QED
      <4>1. PICK d \in 1 .. 2 : d = 1
        OBVIOUS
      <4>2. /\ d <= Len(pending) /\ (d = 2 => pending[2][1] = FENCE)
            /\ d < Len(pending) => pending[d + 1][1] # FENCE
            /\ Len(pending') = Len(pending) - d
            /\ \A i \in 1 .. Len(pending) - d : pending'[i] = pending[i + d]
        BY <1>2, <1>3, <1>4, <2>1, <3>1, <3>2, <4>1
      <4>3. pending' \in Seq((Locations \cup {FENCE}) \X Nat)
        BY <1>4, <3>1 DEF S
      <4>4. mem' = [mem EXCEPT ![pending[1][1]] = pending[1][2]]
        BY <1>1, <1>10
      <4> QED
        BY <1>1, <1>6, <4>2, <4>3, <4>4, CommitFirst
  <2> QED
    BY <2>2, <2>3
<1>11. CASE n # 1
  <2>1. n >= 2 /\ n \in Nat /\ 1 \in 1 .. n - 1
    BY <1>3, <1>11
  <2>2. order = "PSO" /\ \A m \in 1 .. n - 1 : pending[m][1] \notin {FENCE, pending[n][1]}
    <3>1. order \in {"TSO", "PSO"}
      BY DEF DequeInv, TypeOK
    <3> QED
      BY <1>1, <1>6, <2>1, <3>1 DEF MayCommit
  <2>3. rest[1] = pending[1]
    BY <1>4, <2>1
  <2>4. pending' = rest
    BY <1>6, <1>7, <1>9, <2>3
  <2> QED
    <3>1. /\ n <= Len(pending) /\ Len(pending') = Len(pending) - 1
          /\ \A i \in 1 .. n - 1 : pending'[i] = pending[i]
          /\ \A i \in n .. Len(pending) - 1 : pending'[i] = pending[i + 1]
      BY <1>2, <1>3, <1>4, <2>4
    <3>2. pending' \in Seq((Locations \cup {FENCE}) \X Nat)
      BY <1>4, <2>4 DEF S
    <3> QED
      BY <1>1, <1>5, <2>1, <2>2, <3>1, <3>2, CommitLater
<1> QED
  BY <1>10, <1>11

-----------------------------------------------------------------------------
(* The invariant holds *)

LEMMA InitHolds ==
    ASSUME OnlyTSOGrows, Init PROVE DequeInv
<1>1. PICK machine \in Machines :
         order = machine[1] /\ mem = [l \in Locations |-> IF l = ARRAY THEN machine[2] ELSE 0]
  BY DEF Init
<1>2. machine[1] \in {"TSO", "PSO"} /\ machine[2] \in Arrays
  BY DequeAssumption
<1>3. machine[2] \in Nat /\ ArraySize(machine[2]) \in Nat \ {0} /\ MaxPush \in Nat
  BY <1>2, ArraySizes, DequeAssumption
<1>4. /\ pending = <<>> /\ Len(pending) = 0 /\ DOMAIN pending = {} /\ Views = {0}
      /\ items = <<>> /\ Len(items) = 0 /\ DOMAIN items = {}
  BY EmptySeq DEF Init, Views
<1>5. mem \in [Locations -> Nat] /\ mem[ARRAY] = machine[2] /\ mem[BOTTOM] = 0
  BY <1>1, <1>3, Places
<1>6. \A l : Held(0, l) = mem[l] /\ Own(l) = mem[l]
  BY <1>4 DEF Held, Own, HeldAfter
<1>7. /\ top = 0 /\ pushed = 0 /\ \A p \in Procs : pc[p] = "idle" /\ result[p] = EMPTY
      /\ Worker \in Procs /\ Thieves \subseteq Procs
  BY DEF Init, Procs
<1>8. TypeOK
  <2>1. NoLocals \in Locals /\ loc \in [Procs -> Locals]
    BY DEF Init, NoLocals, Locals
  <2>2. pc \in [Procs -> WorkerPlaces \cup ThiefPlaces]
    BY DEF Init, WorkerPlaces
  <2>3. result \in [Procs -> {EMPTY, ABORT, BUSY} \cup (Nat \ {0})]
    BY DEF Init
  <2>4. pending \in Seq((Locations \cup {FENCE}) \X Nat) /\ items \in Seq(Nat)
    BY <1>4, EmptySeq
  <2>5. pc[Worker] \in WorkerPlaces /\ \A p \in Thieves : pc[p] \in ThiefPlaces
    BY <1>7 DEF WorkerPlaces, ThiefPlaces
  <2> QED
    BY <1>1, <1>2, <1>3, <1>5, <1>7, <2>1, <2>2, <2>3, <2>4, <2>5 DEF TypeOK
<1>9. Bottom = 0 /\ Own(ARRAY) = machine[2]
  BY <1>5, <1>6, <1>7 DEF Bottom, Taking
<1>10. SizesOK
  BY <1>3, <1>4, <1>7, <1>9 DEF SizesOK
<1>11. ItemsOK
  BY <1>4 DEF ItemsOK
<1>12. PendingOK
  BY <1>2, <1>3, <1>4, <1>5, <1>6, <1>9 DEF PendingOK
<1>13. WeakOK
  BY <1>1, <1>4, <1>5 DEF WeakOK, OnlyTSOGrows
<1>14. ContentsOK /\ VisibleOK
  <2>1. \A j : j \notin top .. Bottom - 1
    BY <1>7, <1>9
  <2> QED
    BY <2>1 DEF ContentsOK, VisibleOK
<1>15. WorkerOK /\ ResultOK /\ \A p \in Thieves : ThiefOK(p)
  BY <1>7, NotBusy DEF WorkerOK, ResultOK, ThiefOK, Taking
<1> QED
  BY <1>8, <1>10, <1>11, <1>12, <1>13, <1>14, <1>15 DEF DequeInv

LEMMA StutterKeeps ==
    ASSUME DequeInv, UNCHANGED vars PROVE DequeInv'
<1>1. UNCHANGED <<order, top, mem, pending, pc, loc, pushed, items, result>>
  BY DEF vars
<1>2. Bottom' = Bottom
  BY <1>1 DEF Bottom, Own
<1>3. /\ SizesOK' /\ ItemsOK' /\ PendingOK' /\ WeakOK' /\ ContentsOK' /\ VisibleOK'
      /\ Own(ARRAY)' = Own(ARRAY) /\ Own(BOTTOM)' = Own(BOTTOM)
      /\ \A p \in Thieves : ThiefOK(p)'
  BY <1>1, <1>2, Quiet
<1>4. TypeOK' /\ ResultOK'
  BY <1>1 DEF DequeInv, TypeOK, ResultOK
<1>5. WorkerOK'
  BY <1>1, <1>3 DEF DequeInv, WorkerOK
<1> QED
  BY <1>3, <1>4, <1>5 DEF DequeInv

LEMMA NextKeeps ==
    ASSUME DequeInv, Next PROVE DequeInv'
<1>1. UNCHANGED order
  BY DEF Next
<1>2. CASE Commit
  BY <1>1, <1>2, CommitKeeps
<1>3. CASE WorkerStep
  BY <1>1, <1>3, PushLoadKeeps, ResizeKeeps, PushStoreKeeps, TakeStoreKeeps, TakeTopKeeps,
     TakeCasKeeps DEF WorkerStep
<1>4. ASSUME NEW p \in Thieves, ThiefStep(p) PROVE DequeInv'
  BY <1>1, <1>4, StealTopKeeps, StealBottomKeeps, StealArrayKeeps, StealEntryKeeps, StealCasKeeps
     DEF ThiefStep
<1> QED
  BY <1>2, <1>3, <1>4 DEF Next

\* The invariant of the deque, whatever the order in which its stores reach the
\* thieves: for every number of thieves, of items and of arrays.
THEOREM DequeInvAlways ==
    ASSUME OnlyTSOGrows PROVE Spec => []DequeInv
<1>1. Init => DequeInv
  BY InitHolds
<1>2. DequeInv /\ [Next]_vars => DequeInv'
  BY NextKeeps, StutterKeeps
<1> QED
  BY <1>1, <1>2, PTL DEF Spec

\* Nobody uses an entry that was never initialised (the comment on EMPTY and
\* ABORT, work-steal.c:45).
THEOREM NoUninitialisedEntryAlways ==
    ASSUME OnlyTSOGrows PROVE Spec => []NoUninitialisedEntry
<1>1. DequeInv => NoUninitialisedEntry
  <2>1. EMPTY # Junk /\ ABORT # Junk /\ BUSY # Junk
    BY DequeAssumption DEF Junk
  <2> QED
    BY <2>1 DEF DequeInv, TypeOK, NoUninitialisedEntry, Junk
<1> QED
  BY <1>1, DequeInvAlways, PTL

-----------------------------------------------------------------------------
(* The deque implements AbstractDeque *)

\* What AbstractDeque's items, heads and seen stand for.
Queue == [q \in {"q"} |-> items]
Heads == [q \in {"q"} |-> top]
Seen == [p \in Procs |-> IF p \in Thieves THEN loc[p].t ELSE 0]

\* Only loc[p].t of the thieves is visible.
LEMMA SeenStays ==
    ASSUME \A p \in Thieves : loc'[p].t = loc[p].t PROVE UNCHANGED Seen
BY DEF Seen

LEMMA SeenChanges ==
    ASSUME DequeInv, NEW p \in Thieves, NEW l \in Locals, loc' = [loc EXCEPT ![p] = l]
    PROVE  Seen' = [Seen EXCEPT ![p] = l.t] /\ Seen[p] = loc[p].t /\ p # Worker /\ p \in Procs
<1>1. p # Worker /\ p \in Procs
  BY DequeAssumption DEF Procs
<1>2. \A q \in Procs : loc'[q] = IF q = p THEN l ELSE loc[q]
  BY <1>1 DEF DequeInv, TypeOK
<1>3. Seen' = [q \in Procs |-> IF q \in Thieves THEN loc'[q].t ELSE 0]
  BY DEF Seen
<1>4. [Seen EXCEPT ![p] = l.t] =
         [q \in Procs |-> IF q = p THEN l.t ELSE IF q \in Thieves THEN loc[q].t ELSE 0]
  BY <1>1 DEF Seen
<1> QED
  BY <1>1, <1>2, <1>3, <1>4 DEF Seen

\* The steps of AbstractDeque, in the variables of Deque.
LEMMA RefPush ==
    ASSUME NEW x \in 1 .. MaxPush, items' = Append(items, x), UNCHANGED <<top, result, Seen>>
    PROVE  DequeRef!DequeNext
<1>1. DequeRef!Push("q", x)
  BY DEF DequeRef!Push, Seen
<1> QED
  BY <1>1 DEF DequeRef!DequeNext

LEMMA RefTakeBegin ==
    ASSUME result[Worker] # BUSY, result' = [result EXCEPT ![Worker] = BUSY],
           UNCHANGED <<top, items, Seen>>
    PROVE  DequeRef!DequeNext
<1>1. "q" \in {"q"} /\ DequeRef!Return(Worker, BUSY)
  BY DEF DequeRef!Return
<1> QED
  BY <1>1 DEF DequeRef!DequeNext, Seen

LEMMA RefTakeNone ==
    ASSUME result[Worker] = BUSY, items = <<>>, result' = [result EXCEPT ![Worker] = EMPTY],
           UNCHANGED <<top, items, Seen>>
    PROVE  DequeRef!DequeNext
<1>1. DequeRef!Take(Worker, "q")
  BY DEF DequeRef!Take, DequeRef!Return, Seen
<1> QED
  BY <1>1 DEF DequeRef!DequeNext

LEMMA RefTake ==
    ASSUME result[Worker] = BUSY, items # <<>>, result' = [result EXCEPT ![Worker] = Last(items)],
           items' = Front(items), top' = IF Len(items) = 1 THEN top + 1 ELSE top, UNCHANGED Seen
    PROVE  DequeRef!DequeNext
<1>1. DequeRef!Last(items) = Last(items) /\ DequeRef!Front(items) = Front(items)
  BY DEF DequeRef!Last, DequeRef!Front, Last, Front
<1>2. "q" \in {"q"} /\ [q \in {"q"} |-> items]["q"] = items
  OBVIOUS
<1>3. /\ Queue' = [Queue EXCEPT !["q"] = DequeRef!Front(@)]
      /\ Heads' = [Heads EXCEPT !["q"] = IF Len(items) = 1 THEN @ + 1 ELSE @]
  BY <1>1 DEF Queue, Heads
<1>4. DequeRef!Take(Worker, "q")
  BY <1>1, <1>2, <1>3 DEF DequeRef!Take, DequeRef!Return, Queue, Heads, Seen
<1> QED
  BY <1>2, <1>4 DEF DequeRef!DequeNext

LEMMA RefStealBegin ==
    ASSUME NEW p \in Thieves, p # Worker, p \in Procs, result[p] # BUSY,
           result' = [result EXCEPT ![p] = BUSY],
           Seen' = [Seen EXCEPT ![p] = top], UNCHANGED <<top, items>>
    PROVE  DequeRef!DequeNext
<1>1. DequeRef!StealBegin(p, "q")
  BY DEF DequeRef!StealBegin, DequeRef!Return, Seen
<1> QED
  BY <1>1 DEF DequeRef!DequeNext

LEMMA RefStealEnd ==
    ASSUME NEW p \in Thieves, p # Worker, p \in Procs, result[p] = BUSY,
           Seen' = [Seen EXCEPT ![p] = 0],
           \/ /\ items # <<>> /\ top = Seen[p]
              /\ result' = [result EXCEPT ![p] = Head(items)]
              /\ items' = Tail(items) /\ top' = top + 1
           \/ /\ top # Seen[p]
              /\ result' = [result EXCEPT ![p] = ABORT]
              /\ UNCHANGED <<items, top>>
           \/ /\ result' = [result EXCEPT ![p] = EMPTY]
              /\ UNCHANGED <<items, top>>
    PROVE  DequeRef!DequeNext
<1>1. DequeRef!StealEnd(p, "q")
  BY DEF DequeRef!StealEnd, DequeRef!Return, Seen
<1> QED
  BY <1>1 DEF DequeRef!DequeNext

LEMMA RefStutter ==
    ASSUME UNCHANGED <<items, top, result, Seen>> PROVE UNCHANGED DequeRef!dequeVars
BY DEF DequeRef!dequeVars, Seen

LEMMA TakeTopRefines ==
    ASSUME DequeInv, TakeTop, UNCHANGED order
    PROVE  DequeRef!DequeNext \/ UNCHANGED DequeRef!dequeVars
<1>1. /\ pc[Worker] = "take_top" /\ pc[Worker] \in Taking /\ Worker \in Procs
      /\ UNCHANGED <<top, mem, pushed>>
  BY DEF TakeTop, Taking, Procs
<1>2. result[Worker] = BUSY
  BY <1>1 DEF DequeInv, ResultOK
<1>3. ASSUME NEW l, loc' = [loc EXCEPT ![Worker] = l] PROVE UNCHANGED Seen
  <2>1. \A p \in Thieves : loc'[p] = loc[p]
    BY <1>3, DequeAssumption DEF DequeInv, TypeOK, Procs
  <2> QED
    BY <2>1, SeenStays
<1>4. CASE top < loc[Worker].b /\ Finish(Worker, Own(Entry(loc[Worker].a, loc[Worker].b)))
           /\ TakeOut(Own(Entry(loc[Worker].a, loc[Worker].b))) /\ UNCHANGED pending
  <2>1. items' = SubSeq(items, 1, Len(items) - 1)
    BY <1>4, TakeLastKeeps
  <2>2. top + Len(items) = loc[Worker].b + 1 /\ loc[Worker].b \in Nat /\ Bottom = loc[Worker].b + 1
        /\ loc[Worker].b = Own(BOTTOM) /\ loc[Worker].a = Own(ARRAY)
    BY <1>1, OwnerTaking
  <2>3. Len(items) # 1 /\ items # <<>>
    <3>1. PICK n \in Nat : n = Len(items)
      BY Facts
    <3>2. PICK b \in Nat : b = loc[Worker].b
      BY <2>2
    <3>3. top \in Nat /\ top < b /\ top + n = b + 1
      BY <1>4, <2>2, <3>1, <3>2, Facts
    <3>4. n # 1 /\ n # 0
      BY <3>3
    <3> QED
      BY <3>1, <3>4, EmptySeq
  <2>4. Own(Entry(loc[Worker].a, loc[Worker].b)) = items[Len(items)]
    <3>1. PICK n \in Nat : n = Len(items)
      BY Facts
    <3>2. PICK b \in Nat : b = loc[Worker].b
      BY <2>2
    <3>3. top \in Nat /\ top < b /\ top + n = b + 1 /\ Bottom = b + 1
      BY <1>4, <2>2, <3>1, <3>2, Facts
    <3>4. b \in top .. Bottom - 1 /\ b - top + 1 = n
      BY <3>3
    <3> QED
      BY <2>2, <3>1, <3>2, <3>4 DEF DequeInv, ContentsOK, ItemAt
  <2>5. result' = [result EXCEPT ![Worker] = Last(items)] /\ items' = Front(items)
    BY <1>4, <2>1, <2>4 DEF Finish, Last, Front
  <2>6. UNCHANGED Seen
    BY <1>3, <1>4 DEF Finish
  <2> QED
    BY <1>1, <1>2, <2>3, <2>5, <2>6, RefTake
<1>5. CASE loc' = [loc EXCEPT ![Worker].t = top,
                              ![Worker].x = Own(Entry(loc[Worker].a, loc[Worker].b))]
           /\ UNCHANGED <<pending, items, result>>
  <2>1. UNCHANGED Seen
    <3>1. \A p \in Thieves : loc'[p] = loc[p]
      BY <1>5, DequeAssumption DEF DequeInv, TypeOK, Procs
    <3> QED
      BY <3>1, SeenStays
  <2> QED
    BY <1>1, <1>5, <2>1, RefStutter
<1>6. CASE top > loc[Worker].b /\ Finish(Worker, EMPTY) /\ UNCHANGED items
           /\ pending' = Append(pending, Store(BOTTOM, Plus1(loc[Worker].b)))
  <2>1. loc[Worker].b < top
    BY <1>1, <1>6, OwnerTaking, Facts
  <2>2. items = <<>>
    BY <1>1, <1>6, <2>1, TakeNoneKeeps
  <2>3. UNCHANGED Seen
    BY <1>3, <1>6 DEF Finish
  <2> QED
    BY <1>1, <1>2, <1>6, <2>2, <2>3, RefTakeNone DEF Finish
<1> QED
  BY <1>4, <1>5, <1>6 DEF TakeTop

LEMMA TakeCasRefines ==
    ASSUME DequeInv, TakeCas, UNCHANGED order PROVE DequeRef!DequeNext
<1>1. pc[Worker] = "take_cas" /\ pc[Worker] \in Taking /\ Worker \in Procs
  BY DEF TakeCas, Taking, Procs
<1>2. result[Worker] = BUSY
  BY <1>1 DEF DequeInv, ResultOK
<1>3. items' = <<>>
  BY TakeCasKeeps
<1>4. loc' = [loc EXCEPT ![Worker] = NoLocals]
  BY DEF TakeCas, CasTop, Finish
<1>5. UNCHANGED Seen
  <2>1. \A p \in Thieves : loc'[p] = loc[p]
    BY <1>4, DequeAssumption DEF DequeInv, TypeOK, Procs
  <2> QED
    BY <2>1, SeenStays
<1>6. CASE top # loc[Worker].t /\ Finish(Worker, EMPTY) /\ UNCHANGED <<top, items>>
  BY <1>2, <1>3, <1>5, <1>6, RefTakeNone DEF Finish
<1>7. CASE top = loc[Worker].t /\ top' = Plus1(top) /\ TakeOut(loc[Worker].x)
           /\ Finish(Worker, loc[Worker].x)
  <2>1. /\ loc[Worker].t = loc[Worker].b /\ (items # <<>> => loc[Worker].x = items[1])
        /\ top + Len(items) = loc[Worker].b + 1 /\ loc[Worker].b \in Nat
        /\ Plus1(loc[Worker].b) = loc[Worker].b + 1
    BY <1>1, OwnerTaking DEF DequeInv, WorkerOK
  <2>2. Len(items) = 1
    <3>1. PICK n \in Nat : n = Len(items)
      BY Facts
    <3>2. n = 1
      BY <1>7, <2>1, <3>1
    <3> QED
      BY <3>1, <3>2
  <2>3. items # <<>> /\ loc[Worker].x = items[1]
    <3>1. items # <<>>
      BY <2>2, EmptySeq
    <3> QED
      BY <2>1, <3>1
  <2>4. loc[Worker].x = Last(items)
    BY <2>2, <2>3 DEF Last
  <2>5. Front(items) = <<>>
    <3>1. 2 - 1 = 1 /\ 1 - 1 = 0
      OBVIOUS
    <3> QED
      BY <2>2, SubSeqEmpty DEF Front
  <2>6. top' = top + 1
    BY <1>7, <2>1
  <2> QED
    BY <1>2, <1>3, <1>5, <1>7, <2>2, <2>3, <2>4, <2>5, <2>6, RefTake DEF Finish
<1> QED
  BY <1>6, <1>7 DEF TakeCas, CasTop

LEMMA WorkerRefines ==
    ASSUME DequeInv, WorkerStep, UNCHANGED order
    PROVE  DequeRef!DequeNext \/ UNCHANGED DequeRef!dequeVars
<1>1. Worker \in Procs /\ \A p \in Thieves : p # Worker /\ p \in Procs
  BY DequeAssumption DEF Procs
<1>2. CASE PushLoad
  <2>1. \A p \in Thieves : loc'[p] = loc[p]
    BY <1>1, <1>2 DEF PushLoad, DequeInv, TypeOK
  <2> QED
    BY <1>2, <2>1, SeenStays, RefStutter DEF PushLoad
<1>3. CASE Resize
  <2>1. \A p \in Thieves : loc'[p] = loc[p]
    BY <1>1, <1>3 DEF Resize, DequeInv, TypeOK
  <2> QED
    BY <1>3, <2>1, SeenStays, RefStutter DEF Resize
<1>4. CASE PushStore
  <2>1. pc[Worker] = "push_store" /\ items' = Append(items, pushed + 1) /\ UNCHANGED <<top, result>>
    BY <1>4 DEF PushStore
  <2>2. pushed + 1 \in 1 .. MaxPush
    BY <2>1, Facts DEF DequeInv, WorkerOK
  <2>3. \A p \in Thieves : loc'[p] = loc[p]
    BY <1>1, <1>4 DEF PushStore, DequeInv, TypeOK
  <2> QED
    BY <2>1, <2>2, <2>3, SeenStays, RefPush
<1>5. CASE TakeStore
  <2>1. pc[Worker] = "idle" /\ result' = [result EXCEPT ![Worker] = BUSY] /\ UNCHANGED <<top, items>>
    BY <1>5 DEF TakeStore
  <2>2. result[Worker] # BUSY
    BY <1>1, <2>1 DEF DequeInv, ResultOK
  <2>3. \A p \in Thieves : loc'[p] = loc[p]
    BY <1>1, <1>5 DEF TakeStore, DequeInv, TypeOK
  <2> QED
    BY <2>1, <2>2, <2>3, SeenStays, RefTakeBegin
<1> QED
  BY <1>2, <1>3, <1>4, <1>5, TakeTopRefines, TakeCasRefines DEF WorkerStep

LEMMA ThiefRefines ==
    ASSUME DequeInv, NEW p \in Thieves, ThiefStep(p)
    PROVE  DequeRef!DequeNext \/ UNCHANGED DequeRef!dequeVars
<1>1. p # Worker /\ p \in Procs /\ loc[p] \in Locals /\ top \in Nat
  BY DequeAssumption DEF Procs, DequeInv, TypeOK
<1>2. NoLocals \in Locals /\ NoLocals.t = 0
  BY DEF NoLocals, Locals
<1>3. CASE StealTop(p)
  <2>1. pc[p] = "idle" /\ result' = [result EXCEPT ![p] = BUSY] /\ UNCHANGED <<top, items>>
    BY <1>3 DEF StealTop
  <2>2. PICK l \in Locals : loc' = [loc EXCEPT ![p] = l] /\ l.t = top
    <3>1. [loc[p] EXCEPT !.t = top] \in Locals /\ [loc[p] EXCEPT !.t = top].t = top
      BY <1>1 DEF Locals
    <3>2. loc' = [loc EXCEPT ![p] = [loc[p] EXCEPT !.t = top]]
      BY <1>3 DEF StealTop
    <3> QED
      BY <3>1, <3>2
  <2>3. Seen' = [Seen EXCEPT ![p] = top]
    BY <2>1, <2>2, SeenChanges
  <2>4. result[p] # BUSY
    BY <1>1, <2>1 DEF DequeInv, ResultOK
  <2> QED
    BY <1>1, <2>1, <2>3, <2>4, RefStealBegin
<1>4. ASSUME UNCHANGED <<items, top, result>>, NEW l \in Locals, loc' = [loc EXCEPT ![p] = l],
             l.t = loc[p].t
      PROVE  UNCHANGED DequeRef!dequeVars
  <2>1. Seen' = [Seen EXCEPT ![p] = Seen[p]]
    BY <1>4, SeenChanges
  <2>2. UNCHANGED Seen
    BY <2>1 DEF Seen
  <2> QED
    BY <1>4, <2>2, RefStutter
<1>5. ASSUME NEW r, Finish(p, r) PROVE Seen' = [Seen EXCEPT ![p] = 0] /\ Seen[p] = loc[p].t
  BY <1>2, <1>5, SeenChanges DEF Finish
<1>6. CASE StealBottom(p)
  <2>1. CASE UNCHANGED <<loc, result>>
    <3>1. UNCHANGED Seen
      BY <2>1, SeenStays
    <3> QED
      BY <1>6, <2>1, <3>1, RefStutter DEF StealBottom
  <2>2. CASE Finish(p, EMPTY)
    <3>1. result[p] = BUSY /\ UNCHANGED <<items, top>>
      BY <1>1, <1>6 DEF StealBottom, DequeInv, ResultOK
    <3> QED
      BY <1>1, <1>5, <2>2, <3>1, RefStealEnd DEF Finish
  <2> QED
    BY <1>6, <2>1, <2>2 DEF StealBottom
<1>7. CASE StealArray(p)
  <2>1. mem[ARRAY] \in Nat
    BY Places DEF DequeInv, TypeOK
  <2>2. [loc[p] EXCEPT !.a = mem[ARRAY]] \in Locals /\ [loc[p] EXCEPT !.a = mem[ARRAY]].t = loc[p].t
    BY <1>1, <2>1 DEF Locals
  <2>3. loc' = [loc EXCEPT ![p] = [loc[p] EXCEPT !.a = mem[ARRAY]]] /\ UNCHANGED <<items, top, result>>
    BY <1>7 DEF StealArray
  <2> QED
    BY <1>4, <2>2, <2>3
<1>8. CASE StealEntry(p)
  <2>1. \A q \in Thieves : loc'[q].t = loc[q].t
    BY <1>1, <1>8 DEF StealEntry, DequeInv, TypeOK, Locals, Procs
  <2> QED
    BY <1>8, <2>1, SeenStays, RefStutter DEF StealEntry
<1>9. CASE StealCas(p)
  <2>1. result[p] = BUSY /\ pc[p] = "steal_cas"
    BY <1>1, <1>9 DEF StealCas, DequeInv, ResultOK
  <2>2. CASE top # loc[p].t /\ Finish(p, ABORT) /\ UNCHANGED <<top, items>>
    BY <1>1, <1>5, <2>1, <2>2, RefStealEnd DEF Finish
  <2>3. CASE top = loc[p].t /\ top' = Plus1(top) /\ TakeOut(loc[p].x) /\ Finish(p, loc[p].x)
    <3>1. items # <<>> /\ loc[p].x = items[1]
      BY <2>1, <2>3 DEF DequeInv, ThiefOK
    <3>2. items' = Tail(items) /\ Len(items) >= 1
      BY <2>3, <3>1, TakeOutFirst, AfterFirst
    <3>3. top' = top + 1
      <4>1. top + 1 <= MaxPush
        BY <3>2, Facts DEF DequeInv, SizesOK
      <4> QED
        BY <1>1, <2>3, <4>1, NoOverflow
    <3>4. Head(items) = items[1]
      BY <3>1 DEF DequeInv, TypeOK
    <3> QED
      BY <1>1, <1>5, <2>1, <2>3, <3>1, <3>2, <3>3, <3>4, RefStealEnd DEF Finish
  <2> QED
    BY <1>9, <2>2, <2>3 DEF StealCas, CasTop
<1> QED
  BY <1>3, <1>6, <1>7, <1>8, <1>9 DEF ThiefStep

LEMMA NextRefines ==
    ASSUME DequeInv, [Next]_vars PROVE DequeRef!DequeNext \/ UNCHANGED DequeRef!dequeVars
<1>1. CASE Next
  <2>1. CASE Commit
    <3>1. UNCHANGED Seen
      BY <2>1, SeenStays DEF Commit
    <3> QED
      BY <2>1, <3>1, RefStutter DEF Commit
  <2> QED
    BY <1>1, <2>1, WorkerRefines, ThiefRefines DEF Next
<1>2. CASE UNCHANGED vars
  <2>1. UNCHANGED <<items, top, result, loc>>
    BY <1>2 DEF vars
  <2>2. UNCHANGED Seen
    BY <2>1, SeenStays
  <2> QED
    BY <2>1, <2>2, RefStutter
<1> QED
  BY <1>1, <1>2

LEMMA InitRefines ==
    ASSUME Init PROVE DequeRef!DequeInit
<1>1. Seen = [p \in Procs |-> 0]
  BY DEF Init, Seen, NoLocals, Procs
<1> QED
  BY <1>1 DEF Init, DequeRef!DequeInit, Seen

\* The deque implements the abstract one: every item leaves it at most once and
\* at the right end, take returns EMPTY only when nothing is left, and steal
\* ABORT only when somebody has taken the item it saw (push, take and steal of
\* work-steal.c, line 103 to 222).
THEOREM DequeImplements ==
    ASSUME OnlyTSOGrows PROVE Spec => ImplementsDeque
<1>1. DequeInv /\ [Next]_vars => [DequeRef!DequeNext]_(DequeRef!dequeVars)
  BY NextRefines
<1> QED
  BY <1>1, InitRefines, DequeInvAlways, PTL DEF Spec, ImplementsDeque, DequeRef!DequeSpec
=============================================================================
