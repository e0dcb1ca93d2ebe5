------------------------------- MODULE Qsort -------------------------------
(***************************************************************************)
(* qsort_algo of qsort_mt.c: what one pass does to its piece of the array, *)
(* Bentley and McIlroy's partition into less, equal and greater.  Pointers *)
(* are positions of the sequence arr, so the element size is one.          *)
(***************************************************************************)
EXTENDS Integers, Sequences, FiniteSets, SequencesExt

CONSTANTS
    SMALL,      \* 7 in the code: shorter pieces are sorted by insertion
    NINTHER,    \* 40 in the code: longer ones have a pivot of nine elements
    W           \* bits of ELEM_T, 32 in the code

ASSUME QsortAssumption ==
    /\ SMALL \in Nat /\ 2 <= SMALL
    /\ NINTHER \in Nat /\ SMALL <= NINTHER
    /\ W \in Nat \ {0}
    /\ 2 ^ (W - 1) \in Nat \ {0} /\ 2 ^ W = 2 * 2 ^ (W - 1)

\* main fills the array with rand(), which is at most the greatest int.
Elements == 0 .. 2 ^ (W - 1) - 1

\* The difference modulo 2^W, read as a signed number.
num_compare(x, y) ==
    LET d == (x - y) % 2 ^ W
    IN  IF d < 2 ^ (W - 1) THEN d ELSE d - 2 ^ W

\* Mutant of CMP: the result is kept in a variable without a sign.
CMPUnsigned(arr, i, j) == num_compare(arr[i], arr[j]) % 2 ^ W

CMP(arr, i, j) == num_compare(arr[i], arr[j])

\* The elements of s in order: k is the place of an element v when fewer than k
\* elements are less than v and at least k are not greater.
SortedBy(s, Less(_, _)) ==
    [k \in DOMAIN s |->
        CHOOSE v \in {s[j] : j \in DOMAIN s} :
            /\ Cardinality({j \in DOMAIN s : Less(s[j], v)}) < k
            /\ Cardinality({j \in DOMAIN s : ~Less(v, s[j])}) >= k]

swap(arr, i, j) == [arr EXCEPT ![i] = arr[j], ![j] = arr[i]]

\* Exchanges the n elements from i on with those from j on.
vecswap(arr, i, j, n) ==
    [k \in DOMAIN arr |->
        CASE k \in i .. i + n - 1 -> arr[k - i + j]
          [] k \in j .. j + n - 1 -> arr[k - j + i]
          [] OTHER -> arr[k]]

med3(arr, a, b, c) ==
    IF CMP(arr, a, b) < 0
      THEN IF CMP(arr, b, c) < 0 THEN b ELSE IF CMP(arr, a, c) < 0 THEN c ELSE a
      ELSE IF CMP(arr, b, c) > 0 THEN b ELSE IF CMP(arr, a, c) < 0 THEN a ELSE c

\* The position of the pivot of the n elements from a on.
Pivot(arr, a, n) ==
    LET pl == a
        pm == a + n \div 2
        pn == a + n - 1
        d == n \div 8
    IN  IF n <= SMALL THEN pm
        ELSE IF n <= NINTHER THEN med3(arr, pl, pm, pn)
        ELSE med3(arr, med3(arr, pl, pl + d, pl + 2 * d),
                       med3(arr, pm - d, pm, pm + d),
                       med3(arr, pn - 2 * d, pn - d, pn))

-----------------------------------------------------------------------------
(* Insertion sort.  Its state s: the array, the elements from pm to pn - 1  *)
(* that are still to be inserted, and the swaps made and allowed.  The      *)
(* pointers stay in the piece that begins at a.                             *)

Inserting ==
    {s \in [arr : Seq(Elements), a : Nat, pm : Nat, pn : Nat, swaps : Nat, limit : Nat] :
        0 < s.a /\ s.a <= s.pm /\ s.pm <= s.pn /\ s.pn <= Len(s.arr) + 1}

\* The element at pm sinks below the greater ones before it, unless it is
\* stopped by the swap that exceeds the limit.
Place(s) ==
    CHOOSE q \in s.a .. s.pm :
        LET room == s.limit + 1 - s.swaps
        IN  /\ \A k \in q .. s.pm - 1 : CMP(s.arr, k, s.pm) > 0
            /\ s.pm - q <= room
            /\ q = s.a \/ s.pm - q = room \/ CMP(s.arr, q - 1, s.pm) <= 0

\* The element at pm moves to q.
Insert(s, q) ==
    [s EXCEPT !.arr = [k \in DOMAIN s.arr |->
                          CASE k = q -> s.arr[s.pm]
                            [] k \in q + 1 .. s.pm -> s.arr[k - 1]
                            [] OTHER -> s.arr[k]],
              !.swaps = @ + s.pm - q,
              !.pm = @ + 1]

InsertAll[s \in Inserting] ==
    IF s.pm = s.pn \/ s.swaps > s.limit THEN s ELSE InsertAll[Insert(s, Place(s))]

\* Sorts the n elements from a on, but gives up when it takes more swaps than
\* limit.
InsertionSort(arr, a, n, limit) ==
    InsertAll[[arr |-> arr, a |-> a, pm |-> a + 1, pn |-> a + n,
               swaps |-> 0, limit |-> limit]]

-----------------------------------------------------------------------------
(* The partition.  Its state s: the array, whose pivot is at a; the four    *)
(* pointers, which stay in the piece; and whether anything was exchanged    *)
(* (swap_cnt).                                                              *)

Scans ==
    {s \in [arr : Seq(Elements), a : Nat, pn : Nat, pa : Nat, pb : Nat, pc : Nat,
            pd : Nat, swap_cnt : {0, 1}] :
        /\ 0 < s.a /\ s.a < s.pa /\ s.pa <= s.pb /\ s.pb <= s.pc + 1
        /\ s.pc <= s.pd /\ s.pd < s.pn /\ s.pn <= Len(s.arr) + 1}

\* The pivot is swapped to the beginning.
ScanInit(arr, a, n) ==
    [arr |-> swap(arr, a, Pivot(arr, a, n)), a |-> a, pn |-> a + n,
     pa |-> a + 1, pb |-> a + 1, pc |-> a + n - 1, pd |-> a + n - 1, swap_cnt |-> 0]

\* pb skips from the left what is less than the pivot and collects what equals
\* it at the left end; when it stops at a greater element, pc does the same from
\* the right; then the two elements they stop at are swapped.
ScanStep(s) ==
    LET l == CMP(s.arr, s.pb, s.a)
        r == CMP(s.arr, s.pc, s.a)
    IN  CASE l < 0 -> [s EXCEPT !.pb = @ + 1]
          [] l = 0 -> [s EXCEPT !.arr = swap(@, s.pa, s.pb), !.swap_cnt = 1,
                                !.pa = @ + 1, !.pb = @ + 1]
          [] l > 0 /\ r > 0 -> [s EXCEPT !.pc = @ - 1]
          [] l > 0 /\ r = 0 -> [s EXCEPT !.arr = swap(@, s.pc, s.pd), !.swap_cnt = 1,
                                         !.pd = @ - 1, !.pc = @ - 1]
          [] l > 0 /\ r < 0 -> [s EXCEPT !.arr = swap(@, s.pb, s.pc), !.swap_cnt = 1,
                                         !.pb = @ + 1, !.pc = @ - 1]

\* The loop, until the pointers have met.
Scan[s \in Scans] == IF s.pb > s.pc THEN s ELSE Scan[ScanStep(s)]

\* The elements equal to the pivot go from both ends to the middle.
Gather[s \in Scans] ==
    LET l == Min({s.pa - s.a, s.pb - s.pa})
        r == Min({s.pd - s.pc, s.pn - s.pd - 1})
    IN  [s EXCEPT !.arr = vecswap(vecswap(@, s.a, s.pb - l, l), s.pb, s.pn - r, r)]

\* What is left to do after the partition: at the left end nl elements and at
\* the right end nr, or nothing if no element had to be moved and insertion
\* sort succeeds with few swaps.
Rest[s \in Scans] ==
    LET limit == 1 + (s.pn - s.a) \div 4
        i == InsertionSort(s.arr, s.a, s.pn - s.a, limit)
        Split(arr) == [arr |-> arr, nl |-> s.pb - s.pa, nr |-> s.pd - s.pc]
    IN  CASE s.swap_cnt = 1 -> Split(s.arr)
          [] s.swap_cnt = 0 /\ i.swaps > limit -> Split(i.arr)
          [] s.swap_cnt = 0 /\ i.swaps <= limit -> [arr |-> i.arr, nl |-> 0, nr |-> 0]

\* Mutant of Pass: the elements equal to the pivot stay at the ends.
PassUngathered(arr, a, n) ==
    IF n < SMALL
      THEN [arr |-> InsertionSort(arr, a, n, n * n).arr, nl |-> 0, nr |-> 0]
      ELSE Rest[Scan[ScanInit(arr, a, n)]]

\* One pass over the n elements from a on.
Pass(arr, a, n) ==
    IF n < SMALL
      THEN [arr |-> InsertionSort(arr, a, n, n * n).arr, nl |-> 0, nr |-> 0]
      ELSE Rest[Gather[Scan[ScanInit(arr, a, n)]]]
=============================================================================
