--------------------------- MODULE WorkStealProofs ---------------------------
(***************************************************************************)
(* Theorems about the scheduler of quiz2/test1/work-steal.c for any number *)
(* of threads and of tasks per queue.                                      *)
(***************************************************************************)
EXTENDS WorkSteal, FiniteSetTheorems, SequenceTheorems, TLAPS

-----------------------------------------------------------------------------
(* The inductive invariant *)

Labels == {"take", "scan", "steal", "check", "run", "join", "set_done", "end"}

\* Types, as far as the other invariants need them: what a thread holds when
\* it runs or joins something, and that it steals from a queue.
SchedulerTypeOK ==
    /\ items \in [Queues -> Seq(Items)]
    /\ result \in [Threads -> Items \cup {EMPTY, ABORT, BUSY}]
    /\ pc \in [Threads -> Labels]
    /\ i \in [Threads -> 0 .. N_THREADS]
    /\ work \in [Threads -> Works \cup {NULL}]
    /\ join_count \in Int
    /\ ran \in [Works -> Nat]
    /\ freed \subseteq Works
    /\ \A t \in Threads :
          /\ pc[t] = "steal" => i[t] \in Queues
          /\ pc[t] = "run" => work[t] \in Works
          /\ pc[t] = "join" => work[t] \in Items

\* A queue has a task at one position only, and no two queues share one.
QueuedOnce ==
    \A q, r \in Queues : \A j \in DOMAIN items[q], k \in DOMAIN items[r] :
        items[q][j] = items[r][k] => q = r /\ j = k

\* A task in hand is in no queue, and in one hand only.
HeldOnce ==
    /\ \A t \in Holders : work[t] \notin Queued
    /\ \A t, u \in Holders : work[t] = work[u] => t = u

\* What is queued, or about to be run, has not been run; what was freed has.
RunLater ==
    /\ \A w \in Queued : ran[w] = 0
    /\ \A t \in Threads : pc[t] = "run" => ran[work[t]] = 0
    /\ \A w \in freed : ran[w] = 1

\* The continuation is run by one thread, when the count has come to zero.
ContinuesOnce ==
    /\ join_count > 0 => ran[DoneWork] = 0
    /\ \A t \in Threads : pc[t] = "run" /\ work[t] = DoneWork => join_count = 0
    /\ \A t, u \in Threads :
          pc[t] = "run" /\ work[t] = DoneWork /\ pc[u] = "run" /\ work[u] = DoneWork => t = u

SchedulerInv ==
    /\ SchedulerTypeOK
    /\ QueuedOnce
    /\ HeldOnce
    /\ RunLater
    /\ RunsAtMostOnce
    /\ ContinuesOnce
    /\ CountIsOutstanding

-----------------------------------------------------------------------------
(* Sets of tasks and threads *)

\* Constants, and what the cardinalities are about, in the form the provers use.
LEMMA Constants ==
    /\ N_THREADS \in Nat \ {0} /\ nprints \in Nat \ {0}
    /\ Threads = 0 .. N_THREADS - 1 /\ Queues = Threads
    /\ Items = Queues \X (1 .. nprints)
    /\ DoneWork \notin Items /\ NULL \notin Items /\ EMPTY \notin Items /\ ABORT \notin Items
    /\ EMPTY # ABORT
BY WorkStealAssumption

\* The loop counter of the stealing loop: its first and last value, and the
\* values at which it names a queue.
LEMMA Counter ==
    /\ 0 \in 0 .. N_THREADS
    /\ \A k \in 0 .. N_THREADS : k < N_THREADS => k \in Queues
    /\ \A k \in Queues : k \in 0 .. N_THREADS /\ k + 1 \in 0 .. N_THREADS
BY Constants

\* There are N_THREADS * nprints tasks, and the tasks in the queues and the
\* threads with one in hand are finitely many.
LEMMA Finite ==
    /\ IsFiniteSet(Items) /\ Cardinality(Items) = N_THREADS * nprints
    /\ IsFiniteSet(Queued) /\ Cardinality(Queued) \in Nat
    /\ IsFiniteSet(Holders) /\ Cardinality(Holders) \in Nat
<1>1. IsFiniteSet(Threads) /\ Cardinality(Threads) = N_THREADS
  <2>1. 0 \in Int /\ N_THREADS - 1 \in Int /\ ~(0 > N_THREADS - 1)
    BY Constants
  <2> QED
    BY <2>1, FS_Interval, Constants
<1>2. IsFiniteSet(1 .. nprints) /\ Cardinality(1 .. nprints) = nprints
  <2>1. 1 \in Int /\ nprints \in Int /\ ~(1 > nprints)
    BY Constants
  <2> QED
    BY <2>1, FS_Interval, Constants
<1>3. IsFiniteSet(Items) /\ Cardinality(Items) = N_THREADS * nprints
  BY <1>1, <1>2, FS_Product, Constants
<1>4. Queued \in SUBSET Items /\ Holders \in SUBSET Threads
  BY DEF Queued, Holders
<1>5. IsFiniteSet(Queued) /\ IsFiniteSet(Holders)
  BY <1>1, <1>3, <1>4, FS_Subset
<1> QED
  BY <1>3, <1>5, FS_CardinalityType

\* The queued tasks are those at some position of some queue.
LEMMA QueuedPositions ==
    ASSUME SchedulerTypeOK, NEW w
    PROVE  w \in Queued <=> \E q \in Queues : \E k \in DOMAIN items[q] : items[q][k] = w
<1>1. \A q \in Queues : \A k \in DOMAIN items[q] : items[q][k] \in Items
  BY DEF SchedulerTypeOK
<1> QED
  BY <1>1 DEF Queued, Range

-----------------------------------------------------------------------------
(* Initial states *)

\* main has put every task into one queue, counted it, and started nothing.
LEMMA InitInv == Init => SchedulerInv
<1> SUFFICES ASSUME Init PROVE SchedulerInv
  OBVIOUS
<1>1. /\ \A q \in Queues : items[q] = [j \in 1 .. nprints |-> <<q, j>>]
      /\ \A q \in Queues : \A j \in 1 .. nprints : <<q, j>> \in Items
  BY Constants DEF Init
<1>2. items \in [Queues -> Seq(Items)]
  <2>1. \A q \in Queues : [j \in 1 .. nprints |-> <<q, j>>] \in Seq(Items)
    BY <1>1, Constants
  <2> QED
    BY <2>1 DEF Init
<1>3. SchedulerTypeOK
  BY <1>2, Constants DEF Init, SchedulerTypeOK, Labels, Works, InitialCount
<1>4. \A q \in Queues : DOMAIN items[q] = 1 .. nprints
  BY <1>1
<1>5. QueuedOnce
  <2> SUFFICES ASSUME NEW q \in Queues, NEW r \in Queues,
                      NEW j \in DOMAIN items[q], NEW k \in DOMAIN items[r],
                      items[q][j] = items[r][k]
               PROVE  q = r /\ j = k
    BY DEF QueuedOnce
  <2>1. items[q][j] = <<q, j>> /\ items[r][k] = <<r, k>>
    BY <1>1, <1>4
  <2>2. <<q, j>> = <<r, k>>
    BY <2>1
  <2> QED
    BY <2>2
<1>6. Holders = {}
  BY DEF Init, Holders, InHand
<1>7. Queued = Items
  <2>1. ASSUME NEW w \in Items PROVE w \in Queued
    <3>1. PICK q \in Queues, j \in 1 .. nprints : w = <<q, j>>
      BY Constants
    <3>2. j \in DOMAIN items[q] /\ items[q][j] = w
      BY <1>1, <1>4, <3>1
    <3> QED
      BY <3>2, <1>3, QueuedPositions
  <2> QED
    BY <2>1 DEF Queued
<1>8. CountIsOutstanding
  BY <1>6, <1>7, Finite, FS_EmptySet, Constants DEF CountIsOutstanding, Init, InitialCount
<1> QED
  BY <1>3, <1>5, <1>6, <1>8, Constants
  DEF Init, SchedulerInv, HeldOnce, RunLater, RunsAtMostOnce, ContinuesOnce, Queued, Works

-----------------------------------------------------------------------------
(* Finding a task *)

\* take removes the last task of a queue and steal the first: the others stay,
\* each once, and the one removed is in no queue any more.
LEMMA Removal ==
    ASSUME SchedulerTypeOK, QueuedOnce, NEW q \in Queues, items[q] # <<>>, NEW x,
           \/ x = Last(items[q]) /\ items' = [items EXCEPT ![q] = Front(@)]
           \/ x = Head(items[q]) /\ items' = [items EXCEPT ![q] = Tail(@)]
    PROVE  /\ items' \in [Queues -> Seq(Items)]
           /\ x \in Queued
           /\ Queued' = Queued \ {x}
           /\ QueuedOnce'
<1> DEFINE s == items[q]
<1>1. s \in Seq(Items) /\ Len(s) \in Nat \ {0} /\ DOMAIN s = 1 .. Len(s)
  BY EmptySeq DEF SchedulerTypeOK
<1>2. PICK d \in {0, 1} :
        /\ x = s[IF d = 0 THEN Len(s) ELSE 1]
        /\ items'[q] \in Seq(Items)
        /\ Len(items'[q]) = Len(s) - 1
        /\ \A k \in 1 .. Len(s) - 1 : items'[q][k] = s[k + d]
  <2>1. CASE x = Last(s) /\ items' = [items EXCEPT ![q] = Front(@)]
    <3>1. items'[q] = SubSeq(s, 1, Len(s) - 1)
      BY <2>1 DEF SchedulerTypeOK, Front
    <3>2. \A k \in 1 .. Len(s) - 1 : s[k] \in Items
      BY <1>1
    <3>3. /\ SubSeq(s, 1, Len(s) - 1) \in Seq(Items)
          /\ Len(SubSeq(s, 1, Len(s) - 1)) = Len(s) - 1
          /\ \A k \in 1 .. Len(s) - 1 : SubSeq(s, 1, Len(s) - 1)[k] = s[k]
      BY <1>1, <3>2, SubSeqProperties
    <3> QED
      BY <2>1, <3>1, <3>3 DEF Last
  <2>2. CASE x = Head(s) /\ items' = [items EXCEPT ![q] = Tail(@)]
    <3>1. items'[q] = Tail(s)
      BY <2>2 DEF SchedulerTypeOK
    <3>2. /\ Tail(s) \in Seq(Items)
          /\ Len(Tail(s)) = Len(s) - 1
          /\ \A k \in 1 .. Len(s) - 1 : Tail(s)[k] = s[k + 1]
      BY <1>1, HeadTailProperties
    <3>3. Head(s) = s[1]
      BY <1>1
    <3>4. x = s[1]
      BY <2>2, <3>3
    <3>5. /\ items'[q] \in Seq(Items)
          /\ Len(items'[q]) = Len(s) - 1
          /\ \A k \in 1 .. Len(s) - 1 : items'[q][k] = s[k + 1]
      BY <3>1, <3>2
    <3> HIDE DEF s
    <3> WITNESS 1 \in {0, 1}
    <3> QED
      BY <3>4, <3>5
  <2> QED
    BY <2>1, <2>2
<1>3. /\ items' \in [Queues -> Seq(Items)]
      /\ \A r \in Queues \ {q} : items'[r] = items[r]
  BY <1>2 DEF SchedulerTypeOK
<1>4. DOMAIN items'[q] = 1 .. Len(s) - 1
  BY <1>2
<1>5. x \in Queued
  BY <1>1, <1>2, QueuedPositions
<1>6. \A r \in Queues : \A k \in DOMAIN items'[r] :
         \E j \in DOMAIN items[r] :
            /\ items'[r][k] = items[r][j]
            /\ r = q => j = k + d
            /\ r # q => j = k
            /\ items[r][j] # x
  <2> SUFFICES ASSUME NEW r \in Queues, NEW k \in DOMAIN items'[r]
               PROVE  \E j \in DOMAIN items[r] :
                         /\ items'[r][k] = items[r][j]
                         /\ r = q => j = k + d
                         /\ r # q => j = k
                         /\ items[r][j] # x
    OBVIOUS
  <2> DEFINE e == IF d = 0 THEN Len(s) ELSE 1
  <2>1. e \in DOMAIN items[q] /\ items[q][e] = x
    BY <1>1, <1>2
  <2>2. CASE r = q
    <3>5. k \in 1 .. Len(s) - 1 /\ Len(s) \in Nat /\ d \in {0, 1}
      BY <1>1, <1>2, <1>4, <2>2
    <3>6. k + d \in 1 .. Len(s) /\ (d = 0 => k # Len(s)) /\ (d = 1 => k + d # 1)
      BY ONLY <3>5
    <3>3. k + d \in DOMAIN items[q] /\ items'[q][k] = items[q][k + d]
      BY <1>1, <1>2, <2>2, <3>5, <3>6
    <3>4. k + d # e
      BY <3>5, <3>6
    <3>1. k + d \in DOMAIN items[q] /\ items'[q][k] = items[q][k + d] /\ k + d # e
      BY <3>3, <3>4
    <3>2. items[q][k + d] # x
      BY <2>1, <3>1 DEF QueuedOnce
    <3> QED
      BY <2>2, <3>1, <3>2
  <2>3. CASE r # q
    <3>1. items[r][k] # x /\ k \in DOMAIN items[r]
      BY <1>3, <2>1, <2>3 DEF QueuedOnce
    <3> QED
      BY <1>3, <2>3, <3>1
  <2> QED
    BY <2>2, <2>3
<1>7. QueuedOnce'
  <2> SUFFICES ASSUME NEW r \in Queues, NEW u \in Queues,
                      NEW j \in DOMAIN items'[r], NEW k \in DOMAIN items'[u],
                      items'[r][j] = items'[u][k]
               PROVE  r = u /\ j = k
    BY DEF QueuedOnce
  <2>1. PICK a \in DOMAIN items[r] :
           items'[r][j] = items[r][a] /\ (r = q => a = j + d) /\ (r # q => a = j)
    BY <1>6
  <2>2. PICK b \in DOMAIN items[u] :
           items'[u][k] = items[u][b] /\ (u = q => b = k + d) /\ (u # q => b = k)
    BY <1>6
  <2>3. r = u /\ a = b
    <3>1. items[r][a] = items[u][b]
      BY <2>1, <2>2
    <3> QED
      BY <3>1 DEF QueuedOnce
  <2>4. j \in Int /\ k \in Int
    BY <1>3
  <2> QED
    BY <2>1, <2>2, <2>3, <2>4
<1>8. Queued' = Queued \ {x}
  <2>1. ASSUME NEW w \in Queued' PROVE w \in Queued \ {x}
    <3>0. PICK r \in Queues : \E k \in DOMAIN items'[r] : items'[r][k] = w
      BY <2>1 DEF Queued, Range
    <3>1. PICK k \in DOMAIN items'[r] : items'[r][k] = w
      BY <3>0
    <3>2. PICK j \in DOMAIN items[r] : items[r][j] = w /\ w # x
      BY <1>6, <3>1
    <3> QED
      BY <3>2, QueuedPositions
  <2>2. ASSUME NEW w \in Queued, w # x PROVE w \in Queued'
    <3>0. PICK r \in Queues : \E j \in DOMAIN items[r] : items[r][j] = w
      BY QueuedPositions
    <3>1. PICK j \in DOMAIN items[r] : items[r][j] = w
      BY <3>0
    <3>2. \E k \in DOMAIN items'[r] : items'[r][k] = w
      <4>1. CASE r # q
        BY <1>3, <3>1, <4>1
      <4>2. CASE r = q
        <5>1. j - d \in 1 .. Len(s) - 1 /\ s[(j - d) + d] = w
          BY <1>1, <1>2, <2>2, <3>1, <4>2
        <5> QED
          BY <1>2, <1>4, <4>2, <5>1
      <4> QED
        BY <4>1, <4>2
    <3> QED
      BY <2>2, <3>2 DEF Queued, Range
  <2> QED
    BY <2>1, <2>2
<1> QED
  BY <1>3, <1>5, <1>7, <1>8

\* What a step that finds x leaves alone, and where the thread goes.
Finds(t, x) ==
    /\ work' = [work EXCEPT ![t] = x]
    /\ pc' = [pc EXCEPT ![t] = "run"]
    /\ UNCHANGED <<join_count, ran, freed>>

\* A thread without a task finds x in a queue: x goes from the queues to the
\* hands, and the count stays right.
LEMMA FindInv ==
    ASSUME SchedulerInv, SchedulerTypeOK', NEW t \in Threads, ~InHand(t), NEW x,
           Finds(t, x), x \in Queued, Queued' = Queued \ {x}, QueuedOnce'
    PROVE  SchedulerInv'
<1>1. x \in Items /\ x # DoneWork
  BY Constants DEF Queued
<1>2. /\ work'[t] = x /\ pc'[t] = "run"
      /\ \A u \in Threads \ {t} : work'[u] = work[u] /\ pc'[u] = pc[u]
      /\ join_count' = join_count /\ ran' = ran /\ freed' = freed
  BY DEF Finds, SchedulerInv, SchedulerTypeOK
<1>3. Holders' = Holders \cup {t} /\ t \notin Holders
  BY <1>1, <1>2 DEF Holders, InHand
<1>4. HeldOnce'
  <2>1. \A u \in Holders : work[u] # x /\ work'[u] = work[u] /\ work[u] \notin Queued
    BY <1>2, <1>3 DEF SchedulerInv, HeldOnce, Holders
  <2> QED
    BY <1>2, <1>3, <2>1 DEF SchedulerInv, HeldOnce
<1>5. RunLater'
  BY <1>2 DEF SchedulerInv, RunLater
<1>6. ContinuesOnce'
  BY <1>1, <1>2 DEF SchedulerInv, ContinuesOnce
<1>7. CountIsOutstanding'
  <2>1. Cardinality(Queued') = Cardinality(Queued) - 1
    BY Finite, FS_RemoveElement
  <2>2. Cardinality(Holders') = Cardinality(Holders) + 1
    BY <1>3, Finite, FS_AddElement
  <2> QED
    BY <1>2, <2>1, <2>2, Finite DEF SchedulerInv, CountIsOutstanding
<1> QED
  BY <1>2, <1>4, <1>5, <1>6, <1>7 DEF SchedulerInv, RunsAtMostOnce

\* A step that changes neither the queues nor what a thread holds.
LEMMA OtherInv ==
    ASSUME SchedulerInv, SchedulerTypeOK',
           \A u \in Threads :
              \/ work'[u] = work[u] /\ pc'[u] = pc[u]
              \/ pc[u] \notin {"run", "join"} /\ pc'[u] \notin {"run", "join"},
           UNCHANGED <<items, join_count, ran, freed>>
    PROVE  SchedulerInv'
<1>1. Queued' = Queued
  BY DEF Queued
<1>2. Holders' = Holders /\ \A u \in Holders : work'[u] = work[u]
  BY DEF Holders, InHand
<1>3. HeldOnce'
  BY <1>1, <1>2 DEF SchedulerInv, HeldOnce
<1>4. RunLater' /\ ContinuesOnce' /\ RunsAtMostOnce'
  BY <1>1 DEF SchedulerInv, RunLater, ContinuesOnce, RunsAtMostOnce
<1>5. QueuedOnce' /\ CountIsOutstanding'
  BY <1>1, <1>2 DEF SchedulerInv, QueuedOnce, CountIsOutstanding
<1> QED
  BY <1>3, <1>4, <1>5 DEF SchedulerInv

-----------------------------------------------------------------------------
(* The steps of a thread *)

\* What a step of t must see to for the types: its own entries.
LEMMA TypeStep ==
    ASSUME SchedulerTypeOK, NEW t \in Threads,
           items' \in [Queues -> Seq(Items)],
           result' \in [Threads -> Items \cup {EMPTY, ABORT, BUSY}],
           pc' \in [Threads -> Labels],
           i' \in [Threads -> 0 .. N_THREADS],
           work' \in [Threads -> Works \cup {NULL}],
           \A u \in Threads \ {t} : pc'[u] = pc[u] /\ work'[u] = work[u] /\ i'[u] = i[u],
           pc'[t] = "steal" => i'[t] \in Queues,
           pc'[t] = "run" => work'[t] \in Works,
           pc'[t] = "join" => work'[t] \in Items,
           join_count' \in Int, ran' \in [Works -> Nat], freed' \subseteq Works
    PROVE  SchedulerTypeOK'
<1>1. ASSUME NEW u \in Threads
      PROVE  /\ pc'[u] = "steal" => i'[u] \in Queues
             /\ pc'[u] = "run" => work'[u] \in Works
             /\ pc'[u] = "join" => work'[u] \in Items
  BY DEF SchedulerTypeOK
<1> QED
  BY <1>1 DEF SchedulerTypeOK

\* A thread takes the last task of its own queue, or finds the queue empty.
LEMMA TakeOwnInv ==
    ASSUME SchedulerInv, NEW t \in Threads, TakeOwn(t)
    PROVE  SchedulerInv'
<1>1. SchedulerTypeOK /\ t \in Queues /\ pc[t] = "take" /\ ~InHand(t)
  BY Constants DEF SchedulerInv, TakeOwn, InHand
<1>2. i' = [i EXCEPT ![t] = 0] /\ UNCHANGED <<join_count, ran, freed>>
  BY DEF TakeOwn
<1>3. CASE items[t] = <<>>
  <2>1. result' = [result EXCEPT ![t] = EMPTY] /\ items' = items
    BY <1>3 DEF TakeOwn, Take, Return
  <2>2. pc' = [pc EXCEPT ![t] = "scan"] /\ work' = work
    BY <1>1, <2>1 DEF TakeOwn, Goto, SchedulerTypeOK
  <2>3. SchedulerTypeOK'
    BY <1>1, <1>2, <2>1, <2>2, Counter, TypeStep DEF SchedulerTypeOK, Labels
  <2> QED
    BY <1>1, <1>2, <2>1, <2>2, <2>3, OtherInv DEF SchedulerTypeOK
<1>4. CASE items[t] # <<>>
  <2> DEFINE x == Last(items[t])
  <2>1. result' = [result EXCEPT ![t] = x] /\ items' = [items EXCEPT ![t] = Front(@)]
    BY <1>4 DEF TakeOwn, Take, Return
  <2>2. /\ items' \in [Queues -> Seq(Items)]
        /\ x \in Queued /\ Queued' = Queued \ {x} /\ QueuedOnce'
    BY <1>1, <1>4, <2>1, Removal DEF SchedulerInv
  <2>3. x \in Items
    BY <2>2 DEF Queued
  <2> HIDE DEF x
  <2>4. result'[t] = x /\ x # EMPTY
    BY <1>1, <2>1, <2>3, Constants DEF SchedulerTypeOK
  <2>5. Finds(t, x)
    BY <1>2, <2>4 DEF TakeOwn, Found, Goto, Finds
  <2>6. SchedulerTypeOK'
    BY <1>1, <1>2, <2>1, <2>2, <2>3, <2>5, Counter, TypeStep
    DEF SchedulerTypeOK, Labels, Finds, Works
  <2> QED
    BY <1>1, <2>2, <2>5, <2>6, FindInv
<1> QED
  BY <1>3, <1>4

\* A thread moves on in its loop over the other queues; it touches no task.
LEMMA ScanNextInv ==
    ASSUME SchedulerInv, NEW t \in Threads, ScanNext(t)
    PROVE  SchedulerInv'
<1>1. /\ SchedulerTypeOK /\ pc[t] = "scan"
      /\ UNCHANGED <<items, work, join_count, ran, freed>>
  BY DEF SchedulerInv, ScanNext, StealBegin, dequeVars
<1>2. /\ \/ i' = [i EXCEPT ![t] = @ + 1] /\ i[t] = t /\ pc' = pc /\ result' = result
         \/ /\ pc' = [pc EXCEPT ![t] = "steal"] /\ i[t] < N_THREADS
            /\ result' = [result EXCEPT ![t] = BUSY] /\ i' = i
         \/ pc' = [pc EXCEPT ![t] = "check"] /\ i' = i /\ result' = result
  BY DEF ScanNext, StealBegin, Return, Goto, dequeVars
<1>3. i[t] \in 0 .. N_THREADS
  BY <1>1 DEF SchedulerTypeOK
<1>4. SchedulerTypeOK'
  <2>1. CASE i' = [i EXCEPT ![t] = @ + 1] /\ i[t] = t /\ pc' = pc /\ result' = result
    <3>1. i[t] + 1 \in 0 .. N_THREADS
      BY <2>1, Counter, Constants
    <3> QED
      BY <1>1, <2>1, <3>1, TypeStep DEF SchedulerTypeOK
  <2>2. CASE /\ pc' = [pc EXCEPT ![t] = "steal"] /\ i[t] < N_THREADS
             /\ result' = [result EXCEPT ![t] = BUSY] /\ i' = i
    <3>1. i[t] \in Queues
      BY <1>3, <2>2, Counter
    <3> QED
      BY <1>1, <2>2, <3>1, TypeStep DEF SchedulerTypeOK, Labels
  <2>3. CASE pc' = [pc EXCEPT ![t] = "check"] /\ i' = i /\ result' = result
    BY <1>1, <2>3, TypeStep DEF SchedulerTypeOK, Labels
  <2> QED
    BY <1>2, <2>1, <2>2, <2>3
<1> QED
  BY <1>1, <1>2, <1>4, OtherInv DEF SchedulerTypeOK

\* A steal gets the first task of another queue, finds it empty, or is aborted.
LEMMA StealOtherInv ==
    ASSUME SchedulerInv, NEW t \in Threads, StealOther(t)
    PROVE  SchedulerInv'
<1> DEFINE q == i[t]
<1>1. SchedulerTypeOK /\ q \in Queues /\ pc[t] = "steal" /\ ~InHand(t)
  BY DEF SchedulerInv, SchedulerTypeOK, StealOther, InHand
<1>2. /\ i' = [i EXCEPT ![t] = NextQueue(@, result'[t])]
      /\ UNCHANGED <<join_count, ran, freed>>
  BY DEF StealOther
<1>3. i' \in [Threads -> 0 .. N_THREADS]
  BY <1>1, <1>2, Counter DEF NextQueue, SchedulerTypeOK
<1>4. CASE /\ result' \in {[result EXCEPT ![t] = EMPTY], [result EXCEPT ![t] = ABORT]}
           /\ items' = items
  <2>1. pc' = [pc EXCEPT ![t] = "scan"] /\ work' = work
    BY <1>1, <1>4 DEF StealOther, Goto, SchedulerTypeOK
  <2>2. SchedulerTypeOK'
    BY <1>1, <1>2, <1>3, <1>4, <2>1, TypeStep DEF SchedulerTypeOK, Labels
  <2> QED
    BY <1>1, <1>2, <1>4, <2>1, <2>2, OtherInv DEF SchedulerTypeOK
<1>5. CASE /\ items[q] # <<>>
           /\ result' = [result EXCEPT ![t] = Head(items[q])]
           /\ items' = [items EXCEPT ![q] = Tail(@)]
  <2> DEFINE x == Head(items[q])
  <2>1. /\ items' \in [Queues -> Seq(Items)]
        /\ x \in Queued /\ Queued' = Queued \ {x} /\ QueuedOnce'
    BY <1>1, <1>5, Removal DEF SchedulerInv
  <2>2. x \in Items
    BY <2>1 DEF Queued
  <2> HIDE DEF x
  <2>3. result' = [result EXCEPT ![t] = x]
    BY <1>5 DEF x
  <2>4. result'[t] = x /\ x \notin {EMPTY, ABORT}
    BY <1>1, <2>2, <2>3, Constants DEF SchedulerTypeOK
  <2>5. Finds(t, x)
    BY <1>2, <2>4 DEF StealOther, Found, Goto, Finds
  <2>6. SchedulerTypeOK'
    BY <1>1, <1>2, <1>3, <2>1, <2>2, <2>3, <2>5, TypeStep
    DEF SchedulerTypeOK, Labels, Finds, Works
  <2> QED
    BY <1>1, <2>1, <2>5, <2>6, FindInv
<1> QED
  BY <1>4, <1>5 DEF StealOther, StealEnd, Return

\* A thread that found nothing looks at the flag and goes round again, or ends.
LEMMA CheckDoneInv ==
    ASSUME SchedulerInv, NEW t \in Threads, CheckDone(t)
    PROVE  SchedulerInv'
<1>1. /\ SchedulerTypeOK /\ pc[t] = "check"
      /\ UNCHANGED <<items, result, i, work, join_count, ran, freed>>
      /\ pc' = [pc EXCEPT ![t] = IF done THEN "end" ELSE "take"]
  BY DEF SchedulerInv, CheckDone, Goto, dequeVars
<1>2. SchedulerTypeOK'
  BY <1>1, TypeStep DEF SchedulerTypeOK, Labels
<1> QED
  BY <1>1, <1>2, OtherInv DEF SchedulerTypeOK

\* Setting the flag changes no task and no count.
LEMMA SetDoneInv ==
    ASSUME SchedulerInv, NEW t \in Threads, SetDone(t)
    PROVE  SchedulerInv'
<1>1. /\ SchedulerTypeOK /\ pc[t] = "set_done"
      /\ UNCHANGED <<items, result, i, join_count, ran, freed>>
      /\ work' = [work EXCEPT ![t] = NULL]
      /\ pc' = [pc EXCEPT ![t] = "take"]
  BY DEF SchedulerInv, SetDone, Goto, dequeVars
<1>2. SchedulerTypeOK'
  BY <1>1, TypeStep DEF SchedulerTypeOK, Labels
<1> QED
  BY <1>1, <1>2, OtherInv DEF SchedulerTypeOK

\* The thread executes what it holds, which nobody has executed, and no other
\* thread is about to.
LEMMA RunTaskInv ==
    ASSUME SchedulerInv, NEW t \in Threads, RunTask(t)
    PROVE  SchedulerInv'
<1> DEFINE w == work[t]
<1>1. /\ SchedulerTypeOK /\ pc[t] = "run" /\ w \in Works
      /\ UNCHANGED <<items, result, i, work, join_count>>
      /\ ran' = [ran EXCEPT ![w] = @ + 1]
      /\ freed' = freed \cup {w}
      /\ pc' = [pc EXCEPT ![t] = IF w = DoneWork THEN "set_done" ELSE "join"]
  BY DEF SchedulerInv, SchedulerTypeOK, RunTask, Goto, dequeVars
<1>2. SchedulerTypeOK'
  BY <1>1, TypeStep DEF SchedulerTypeOK, Labels, Works
<1>3. ran[w] = 0 /\ ran'[w] = 1 /\ \A v \in Works \ {w} : ran'[v] = ran[v]
  BY <1>1 DEF SchedulerInv, SchedulerTypeOK, RunLater
<1>4. /\ pc'[t] \in {"set_done", "join"} /\ (w # DoneWork => pc'[t] = "join")
      /\ (w = DoneWork => pc'[t] = "set_done")
      /\ \A u \in Threads \ {t} : pc'[u] = pc[u]
  BY <1>1 DEF SchedulerTypeOK
<1>5. Queued' = Queued /\ Holders' = Holders
  BY <1>1, <1>4, Constants DEF Queued, Holders, InHand, Works
<1>6. \A u \in Threads \ {t} : pc[u] = "run" => work[u] # w /\ work[u] \in Works
  <2> SUFFICES ASSUME NEW u \in Threads \ {t}, pc[u] = "run", work[u] = w PROVE FALSE
    BY DEF SchedulerInv, SchedulerTypeOK
  <2>1. CASE w = DoneWork
    BY <1>1, <2>1 DEF SchedulerInv, ContinuesOnce
  <2>2. CASE w # DoneWork
    <3>1. t \in Holders /\ u \in Holders
      BY <1>1, <2>2 DEF Holders, InHand, Works
    <3> QED
      BY <3>1 DEF SchedulerInv, HeldOnce
  <2> QED
    BY <2>1, <2>2
<1>7. w \notin Queued
  <2>1. CASE w = DoneWork
    BY <2>1, Constants DEF Queued
  <2>2. CASE w # DoneWork
    <3>1. t \in Holders
      BY <1>1, <2>2 DEF Holders, InHand, Works
    <3> QED
      BY <3>1 DEF SchedulerInv, HeldOnce
  <2> QED
    BY <2>1, <2>2
<1>8. RunLater' /\ RunsAtMostOnce'
  <2>1. Queued \subseteq Works \ {w}
    BY <1>7 DEF Queued, Works
  <2>2. \A v \in Queued' : ran'[v] = 0
    BY <1>3, <1>5, <2>1 DEF SchedulerInv, RunLater
  <2>3. \A u \in Threads : pc'[u] = "run" => ran'[work'[u]] = 0
    BY <1>1, <1>3, <1>4, <1>6 DEF SchedulerInv, RunLater
  <2>4. \A v \in freed' : ran'[v] = 1
    BY <1>1, <1>3 DEF SchedulerInv, SchedulerTypeOK, RunLater
  <2>5. RunsAtMostOnce'
    BY <1>3 DEF SchedulerInv, RunsAtMostOnce
  <2> QED
    BY <2>2, <2>3, <2>4, <2>5 DEF RunLater
<1>9. ContinuesOnce'
  <2>1. join_count > 0 => w # DoneWork
    BY <1>1 DEF SchedulerInv, SchedulerTypeOK, ContinuesOnce
  <2>2. join_count' > 0 => ran'[DoneWork] = 0
    BY <1>1, <1>3, <2>1 DEF SchedulerInv, ContinuesOnce, Works
  <2> QED
    BY <1>1, <1>4, <2>2 DEF SchedulerInv, ContinuesOnce
<1>10. HeldOnce' /\ QueuedOnce' /\ CountIsOutstanding'
  BY <1>1, <1>5 DEF SchedulerInv, HeldOnce, QueuedOnce, CountIsOutstanding
<1> QED
  BY <1>2, <1>8, <1>9, <1>10 DEF SchedulerInv

\* The thread lets go of its task and counts it; the continuation goes to the
\* one that counts last.
LEMMA JoinWorkInv ==
    ASSUME SchedulerInv, NEW t \in Threads, JoinWork(t)
    PROVE  SchedulerInv'
<1>1. /\ SchedulerTypeOK /\ pc[t] = "join" /\ work[t] \in Items
      /\ UNCHANGED <<items, result, i, ran, freed>>
      /\ join_count' = join_count - 1
      /\ \/ /\ join_count = 1
            /\ work' = [work EXCEPT ![t] = DoneWork] /\ pc' = [pc EXCEPT ![t] = "run"]
         \/ /\ join_count # 1
            /\ work' = [work EXCEPT ![t] = NULL] /\ pc' = [pc EXCEPT ![t] = "take"]
  BY DEF SchedulerInv, SchedulerTypeOK, JoinWork, IsLast, Goto, dequeVars
<1>2. SchedulerTypeOK'
  <2>1. CASE work' = [work EXCEPT ![t] = DoneWork] /\ pc' = [pc EXCEPT ![t] = "run"]
    BY <1>1, <2>1, TypeStep DEF SchedulerTypeOK, Labels, Works
  <2>2. CASE work' = [work EXCEPT ![t] = NULL] /\ pc' = [pc EXCEPT ![t] = "take"]
    BY <1>1, <2>2, TypeStep DEF SchedulerTypeOK, Labels, Works
  <2> QED
    BY <1>1, <2>1, <2>2
<1>3. /\ \/ join_count = 1 /\ work'[t] = DoneWork /\ pc'[t] = "run"
         \/ join_count # 1 /\ work'[t] = NULL /\ pc'[t] = "take"
      /\ \A u \in Threads \ {t} : work'[u] = work[u] /\ pc'[u] = pc[u]
  BY <1>1 DEF SchedulerTypeOK
<1>4. t \in Holders /\ Holders' = Holders \ {t} /\ Queued' = Queued
  BY <1>1, <1>3, Constants DEF Holders, InHand, Queued
<1>5. CountIsOutstanding' /\ join_count > 0
  <2>1. Cardinality(Holders') = Cardinality(Holders) - 1
    BY <1>4, Finite, FS_RemoveElement
  <2>2. Cardinality(Holders) # 0
    BY <1>4, Finite, FS_EmptySet
  <2> QED
    BY <1>1, <1>4, <2>1, <2>2, Finite DEF SchedulerInv, CountIsOutstanding
<1>6. HeldOnce'
  BY <1>3, <1>4 DEF SchedulerInv, HeldOnce, Holders
<1>7. ran[DoneWork] = 0 /\ \A u \in Threads : ~(pc[u] = "run" /\ work[u] = DoneWork)
  BY <1>5 DEF SchedulerInv, SchedulerTypeOK, ContinuesOnce
<1>8. RunLater'
  BY <1>1, <1>3, <1>4, <1>7 DEF SchedulerInv, RunLater
<1>9. ContinuesOnce'
  <2>1. ran'[DoneWork] = 0
    BY <1>1, <1>7
  <2>2. \A u \in Threads : pc'[u] = "run" /\ work'[u] = DoneWork => u = t /\ join_count = 1
    BY <1>3, <1>7
  <2>3. join_count = 1 => join_count' = 0
    BY <1>1
  <2> QED
    BY <2>1, <2>2, <2>3 DEF ContinuesOnce
<1> QED
  BY <1>1, <1>2, <1>5, <1>6, <1>8, <1>9 DEF SchedulerInv, QueuedOnce, RunsAtMostOnce

-----------------------------------------------------------------------------
(* The theorems *)

\* Every step of every thread keeps the invariant.
LEMMA NextInv == SchedulerInv /\ [Next]_vars => SchedulerInv'
<1> SUFFICES ASSUME SchedulerInv, [Next]_vars PROVE SchedulerInv'
  OBVIOUS
<1>1. ASSUME NEW t \in Threads, ThreadStep(t) PROVE SchedulerInv'
  BY <1>1, TakeOwnInv, ScanNextInv, StealOtherInv, CheckDoneInv, SetDoneInv,
     RunTaskInv, JoinWorkInv DEF ThreadStep
<1>2. CASE UNCHANGED vars
  <2>1. UNCHANGED <<items, result, pc, i, work, join_count, ran, freed>>
    BY <1>2 DEF vars, dequeVars
  <2>2. SchedulerTypeOK'
    BY <2>1 DEF SchedulerInv, SchedulerTypeOK
  <2> QED
    BY <2>1, <2>2, OtherInv
<1> QED
  BY <1>1, <1>2 DEF Next, Ended

\* The invariant of the scheduler, with the three properties.
THEOREM SchedulerCorrect == Spec => []SchedulerInv
BY InitInv, NextInv, PTL DEF Spec

\* No work item is executed or freed twice, however many threads steal.
THEOREM EachTaskOnce == Spec => []RunsAtMostOnce
<1>1. SchedulerInv => RunsAtMostOnce
  BY DEF SchedulerInv
<1> QED
  BY <1>1, SchedulerCorrect, PTL

\* join_count is exactly the number of tasks that are queued or in hand.
THEOREM CountExact == Spec => []CountIsOutstanding
<1>1. SchedulerInv => CountIsOutstanding
  BY DEF SchedulerInv
<1> QED
  BY <1>1, SchedulerCorrect, PTL

\* Nobody decrements join_count after the continuation has been freed, and
\* nobody executes a work item that has been freed: who still holds a task is
\* counted, so that the count is not zero and the continuation has not run.
THEOREM ContinuationAlive == Spec => []NoUseAfterFree
<1>1. SchedulerInv => NoUseAfterFree
  <2> SUFFICES ASSUME SchedulerInv, NEW t \in Threads
               PROVE  /\ pc[t] = "join" => DoneWork \notin freed
                      /\ pc[t] = "run" => work[t] \notin freed
    BY DEF NoUseAfterFree
  <2>1. CASE pc[t] = "join"
    <3>1. t \in Holders
      BY <2>1 DEF SchedulerInv, SchedulerTypeOK, Holders, InHand
    <3>2. Cardinality(Holders) # 0
      BY <3>1, Finite, FS_EmptySet
    <3>3. join_count > 0
      BY <3>2, Finite DEF SchedulerInv, CountIsOutstanding
    <3> QED
      BY <2>1, <3>3 DEF SchedulerInv, ContinuesOnce, RunLater
  <2>2. CASE pc[t] = "run"
    BY <2>2 DEF SchedulerInv, RunLater
  <2> QED
    BY <2>1, <2>2
<1> QED
  BY <1>1, SchedulerCorrect, PTL
=============================================================================
