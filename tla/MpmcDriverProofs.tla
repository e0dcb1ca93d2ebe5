-------------------------- MODULE MpmcDriverProofs --------------------------
(***************************************************************************)
(* Theorems about main and the threads of quiz2/test2/mpmc.c, for any      *)
(* number of threads, of rounds and of items: every handle is registered   *)
(* before it is looked for, the barriers keep the rounds apart, and every  *)
(* number arrives in every round.                                          *)
(***************************************************************************)
EXTENDS MpmcDriver, FiniteSetTheorems, WellFoundedInduction, TLAPS

-----------------------------------------------------------------------------
(* The inductive invariant *)

\* Producers and consumers have barriers and places of their own and behave
\* alike, as far as these are concerned.
Kinds == {"producer", "consumer"}
Members(kind) == {kind} \X Index
Door(kind) == IF kind = "producer" THEN "enq" ELSE "deq"
Gate(kind) == IF kind = "producer" THEN "prod" ELSE "cons"
Ready(kind) == IF kind = "producer" THEN "enqueue" ELSE "dequeue"
Inside(kind) == IF kind = "producer" THEN {"enqueuing"} ELSE {"dequeuing", "store"}

Unregistered == {"none", "register", "register_cas"}
Arriving == Unregistered \cup {"registered"}
MainLabels == {"create", "round", "go", "produce", "consume", "verify", "end"}
Labels(kind) == Arriving \cup {"start", Ready(kind)} \cup Inside(kind)

DriverTypeOK ==
    /\ setup \in Setups
    /\ round \in 0 .. ROUNDS
    /\ put_index \in Nat /\ pop_index \in Nat
    /\ ticket \in [Producers \cup Consumers -> Nat \cup {NULL}]
    /\ putAt \in [0 .. MaxTicket -> (1 .. Amount) \cup {NULL}]
    /\ gotAt \in [0 .. MaxTicket -> (1 .. Amount) \cup {NULL}]
    /\ handles \in [Kinds -> [Slots -> Producers \cup Consumers \cup {NULL}]]
    /\ waiting \in [{"enq", "deq", "prod", "cons"} -> SUBSET Threads]
    /\ array \subseteq 1 .. Amount
    /\ i \in [Threads -> Nat]
    /\ value \in [Consumers -> Nat \cup {NULL}]
    /\ pc \in [Threads -> MainLabels \cup Labels("producer") \cup Labels("consumer")]
    /\ pc[Main] \in MainLabels
    /\ \A kind \in Kinds : \A t \in Members(kind) : pc[t] \in Labels(kind)

\* The threads of a kind are let into the round, or have ended it.
Open(kind) ==
    IF kind = "producer"
      THEN \/ pc[Main] = "produce" /\ Main \notin waiting["prod"]
           \/ pc[Main] = "consume" /\ Main \in waiting["prod"]
      ELSE \/ pc[Main] = "go" /\ Main \notin waiting["cons"]
           \/ pc[Main] \in {"produce", "consume"}
           \/ pc[Main] = "verify" /\ Main \in waiting["cons"]

Finished(kind) ==
    IF kind = "producer"
      THEN \/ pc[Main] = "consume" /\ Main \notin waiting["prod"]
           \/ pc[Main] = "verify"
      ELSE pc[Main] = "verify" /\ Main \notin waiting["cons"]

MainOK ==
    /\ Main \in waiting["cons"] => pc[Main] \in {"go", "verify"}
    /\ Main \in waiting["prod"] => pc[Main] \in {"produce", "consume"}
    /\ pc[Main] # "end" => round < ROUNDS

\* The barrier of the registration opens once: when everybody is registered.
DoorOK(kind) ==
    \/ /\ \A t \in Members(kind) :
             pc[t] \in Arriving \/ (pc[t] = "start" /\ t \in waiting[Door(kind)])
       /\ \A t \in waiting[Door(kind)] : t \in Members(kind) /\ pc[t] = "start"
    \/ \A t \in Members(kind) : pc[t] \notin Arriving

\* The barrier of the rounds: while the round is open, those who have ended it
\* wait; otherwise those who want to begin it do.
GateOK(kind) ==
    /\ waiting[Gate(kind)] \subseteq Members(kind) \cup {Main}
    /\ \A t \in Members(kind) :
          /\ Open(kind) =>
                /\ pc[t] \notin Arriving
                /\ t \in waiting[Gate(kind)] <=> pc[t] = "start"
          /\ ~Open(kind) =>
                /\ pc[t] \notin Inside(kind)
                /\ Finished(kind) => pc[t] \notin Arriving
                /\ t \in waiting[Gate(kind)] <=> pc[t] = Ready(kind)
                /\ pc[t] = Ready(kind) => i[t] = 0

\* The slots are filled from the first on, each by a thread of its own, and a
\* thread looks for one behind those that it has found taken.
SlotsOK(kind) ==
    /\ \A s \in Slots : handles[kind][s] # NULL =>
          /\ handles[kind][s] \in Members(kind)
          /\ pc[handles[kind][s]] \notin Unregistered
          /\ \A r \in Slots : r < s => handles[kind][r] \notin {NULL, handles[kind][s]}
    /\ \A t \in Members(kind) :
          /\ pc[t] \in Unregistered =>
                i[t] \in Index /\ \A s \in 0 .. i[t] - 1 : handles[kind][s] # NULL
          /\ pc[t] \notin Unregistered => \E s \in Slots : handles[kind][s] = t

\* How many tickets t has drawn in this round; the tickets of all threads.
Drawn(kind, t) ==
    IF Open(kind)
      THEN IF pc[t] = "start" THEN COUNTS_PER_THREAD
           ELSE IF pc[t] \in Inside(kind) THEN i[t] + 1 ELSE i[t]
      ELSE IF Finished(kind) THEN COUNTS_PER_THREAD ELSE 0

AllDrawn(kind) ==
    {d \in Members(kind) \X (0 .. COUNTS_PER_THREAD - 1) : d[2] < Drawn(kind, d[1])}

\* The first ticket of the round.
Base == round * Amount

CountOK ==
    /\ put_index = Base + Cardinality(AllDrawn("producer"))
    /\ pop_index = Base + Cardinality(AllDrawn("consumer"))
    /\ \A kind \in Kinds : \A t \in Members(kind) : Drawn(kind, t) <= COUNTS_PER_THREAD

TicketOK ==
    /\ \A p \in Producers :
          /\ pc[p] = "enqueuing" => ticket[p] \in Base .. put_index - 1
          /\ pc[p] # "enqueuing" => ticket[p] = NULL
    /\ \A p, r \in Producers :
          p # r /\ pc[p] = "enqueuing" /\ pc[r] = "enqueuing" => ticket[p] # ticket[r]
    /\ \A c \in Consumers :
          /\ pc[c] = "dequeuing" => ticket[c] \in Base .. pop_index - 1
          /\ pc[c] # "dequeuing" => ticket[c] = NULL
    /\ \A k \in 0 .. MaxTicket :
          /\ putAt[k] # NULL => k < put_index
          /\ gotAt[k] # NULL => gotAt[k] = putAt[k]

\* The tickets of this round hold the items that the producers have put.
ItemOf(p, j) == 1 + j + p[2] * COUNTS_PER_THREAD

IsPut(n) == \E k \in Base .. put_index - 1 : putAt[k] = n

ItemsOK ==
    \A p \in Producers : \A j \in 0 .. COUNTS_PER_THREAD - 1 :
       j < Drawn("producer", p) =>
          IsPut(ItemOf(p, j)) \/ (pc[p] = "enqueuing" /\ j = i[p] /\ ~Put(p))

\* What a ticket of this round gave is in the array, or a consumer has it.
IsGot(n) == \E k \in Base .. pop_index - 1 : gotAt[k] = n /\ n # NULL

ArrayOK ==
    /\ \A k \in Base .. pop_index - 1 :
          \/ gotAt[k] # NULL /\ gotAt[k] \in array
          \/ \E c \in Consumers :
                \/ pc[c] = "dequeuing" /\ ticket[c] = k
                \/ pc[c] = "store" /\ gotAt[k] # NULL /\ value[c] = gotAt[k]
    /\ \A n \in array : IsGot(n)
    /\ \A c \in Consumers : pc[c] = "store" => IsGot(value[c])

\* When the round is over, every number is in the array.
VerifiedOK == Finished("consumer") => 1 .. Amount \subseteq array

DriverInv ==
    /\ DriverTypeOK /\ MainOK
    /\ (\A kind \in Kinds : DoorOK(kind) /\ GateOK(kind) /\ SlotsOK(kind))
    /\ CountOK /\ TicketOK /\ ItemsOK /\ ArrayOK /\ VerifiedOK

-----------------------------------------------------------------------------
(* Arithmetic and counting *)

LEMMA Parameters ==
    ASSUME DriverTypeOK
    PROVE  /\ N_THREADS \in Nat \ {0} /\ N_HANDLES \in Nat /\ N_THREADS < N_HANDLES
           /\ COUNTS_PER_THREAD \in Nat /\ ROUNDS \in Nat \ {0} /\ Amount \in Nat
           /\ round \in Nat /\ Base \in Nat /\ MaxTicket \in Nat
<1>1. /\ N_THREADS \in Nat \ {0} /\ N_HANDLES \in Nat /\ N_THREADS < N_HANDLES
      /\ COUNTS_PER_THREAD \in Nat /\ ROUNDS \in Nat \ {0} /\ MaxTicket \in Nat
  BY DriverAssumption DEF DriverTypeOK, COUNTS_PER_THREAD, ROUNDS
<1>2. Amount \in Nat
  BY <1>1 DEF Amount
<1>3. round \in Nat
  BY <1>1 DEF DriverTypeOK
<1>4. Base \in Nat
  BY <1>2, <1>3 DEF Base
<1> QED
  BY <1>1, <1>2, <1>3, <1>4

LEMMA Products ==
    ASSUME NEW a \in Nat, NEW b \in Nat, NEW c \in Nat, a <= b
    PROVE  a * c \in Nat /\ a * c <= b * c /\ (a + 1) * c = a * c + c
<1>1. \A x, y \in Nat : x * y \in Nat
  OBVIOUS
<1>2. (b - a) \in Nat /\ (b - a) * c \in Nat /\ (b - a) * c = b * c - a * c
  BY <1>1
<1> QED
  BY <1>1, <1>2

\* There are tickets for another round.
LEMMA RoomForRound ==
    ASSUME DriverTypeOK, round < ROUNDS PROVE Base + Amount <= MaxTicket
<1>1. N_THREADS * COUNTS_PER_THREAD * ROUNDS <= MaxTicket
  BY DriverAssumption DEF DriverTypeOK, COUNTS_PER_THREAD, ROUNDS
<1>2. round + 1 \in Nat /\ round + 1 <= ROUNDS /\ Amount \in Nat /\ ROUNDS \in Nat /\ round \in Nat
  BY Parameters
<1>3. (round + 1) * Amount <= ROUNDS * Amount /\ (round + 1) * Amount = Base + Amount
  <2>1. round <= round + 1
    BY <1>2
  <2> QED
    BY <1>2, <2>1, Products DEF Base
<1>4. ROUNDS * Amount = N_THREADS * COUNTS_PER_THREAD * ROUNDS
  BY Parameters DEF Amount
<1> QED
  BY <1>1, <1>3, <1>4, Parameters

LEMMA MembersFinite ==
    ASSUME NEW kind \in Kinds
    PROVE  /\ IsFiniteSet(Members(kind)) /\ Cardinality(Members(kind)) = N_THREADS
           /\ IsFiniteSet(Members(kind) \cup {Main})
           /\ Cardinality(Members(kind) \cup {Main}) = N_THREADS + 1
           /\ Main \notin Members(kind)
<1>1. N_THREADS \in Nat \ {0}
  BY DriverAssumption
<1>2. IsFiniteSet(Index) /\ Cardinality(Index) = N_THREADS
  BY <1>1, FS_Interval DEF Index
<1>3. IsFiniteSet({kind}) /\ Cardinality({kind}) = 1
  BY FS_Singleton
<1>4. IsFiniteSet(Members(kind)) /\ Cardinality(Members(kind)) = N_THREADS
  BY <1>1, <1>2, <1>3, FS_Product DEF Members
<1>5. Main \notin Members(kind)
  BY DEF Main, Members, Kinds
<1> QED
  BY <1>1, <1>4, <1>5, FS_AddElement

\* The last of a barrier's threads has come: all are there.
LEMMA LastOfAll ==
    ASSUME NEW S, IsFiniteSet(S), NEW W \in SUBSET S, NEW t \in S, t \notin W
    PROVE  Cardinality(W) + 1 = Cardinality(S) <=> W \cup {t} = S
<1>1. IsFiniteSet(W) /\ W \cup {t} \in SUBSET S
  BY FS_Subset
<1>2. Cardinality(W \cup {t}) = Cardinality(W) + 1
  BY <1>1, FS_AddElement
<1> QED
  BY <1>1, <1>2, FS_Subset

\* A set of numbers has a least one.
LEMMA LeastExists ==
    ASSUME NEW S, S \subseteq Nat, S # {}
    PROVE  \E x \in S : \A y \in S : x <= y
<1> DEFINE R == OpToRel(<, Nat)
<1>1. IsWellFoundedOn(R, Nat)
  BY NatLessThanWellFounded
<1> HIDE DEF R
<1>2. PICK x \in S : \A y \in S : ~ (<<y, x>> \in R)
  BY <1>1, WFMin
<1>3. \A y \in S : y < x => <<y, x>> \in R
  BY DEF R, OpToRel
<1>4. \A y \in S : ~(y < x)
  BY <1>2, <1>3
<1> QED
  BY <1>4

\* The items of a round are the numbers up to Amount.
LEMMA ItemsAreNumbers ==
    ASSUME DriverTypeOK
    PROVE  /\ \A p \in Producers : \A j \in 0 .. COUNTS_PER_THREAD - 1 : ItemOf(p, j) \in 1 .. Amount
           /\ \A n \in 1 .. Amount : \E p \in Producers : \E j \in 0 .. COUNTS_PER_THREAD - 1 :
                 n = ItemOf(p, j)
<1>1. PICK C \in Nat, N \in Nat \ {0} : C = COUNTS_PER_THREAD /\ N = N_THREADS
  BY Parameters
<1>2. Amount = N * C
  BY <1>1 DEF Amount
<1>3. ASSUME NEW p \in Producers, NEW j \in 0 .. COUNTS_PER_THREAD - 1
      PROVE  ItemOf(p, j) \in 1 .. Amount
  <2>1. PICK k \in Nat : k = p[2] /\ k <= N - 1
    BY <1>1 DEF Producers, Index
  <2>2. k * C \in Nat /\ (k + 1) * C = k * C + C /\ (k + 1) * C <= N * C
    <3>1. k <= k + 1 /\ k + 1 \in Nat /\ k + 1 <= N
      BY <1>1, <2>1
    <3> QED
      BY <1>1, <2>1, <3>1, Products
  <2>3. N * C \in Nat
    BY <1>1, Products
  <2>4. PICK K \in Nat, M \in Nat : K = k * C /\ M = N * C /\ K + C <= M
    BY <2>2, <2>3
  <2>5. 1 + j + K \in 1 .. M
    BY <1>1, <2>4
  <2> QED
    BY <1>1, <1>2, <2>1, <2>4, <2>5 DEF ItemOf
<1>4. ASSUME NEW n \in 1 .. Amount
      PROVE  \E p \in Producers : \E j \in 0 .. COUNTS_PER_THREAD - 1 : n = ItemOf(p, j)
  <2> DEFINE S == {q \in Nat : n <= (q + 1) * C}
  <2>1. N - 1 \in S
    <3>1. N - 1 \in Nat /\ (N - 1) + 1 = N
      BY <1>1
    <3> QED
      BY <1>2, <3>1
  <2>2. PICK q \in S : \A r \in S : q <= r
    BY <2>1, LeastExists
  <2>3. q \in Nat /\ q <= N - 1 /\ n <= (q + 1) * C
    BY <2>1, <2>2
  <2>4. q * C < n
    <3>1. CASE q = 0
      BY <1>1, <3>1, <1>2, Products
    <3>2. CASE q # 0
      <4>1. q - 1 \in Nat /\ (q - 1) + 1 = q /\ ~(q <= q - 1)
        BY <2>3, <3>2
      <4>2. q - 1 \notin S
        BY <2>2, <4>1
      <4>3. q * C \in Nat
        BY <1>1, <2>3, Products
      <4> QED
        BY <4>1, <4>2, <4>3, Parameters
    <3> QED
      BY <3>1, <3>2
  <2>5. (q + 1) * C = q * C + C /\ q * C \in Nat
    <3>1. q <= q + 1 /\ q + 1 \in Nat
      BY <2>3
    <3> QED
      BY <1>1, <2>3, <3>1, Products
  <2>6. PICK Q \in Nat : Q = q * C /\ Q < n /\ n <= Q + C /\ n \in Nat
    BY <2>3, <2>4, <2>5, Parameters
  <2>7. n - 1 - Q \in 0 .. C - 1 /\ n = 1 + (n - 1 - Q) + Q
    BY <1>1, <2>6
  <2>8. <<"producer", q>> \in Producers /\ <<"producer", q>>[2] = q
    BY <1>1, <2>3 DEF Producers, Index
  <2>9. n = ItemOf(<<"producer", q>>, n - 1 - Q)
    BY <1>1, <2>6, <2>7, <2>8 DEF ItemOf
  <2> QED
    BY <1>1, <2>7, <2>8, <2>9
<1> QED
  BY <1>3, <1>4

-----------------------------------------------------------------------------
(* The barriers of the rounds *)

LEMMA MemberFacts ==
    ASSUME NEW kind \in Kinds, NEW t \in Members(kind)
    PROVE  /\ t \in Threads /\ t # Main /\ t \in Producers \cup Consumers /\ t[1] = kind
           /\ kind = "producer" <=> t \in Producers
           /\ kind = "consumer" <=> t \in Consumers
BY DEF Kinds, Members, Threads, Producers, Consumers, Main

\* The labels of a kind are different.
LEMMA LabelFacts ==
    ASSUME NEW kind \in Kinds
    PROVE  /\ "start" \notin Inside(kind) /\ "start" \notin Arriving /\ "start" # Ready(kind)
           /\ Ready(kind) \notin Inside(kind) /\ Ready(kind) \notin Arriving
           /\ \A l \in Inside(kind) : l \notin Arriving
           /\ Unregistered \subseteq Arriving /\ "registered" \in Arriving \ Unregistered
           /\ Door(kind) # Gate(kind)
           /\ Door(kind) \in {"enq", "deq"} /\ Gate(kind) \in {"prod", "cons"}
BY DEF Kinds, Inside, Ready, Arriving, Unregistered, Door, Gate

\* t comes to the gate of a closed round: as one of several, or as the last.
LEMMA GateFirst ==
    ASSUME DriverInv, NEW kind \in Kinds, NEW t \in Members(kind) \cup {Main}, NEW to,
           pc' = [pc EXCEPT ![t] = to], i' = [i EXCEPT ![t] = 0],
           waiting'[Door(kind)] = waiting[Door(kind)], UNCHANGED setup,
           t \in Members(kind) => pc[t] = "start" /\ to = Ready(kind) /\ t \notin waiting[Door(kind)],
           ~Open(kind),
           \/ /\ waiting'[Gate(kind)] = waiting[Gate(kind)] \cup {t}
              /\ ~Open(kind)' /\ (Finished(kind)' <=> Finished(kind))
           \/ /\ waiting[Gate(kind)] \cup {t} = Members(kind) \cup {Main}
              /\ waiting'[Gate(kind)] = {} /\ Open(kind)' /\ ~Finished(kind)
    PROVE  /\ DoorOK(kind)' /\ GateOK(kind)'
           /\ \A u \in Members(kind) :
                 /\ Drawn(kind, u)' = Drawn(kind, u)
                 /\ pc'[u] \in Inside(kind) <=> pc[u] \in Inside(kind)
                 /\ pc[u] \in Inside(kind) => pc'[u] = pc[u] /\ i'[u] = i[u]
<1>1. \A u \in Members(kind) : /\ u # t => pc'[u] = pc[u] /\ i'[u] = i[u]
                               /\ u = t => pc'[u] = Ready(kind) /\ i'[u] = 0 /\ pc[u] = "start"
  BY MemberFacts DEF DriverInv, DriverTypeOK
<1>2. GateOK(kind) /\ DoorOK(kind)
  BY DEF DriverInv
<1>3. DoorOK(kind)'
  <2>1. CASE \A u \in Members(kind) : pc[u] \notin Arriving
    <3>1. \A u \in Members(kind) : pc'[u] \notin Arriving
      BY <1>1, <2>1, LabelFacts
    <3> QED
      BY <3>1 DEF DoorOK
  <2>2. CASE /\ \A u \in Members(kind) :
                   pc[u] \in Arriving \/ (pc[u] = "start" /\ u \in waiting[Door(kind)])
             /\ \A u \in waiting[Door(kind)] : u \in Members(kind) /\ pc[u] = "start"
    <3>1. t \notin Members(kind) /\ t \notin waiting[Door(kind)]
      BY <2>2, LabelFacts
    <3>2. \A u \in Members(kind) : pc'[u] = pc[u]
      BY <1>1, <3>1
    <3> QED
      BY <2>2, <3>2 DEF DoorOK
  <2> QED
    BY <1>2, <2>1, <2>2 DEF DoorOK
<1>4. CASE /\ waiting'[Gate(kind)] = waiting[Gate(kind)] \cup {t}
           /\ ~Open(kind)' /\ (Finished(kind)' <=> Finished(kind))
  <2>1. GateOK(kind)'
    <3>1. waiting'[Gate(kind)] \subseteq Members(kind) \cup {Main}
      BY <1>2, <1>4 DEF GateOK
    <3>2. ASSUME NEW u \in Members(kind)
          PROVE  /\ pc'[u] \notin Inside(kind)
                 /\ Finished(kind) => pc'[u] \notin Arriving
                 /\ u \in waiting'[Gate(kind)] <=> pc'[u] = Ready(kind)
                 /\ pc'[u] = Ready(kind) => i'[u] = 0
      BY <1>1, <1>2, <1>4, LabelFacts DEF GateOK
    <3> QED
      BY <1>4, <3>1, <3>2 DEF GateOK
  <2>2. \A u \in Members(kind) : Drawn(kind, u)' = Drawn(kind, u)
    BY <1>4 DEF Drawn, COUNTS_PER_THREAD
  <2>3. \A u \in Members(kind) : pc[u] \notin Inside(kind) /\ pc'[u] \notin Inside(kind)
    BY <1>1, <1>2, LabelFacts DEF GateOK
  <2> QED
    BY <1>3, <2>1, <2>2, <2>3
<1>5. CASE /\ waiting[Gate(kind)] \cup {t} = Members(kind) \cup {Main}
           /\ waiting'[Gate(kind)] = {} /\ Open(kind)' /\ ~Finished(kind)
  <2>1. \A u \in Members(kind) : pc'[u] = Ready(kind) /\ i'[u] = 0 /\ pc[u] \notin Inside(kind)
    BY <1>1, <1>2, <1>5, LabelFacts DEF GateOK
  <2>2. GateOK(kind)'
    BY <1>5, <2>1, LabelFacts DEF GateOK
  <2>3. \A u \in Members(kind) : Drawn(kind, u)' = Drawn(kind, u)
    BY <1>5, <2>1, LabelFacts DEF Drawn
  <2> QED
    BY <1>3, <2>1, <2>2, <2>3, LabelFacts
<1> QED
  BY <1>4, <1>5

\* t comes to the gate of an open round.
LEMMA GateSecond ==
    ASSUME DriverInv, NEW kind \in Kinds, NEW t \in Members(kind) \cup {Main}, NEW to,
           pc' = [pc EXCEPT ![t] = to], i' = [i EXCEPT ![t] = 0], UNCHANGED setup,
           t \in Members(kind) => pc[t] = Ready(kind) /\ to = "start" /\ i[t] = COUNTS_PER_THREAD,
           Open(kind), ~Finished(kind)',
           \/ waiting'[Gate(kind)] = waiting[Gate(kind)] \cup {t} /\ Open(kind)'
    PROVE  /\ DoorOK(kind)' /\ GateOK(kind)'
           /\ \A u \in Members(kind) :
                 /\ Drawn(kind, u)' = Drawn(kind, u)
                 /\ pc'[u] \in Inside(kind) <=> pc[u] \in Inside(kind)
                 /\ pc[u] \in Inside(kind) => pc'[u] = pc[u] /\ i'[u] = i[u]
<1>1. \A u \in Members(kind) : /\ u # t => pc'[u] = pc[u] /\ i'[u] = i[u]
                               /\ u = t => pc'[u] = "start" /\ pc[u] = Ready(kind) /\ i[u] = COUNTS_PER_THREAD
  BY MemberFacts DEF DriverInv, DriverTypeOK
<1>2. GateOK(kind)
  BY DEF DriverInv
<1>3. \A u \in Members(kind) : pc'[u] \notin Arriving
  BY <1>1, <1>2, LabelFacts DEF GateOK
<1>4. GateOK(kind)'
  <2>1. waiting'[Gate(kind)] \subseteq Members(kind) \cup {Main}
    BY <1>2 DEF GateOK
  <2>2. ASSUME NEW u \in Members(kind) PROVE u \in waiting'[Gate(kind)] <=> pc'[u] = "start"
    BY <1>1, <1>2, LabelFacts DEF GateOK
  <2> QED
    BY <1>3, <2>1, <2>2 DEF GateOK
<1>5. \A u \in Members(kind) : Drawn(kind, u)' = Drawn(kind, u)
  BY <1>1, LabelFacts DEF Drawn, COUNTS_PER_THREAD
<1> QED
  BY <1>1, <1>3, <1>4, <1>5, LabelFacts DEF DoorOK

\* t is the last: the round is closed.
LEMMA GateLast ==
    ASSUME DriverInv, NEW kind \in Kinds, NEW t \in Members(kind) \cup {Main}, NEW to,
           pc' = [pc EXCEPT ![t] = to], i' = [i EXCEPT ![t] = 0], UNCHANGED setup,
           t \in Members(kind) => pc[t] = Ready(kind) /\ to = "start" /\ i[t] = COUNTS_PER_THREAD,
           Open(kind), waiting[Gate(kind)] \cup {t} = Members(kind) \cup {Main},
           waiting'[Gate(kind)] = {}, ~Open(kind)', Finished(kind)'
    PROVE  /\ DoorOK(kind)' /\ GateOK(kind)'
           /\ \A u \in Members(kind) :
                 /\ Drawn(kind, u)' = Drawn(kind, u) /\ Drawn(kind, u) = COUNTS_PER_THREAD
                 /\ pc'[u] \in Inside(kind) <=> pc[u] \in Inside(kind)
                 /\ pc[u] \notin Inside(kind)
<1>1. \A u \in Members(kind) : /\ u # t => pc'[u] = pc[u] /\ i'[u] = i[u]
                               /\ u = t => pc'[u] = "start" /\ pc[u] = Ready(kind) /\ i[u] = COUNTS_PER_THREAD
  BY MemberFacts DEF DriverInv, DriverTypeOK
<1>2. GateOK(kind)
  BY DEF DriverInv
<1>3. \A u \in Members(kind) : pc'[u] = "start" /\ (u = t \/ pc[u] = "start")
  BY <1>1, <1>2 DEF GateOK
<1>4. GateOK(kind)' /\ DoorOK(kind)'
  BY <1>3, LabelFacts DEF GateOK, DoorOK
<1>5. \A u \in Members(kind) : Drawn(kind, u) = COUNTS_PER_THREAD /\ Drawn(kind, u)' = COUNTS_PER_THREAD
  BY <1>1, <1>3, LabelFacts DEF Drawn, COUNTS_PER_THREAD
<1> QED
  BY <1>1, <1>3, <1>4, <1>5, LabelFacts

-----------------------------------------------------------------------------
(* Steps that leave the queue alone *)

\* Nobody of the kind draws a ticket, or goes in or out of an operation.
Stays(kind) ==
    \A u \in Members(kind) :
       /\ Drawn(kind, u)' = Drawn(kind, u)
       /\ pc'[u] \in Inside(kind) <=> pc[u] \in Inside(kind)
       /\ pc[u] \in Inside(kind) => pc'[u] = pc[u] /\ i'[u] = i[u]

LEMMA QueueStays ==
    ASSUME DriverInv, UNCHANGED <<queue, array, value, round>>,
           \A kind \in Kinds : Stays(kind)
    PROVE  CountOK' /\ TicketOK' /\ ItemsOK' /\ ArrayOK'
<1>1. "producer" \in Kinds /\ "consumer" \in Kinds
  BY DEF Kinds
<1>2. /\ setup' = setup /\ put_index' = put_index /\ pop_index' = pop_index /\ ticket' = ticket
      /\ putAt' = putAt /\ gotAt' = gotAt /\ array' = array /\ value' = value /\ round' = round
  BY DEF queue
<1>3. Base' = Base /\ Amount' = Amount /\ COUNTS_PER_THREAD' = COUNTS_PER_THREAD
  BY <1>2 DEF Base, Amount, COUNTS_PER_THREAD
<1>4. \A p \in Producers :
         /\ Drawn("producer", p)' = Drawn("producer", p)
         /\ pc'[p] = "enqueuing" <=> pc[p] = "enqueuing"
         /\ pc[p] = "enqueuing" => i'[p] = i[p]
  <2>1. Producers = Members("producer") /\ Inside("producer") = {"enqueuing"}
    BY DEF Producers, Members, Inside
  <2> QED
    BY <1>1, <2>1 DEF Stays
<1>5. \A c \in Consumers :
         /\ Drawn("consumer", c)' = Drawn("consumer", c)
         /\ pc'[c] = "dequeuing" <=> pc[c] = "dequeuing"
         /\ pc'[c] = "store" <=> pc[c] = "store"
  <2>1. Consumers = Members("consumer") /\ Inside("consumer") = {"dequeuing", "store"}
    BY DEF Consumers, Members, Inside
  <2>2. ASSUME NEW c \in Consumers
        PROVE  /\ Drawn("consumer", c)' = Drawn("consumer", c)
               /\ pc'[c] \in {"dequeuing", "store"} <=> pc[c] \in {"dequeuing", "store"}
               /\ pc[c] \in {"dequeuing", "store"} => pc'[c] = pc[c]
    BY <1>1, <2>1 DEF Stays
  <2> QED
    BY <2>2
<1>6. CountOK'
  <2>1. \A kind \in Kinds : AllDrawn(kind)' = AllDrawn(kind)
    <3> SUFFICES ASSUME NEW kind \in Kinds PROVE AllDrawn(kind)' = AllDrawn(kind)
      OBVIOUS
    <3>1. \A d \in Members(kind) \X (0 .. COUNTS_PER_THREAD - 1) :
             d[1] \in Members(kind) /\ Drawn(kind, d[1])' = Drawn(kind, d[1])
      BY DEF Stays
    <3> QED
      BY <1>3, <3>1 DEF AllDrawn
  <2>2. \A kind \in Kinds : \A t \in Members(kind) : Drawn(kind, t)' = Drawn(kind, t)
    BY DEF Stays
  <2> QED
    BY <1>1, <1>2, <1>3, <2>1, <2>2 DEF CountOK, DriverInv
<1>7. TicketOK'
  BY <1>2, <1>3, <1>4, <1>5 DEF TicketOK, DriverInv
<1>8. ItemsOK'
  <2>1. \A p \in Producers, j \in Nat : ItemOf(p, j)' = ItemOf(p, j)
    BY <1>3 DEF ItemOf
  <2>2. \A n : IsPut(n)' = IsPut(n)
    BY <1>2, <1>3 DEF IsPut
  <2>3. \A p \in Producers : Put(p)' = Put(p)
    BY <1>2 DEF Put
  <2> QED
    BY <1>3, <1>4, <2>1, <2>2, <2>3 DEF ItemsOK, DriverInv
<1>9. ArrayOK'
  <2>1. \A n : IsGot(n)' = IsGot(n)
    BY <1>2, <1>3 DEF IsGot
  <2> QED
    BY <1>2, <1>3, <1>5, <2>1 DEF ArrayOK, DriverInv
<1> QED
  BY <1>6, <1>7, <1>8, <1>9

\* All have drawn their tickets.
LEMMA AllHaveDrawn ==
    ASSUME DriverTypeOK, NEW kind \in Kinds, \A t \in Members(kind) : Drawn(kind, t) = COUNTS_PER_THREAD
    PROVE  Cardinality(AllDrawn(kind)) = Amount
<1>1. PICK C \in Nat : C = COUNTS_PER_THREAD
  BY Parameters DEF DriverInv
<1>2. AllDrawn(kind) = Members(kind) \X (0 .. C - 1)
  <2>1. \A d \in Members(kind) \X (0 .. C - 1) : Drawn(kind, d[1]) = C /\ d[2] < C
    BY <1>1
  <2> QED
    BY <1>1, <2>1 DEF AllDrawn
<1>3. IsFiniteSet(0 .. C - 1) /\ Cardinality(0 .. C - 1) = C
  BY <1>1, FS_Interval
<1>4. Cardinality(Members(kind) \X (0 .. C - 1)) = N_THREADS * C
  <2>1. IsFiniteSet(Members(kind)) /\ Cardinality(Members(kind)) = N_THREADS
    BY MembersFinite
  <2> HIDE DEF Members
  <2>2. Cardinality(Members(kind) \X (0 .. C - 1)) = Cardinality(Members(kind)) * Cardinality(0 .. C - 1)
    BY <1>3, <2>1, FS_Product
  <2> QED
    BY <1>3, <2>1, <2>2
<1> QED
  BY <1>1, <1>2, <1>4 DEF Amount

\* When nobody is inside, and all have drawn their tickets, the array holds
\* every number.
LEMMA RoundComplete ==
    ASSUME DriverInv, Finished("producer"),
           \A c \in Consumers : pc[c] \notin Inside("consumer") /\ Drawn("consumer", c) = COUNTS_PER_THREAD
    PROVE  1 .. Amount \subseteq array
<1>1. Consumers = Members("consumer") /\ Producers = Members("producer")
      /\ "producer" \in Kinds /\ "consumer" \in Kinds
  BY DEF Consumers, Producers, Members, Kinds
<1>2. \A p \in Producers : Drawn("producer", p) = COUNTS_PER_THREAD
  BY DEF Drawn, Finished, Open, DriverInv, MainOK
<1>3. Cardinality(AllDrawn("producer")) = Amount /\ Cardinality(AllDrawn("consumer")) = Amount
  BY <1>1, <1>2, AllHaveDrawn DEF DriverInv
<1>4. put_index = pop_index
  BY <1>3 DEF DriverInv, CountOK
<1> SUFFICES ASSUME NEW n \in 1 .. Amount PROVE n \in array
  OBVIOUS
<1>5. PICK p \in Producers, j \in 0 .. COUNTS_PER_THREAD - 1 : n = ItemOf(p, j)
  BY ItemsAreNumbers DEF DriverInv
<1>6. pc[p] # "enqueuing"
  <2>1. GateOK("producer")
    BY <1>1 DEF DriverInv
  <2>2. ~Open("producer")
    BY DEF Finished, Open, DriverInv, MainOK
  <2> QED
    BY <1>1, <2>1, <2>2 DEF GateOK, Inside
<1>7. IsPut(n)
  BY <1>2, <1>5, <1>6, Parameters DEF DriverInv, ItemsOK
<1>8. PICK k \in Base .. put_index - 1 : putAt[k] = n
  BY <1>7 DEF IsPut
<1>9. gotAt[k] # NULL /\ gotAt[k] \in array
  <2>1. \A c \in Consumers : pc[c] \notin {"dequeuing", "store"}
    BY DEF Inside
  <2> QED
    BY <1>4, <1>8, <2>1 DEF DriverInv, ArrayOK
<1>10. k \in 0 .. MaxTicket
  <2>1. gotAt[k] # NULL /\ Base \in Nat /\ k \in Nat /\ Base <= k
    BY <1>8, <1>9, Parameters DEF DriverInv, DriverTypeOK
  <2>2. Base + Amount <= MaxTicket
    BY RoomForRound DEF Finished, DriverInv, MainOK
  <2>3. put_index = Base + Amount
    BY <1>3 DEF DriverInv, CountOK
  <2> QED
    BY <1>8, <2>1, <2>2, <2>3, Parameters DEF DriverInv
<1>11. gotAt[k] = n
  BY <1>8, <1>9, <1>10 DEF DriverInv, TicketOK
<1> QED
  BY <1>9, <1>11

\* What a wait does to the barriers, S being the threads the barrier is for.
LEMMA WaitEffect ==
    ASSUME DriverInv, NEW S, NEW t \in S, NEW b \in {"enq", "deq", "prod", "cons"}, NEW from, NEW to,
           IsFiniteSet(S), Cardinality(S) = Size(b), waiting[b] \subseteq S, Wait(t, b, from, to)
    PROVE  /\ pc[t] = from /\ \A d \in {"enq", "deq", "prod", "cons"} : t \notin waiting[d]
           /\ pc' = [pc EXCEPT ![t] = to] /\ i' = [i EXCEPT ![t] = 0]
           /\ \A d \in {"enq", "deq", "prod", "cons"} : d # b => waiting'[d] = waiting[d]
           /\ waiting[b] \cup {t} = S => waiting'[b] = {}
           /\ waiting[b] \cup {t} # S => waiting'[b] = waiting[b] \cup {t}
           /\ waiting' \in [{"enq", "deq", "prod", "cons"} -> SUBSET (Threads \cup {t})]
           /\ UNCHANGED <<queue, array, value, round>> /\ UNCHANGED <<setup, handles>>
<1>1. waiting \in [{"enq", "deq", "prod", "cons"} -> SUBSET Threads]
  BY DEF DriverInv, DriverTypeOK
<1>2. pc[t] = from /\ \A d \in {"enq", "deq", "prod", "cons"} : t \notin waiting[d]
  BY <1>1 DEF Wait, At
<1>3. Cardinality(waiting[b]) + 1 = Size(b) <=> waiting[b] \cup {t} = S
  BY <1>2, LastOfAll
<1>4. waiting' = [waiting EXCEPT ![b] =
                     IF Cardinality(waiting[b]) + 1 = Size(b) THEN {} ELSE waiting[b] \cup {t}]
  BY DEF Wait
<1>5. /\ \A d \in {"enq", "deq", "prod", "cons"} : d # b => waiting'[d] = waiting[d]
      /\ waiting'[b] = IF Cardinality(waiting[b]) + 1 = Size(b) THEN {} ELSE waiting[b] \cup {t}
      /\ waiting' \in [{"enq", "deq", "prod", "cons"} -> SUBSET (Threads \cup {t})]
  BY <1>1, <1>4
<1> QED
  BY <1>2, <1>3, <1>5 DEF Wait, Goto, queue

\* A kind whose threads do not move, and whose phase stays.
LEMMA OtherStays ==
    ASSUME DriverInv, NEW kind \in Kinds, UNCHANGED setup,
           (Open(kind)' <=> Open(kind)), (Finished(kind)' <=> Finished(kind)),
           \A u \in Members(kind) : pc'[u] = pc[u] /\ i'[u] = i[u],
           waiting'[Gate(kind)] \subseteq waiting[Gate(kind)] \cup {Main},
           waiting[Gate(kind)] \subseteq waiting'[Gate(kind)] \cup {Main},
           waiting'[Door(kind)] = waiting[Door(kind)]
    PROVE  DoorOK(kind)' /\ GateOK(kind)' /\ Stays(kind)
<1>1. DoorOK(kind)'
  <2>1. DoorOK(kind)
    BY DEF DriverInv
  <2>2. CASE \A u \in Members(kind) : pc[u] \notin Arriving
    BY <2>2 DEF DoorOK
  <2>3. CASE /\ \A u \in Members(kind) :
                   pc[u] \in Arriving \/ (pc[u] = "start" /\ u \in waiting[Door(kind)])
             /\ \A u \in waiting[Door(kind)] : u \in Members(kind) /\ pc[u] = "start"
    BY <2>3 DEF DoorOK
  <2> QED
    BY <2>1, <2>2, <2>3 DEF DoorOK
<1>2. GateOK(kind)'
  <2>1. \A u \in Members(kind) : u \in waiting'[Gate(kind)] <=> u \in waiting[Gate(kind)]
    BY MemberFacts
  <2>2. GateOK(kind)
    BY DEF DriverInv
  <2>3. waiting'[Gate(kind)] \subseteq Members(kind) \cup {Main}
    BY <2>2 DEF GateOK
  <2>4. ASSUME NEW u \in Members(kind)
        PROVE  /\ Open(kind) => pc'[u] \notin Arriving /\ (u \in waiting'[Gate(kind)] <=> pc'[u] = "start")
               /\ ~Open(kind) =>
                     /\ pc'[u] \notin Inside(kind)
                     /\ Finished(kind) => pc'[u] \notin Arriving
                     /\ u \in waiting'[Gate(kind)] <=> pc'[u] = Ready(kind)
                     /\ pc'[u] = Ready(kind) => i'[u] = 0
    BY <2>1, <2>2 DEF GateOK
  <2> QED
    BY <2>3, <2>4 DEF GateOK
<1>3. Stays(kind)
  BY DEF Stays, Drawn, COUNTS_PER_THREAD
<1> QED
  BY <1>1, <1>2, <1>3

\* Nobody of the kind comes to a slot or takes one.
LEMMA SlotsStay ==
    ASSUME DriverInv, NEW kind \in Kinds, handles'[kind] = handles[kind],
           \A u \in Members(kind) :
              /\ pc'[u] \in Unregistered <=> pc[u] \in Unregistered
              /\ pc[u] \in Unregistered => i'[u] = i[u]
    PROVE  SlotsOK(kind)'
<1>1. SlotsOK(kind)
  BY DEF DriverInv
<1>2. \A s \in Slots : handles'[kind][s] # NULL =>
          /\ handles'[kind][s] \in Members(kind)
          /\ pc'[handles'[kind][s]] \notin Unregistered
          /\ \A r \in Slots : r < s => handles'[kind][r] \notin {NULL, handles'[kind][s]}
  BY <1>1 DEF SlotsOK
<1>3. \A t \in Members(kind) :
          /\ pc'[t] \in Unregistered =>
                i'[t] \in Index /\ \A s \in 0 .. i'[t] - 1 : handles'[kind][s] # NULL
          /\ pc'[t] \notin Unregistered => \E s \in Slots : handles'[kind][s] = t
  BY <1>1 DEF SlotsOK
<1> QED
  BY <1>2, <1>3 DEF SlotsOK

\* The ways to a barrier of the rounds.
Comes(kind, t, from, to) ==
    \/ t \in Members(kind) /\ from = "start" /\ to = Ready(kind)
    \/ t \in Members(kind) /\ from = Ready(kind) /\ to = "start" /\ i[t] = COUNTS_PER_THREAD
    \/ t = Main /\ kind = "consumer" /\ from = "round" /\ to = "go"
    \/ t = Main /\ kind = "producer" /\ from = "go" /\ to = "produce"
    \/ t = Main /\ kind = "producer" /\ from = "produce" /\ to = "consume"
    \/ t = Main /\ kind = "consumer" /\ from = "consume" /\ to = "verify"

\* t is the last to come to the barrier of its kind.
Completes(kind, t) == waiting[Gate(kind)] \cup {t} = Members(kind) \cup {Main}

LEMMA GateWay ==
    ASSUME DriverInv, NEW kind \in Kinds, NEW t \in Members(kind), NEW from, NEW to,
           Comes(kind, t, from, to), pc[t] = from, t \notin waiting[Gate(kind)]
    PROVE  \/ from = "start" /\ to = Ready(kind) /\ ~Open(kind)
           \/ from = Ready(kind) /\ to = "start" /\ i[t] = COUNTS_PER_THREAD /\ Open(kind)
<1>1. GateOK(kind) /\ t # Main
  BY MemberFacts DEF DriverInv
<1>2. CASE Open(kind)
  BY <1>1, <1>2, LabelFacts DEF GateOK, Comes
<1>3. CASE ~Open(kind)
  BY <1>1, <1>3, LabelFacts DEF GateOK, Comes
<1> QED
  BY <1>2, <1>3

\* Which phase a barrier of the rounds ends, and that the other kind is not
\* concerned.
LEMMA GatePhase ==
    ASSUME DriverInv, NEW kind \in Kinds, NEW other \in Kinds \ {kind},
           NEW t \in Members(kind) \cup {Main}, NEW from, NEW to, Comes(kind, t, from, to),
           pc[t] = from, \A d \in {"prod", "cons"} : t \notin waiting[d],
           pc' = [pc EXCEPT ![t] = to], waiting'[Gate(other)] = waiting[Gate(other)],
           UNCHANGED round, UNCHANGED setup,
           waiting'[Gate(kind)] = IF Completes(kind, t) THEN {} ELSE waiting[Gate(kind)] \cup {t}
    PROVE  /\ MainOK' /\ (Open(other)' <=> Open(other)) /\ (Finished(other)' <=> Finished(other))
           /\ ~Open(kind) => /\ t \in Members(kind) => from = "start" /\ to = Ready(kind)
                             /\ ~Completes(kind, t) => ~Open(kind)' /\ (Finished(kind)' <=> Finished(kind))
                             /\ Completes(kind, t) => Open(kind)' /\ ~Finished(kind)
           /\ Open(kind) => /\ t \in Members(kind) =>
                                  from = Ready(kind) /\ to = "start" /\ i[t] = COUNTS_PER_THREAD
                            /\ ~Finished(kind)'  \/ Completes(kind, t)
                            /\ ~Completes(kind, t) => Open(kind)'
                            /\ Completes(kind, t) => ~Open(kind)' /\ Finished(kind)'
<1>1. /\ pc \in [Threads -> MainLabels \cup Labels("producer") \cup Labels("consumer")]
      /\ Main \in Threads /\ t \in Threads /\ MainOK /\ ROUNDS' = ROUNDS
  BY MemberFacts DEF DriverInv, DriverTypeOK, Threads, ROUNDS
<1>2. /\ t = Main => pc'[Main] = to /\ pc[Main] = from
      /\ t # Main => pc'[Main] = pc[Main]
      /\ t \in Members(kind) <=> t # Main
  BY <1>1, MemberFacts
<1>3. Completes(kind, t) => t = Main \/ Main \in waiting[Gate(kind)]
  BY DEF Completes
<1>4. Main \in waiting'[Gate(kind)] <=> ~Completes(kind, t) /\ (t = Main \/ Main \in waiting[Gate(kind)])
  OBVIOUS
<1>5. t \in Members(kind) => \/ from = "start" /\ to = Ready(kind) /\ ~Open(kind)
                             \/ from = Ready(kind) /\ to = "start" /\ i[t] = COUNTS_PER_THREAD /\ Open(kind)
  BY LabelFacts, GateWay
<1>6. CASE kind = "producer"
  <2>1. other = "consumer" /\ Gate(kind) = "prod" /\ Gate(other) = "cons"
    BY <1>6 DEF Kinds, Gate
  <2>2. CASE t # Main
    BY <1>1, <1>2, <1>3, <1>4, <1>5, <1>6, <2>1, <2>2 DEF Open, Finished, MainOK
  <2>3. CASE t = Main
    <3>1. (from = "go" /\ to = "produce") \/ (from = "produce" /\ to = "consume")
      BY <1>2, <1>6, <2>3 DEF Comes
    <3> QED
      BY <1>1, <1>2, <1>3, <1>4, <1>6, <2>1, <2>3, <3>1 DEF Open, Finished, MainOK
  <2> QED
    BY <2>2, <2>3
<1>7. CASE kind = "consumer"
  <2>1. other = "producer" /\ Gate(kind) = "cons" /\ Gate(other) = "prod"
    BY <1>7 DEF Kinds, Gate
  <2>2. CASE t # Main
    BY <1>1, <1>2, <1>3, <1>4, <1>5, <1>7, <2>1, <2>2 DEF Open, Finished, MainOK
  <2>3. CASE t = Main
    <3>1. (from = "round" /\ to = "go") \/ (from = "consume" /\ to = "verify")
      BY <1>2, <1>7, <2>3 DEF Comes
    <3> QED
      BY <1>1, <1>2, <1>3, <1>4, <1>7, <2>1, <2>3, <3>1 DEF Open, Finished, MainOK
  <2> QED
    BY <2>2, <2>3
<1> QED
  BY <1>6, <1>7 DEF Kinds

\* The types after a step of t that leaves the queue and the array alone.
LEMMA ControlType ==
    ASSUME DriverInv, NEW t \in Threads, NEW to, NEW n \in Nat, UNCHANGED <<queue, array, value>>,
           UNCHANGED round, handles' \in [Kinds -> [Slots -> Producers \cup Consumers \cup {NULL}]],
           t = Main => to \in MainLabels,
           \A kind \in Kinds : t \in Members(kind) => to \in Labels(kind),
           pc' = [pc EXCEPT ![t] = to], i' = [i EXCEPT ![t] = n],
           waiting' \in [{"enq", "deq", "prod", "cons"} -> SUBSET Threads]
    PROVE  DriverTypeOK'
<1>1. t = Main \/ t \in Members("producer") \/ t \in Members("consumer")
  BY DEF Threads, Members, Producers, Consumers
<1>2. "producer" \in Kinds /\ "consumer" \in Kinds
  BY DEF Kinds
<1>3. to \in MainLabels \cup Labels("producer") \cup Labels("consumer")
  BY <1>1, <1>2
<1>4. pc' \in [Threads -> MainLabels \cup Labels("producer") \cup Labels("consumer")]
  BY <1>3 DEF DriverInv, DriverTypeOK
<1>5. pc'[Main] \in MainLabels
  BY DEF DriverInv, DriverTypeOK, Threads
<1>6. \A kind \in Kinds : \A u \in Members(kind) : pc'[u] \in Labels(kind)
  BY MemberFacts DEF DriverInv, DriverTypeOK
<1>7. i' \in [Threads -> Nat]
  BY DEF DriverInv, DriverTypeOK
<1>8. /\ setup' = setup /\ put_index' = put_index /\ pop_index' = pop_index /\ ticket' = ticket
      /\ putAt' = putAt /\ gotAt' = gotAt /\ array' = array /\ value' = value /\ round' = round
      /\ Amount' = Amount /\ ROUNDS' = ROUNDS
  BY DEF queue, Amount, ROUNDS, COUNTS_PER_THREAD
<1> QED
  BY <1>4, <1>5, <1>6, <1>7, <1>8 DEF DriverInv, DriverTypeOK

LEMMA GateStep ==
    ASSUME DriverInv, NEW kind \in Kinds, NEW t \in Members(kind) \cup {Main}, NEW from, NEW to,
           Comes(kind, t, from, to), Wait(t, Gate(kind), from, to)
    PROVE  DriverInv'
<1> DEFINE all == Completes(kind, t)
<1>1. PICK other \in Kinds \ {kind} : Kinds = {kind, other}
  BY DEF Kinds
<1>2. /\ Gate(kind) \in {"enq", "deq", "prod", "cons"} /\ Gate(other) # Gate(kind)
      /\ Door(kind) # Gate(kind) /\ Door(other) # Gate(kind)
      /\ \A k \in Kinds : Gate(k) \in {"prod", "cons"} /\ Door(k) \in {"enq", "deq"}
      /\ Size(Gate(kind)) = N_THREADS + 1
  BY <1>1 DEF Gate, Door, Kinds, Size
<1>3. GateOK(kind)
  BY DEF DriverInv
<1>4. /\ pc[t] = from /\ \A d \in {"enq", "deq", "prod", "cons"} : t \notin waiting[d]
      /\ pc' = [pc EXCEPT ![t] = to] /\ i' = [i EXCEPT ![t] = 0]
      /\ \A d \in {"enq", "deq", "prod", "cons"} : d # Gate(kind) => waiting'[d] = waiting[d]
      /\ all => waiting'[Gate(kind)] = {}
      /\ ~all => waiting'[Gate(kind)] = waiting[Gate(kind)] \cup {t}
      /\ waiting' \in [{"enq", "deq", "prod", "cons"} -> SUBSET (Threads \cup {t})]
      /\ UNCHANGED <<queue, array, value, round>> /\ UNCHANGED <<setup, handles>>
  <2> DEFINE S == Members(kind) \cup {Main}
  <2>1. IsFiniteSet(S) /\ Cardinality(S) = Size(Gate(kind)) /\ waiting[Gate(kind)] \subseteq S
    BY <1>2, <1>3, MembersFinite DEF GateOK
  <2>2. t \in S
    OBVIOUS
  <2> HIDE DEF S
  <2>3. /\ pc[t] = from /\ \A d \in {"enq", "deq", "prod", "cons"} : t \notin waiting[d]
        /\ pc' = [pc EXCEPT ![t] = to] /\ i' = [i EXCEPT ![t] = 0]
        /\ \A d \in {"enq", "deq", "prod", "cons"} : d # Gate(kind) => waiting'[d] = waiting[d]
        /\ waiting[Gate(kind)] \cup {t} = S => waiting'[Gate(kind)] = {}
        /\ waiting[Gate(kind)] \cup {t} # S => waiting'[Gate(kind)] = waiting[Gate(kind)] \cup {t}
        /\ waiting' \in [{"enq", "deq", "prod", "cons"} -> SUBSET (Threads \cup {t})]
        /\ UNCHANGED <<queue, array, value, round>> /\ UNCHANGED <<setup, handles>>
    BY <1>2, <2>1, <2>2, WaitEffect
  <2> QED
    BY <2>3 DEF S, Completes
<1>5. t \in Threads /\ (t \in Members(kind) <=> t # Main)
  BY MemberFacts DEF Threads
<1>6. /\ MainOK' /\ (Open(other)' <=> Open(other)) /\ (Finished(other)' <=> Finished(other))
      /\ ~Open(kind) => /\ t \in Members(kind) => from = "start" /\ to = Ready(kind)
                        /\ ~all => ~Open(kind)' /\ (Finished(kind)' <=> Finished(kind))
                        /\ all => Open(kind)' /\ ~Finished(kind)
      /\ Open(kind) => /\ t \in Members(kind) =>
                             from = Ready(kind) /\ to = "start" /\ i[t] = COUNTS_PER_THREAD
                       /\ ~Finished(kind)'  \/ all
                       /\ ~all => Open(kind)'
                       /\ all => ~Open(kind)' /\ Finished(kind)'
  <2>1. /\ waiting'[Gate(kind)] = IF Completes(kind, t) THEN {} ELSE waiting[Gate(kind)] \cup {t}
        /\ waiting'[Gate(other)] = waiting[Gate(other)]
        /\ \A d \in {"prod", "cons"} : t \notin waiting[d]
        /\ round' = round /\ setup' = setup
    BY <1>1, <1>2, <1>4
  <2>2. MainOK' /\ (Open(other)' <=> Open(other)) /\ (Finished(other)' <=> Finished(other))
    BY <1>4, <2>1, GatePhase
  <2>3. ~Open(kind) => /\ t \in Members(kind) => from = "start" /\ to = Ready(kind)
                       /\ ~all => ~Open(kind)' /\ (Finished(kind)' <=> Finished(kind))
                       /\ all => Open(kind)' /\ ~Finished(kind)
    <3>1. ~Open(kind) /\ t \in Members(kind) => from = "start" /\ to = Ready(kind)
      BY <1>2, <1>4, GateWay
    <3>2. ~Open(kind) /\ ~all => ~Open(kind)' /\ (Finished(kind)' <=> Finished(kind))
      BY <1>4, <2>1, GatePhase
    <3>3. ~Open(kind) /\ all => Open(kind)' /\ ~Finished(kind)
      BY <1>4, <2>1, GatePhase
    <3> QED
      BY <3>1, <3>2, <3>3
  <2>4. Open(kind) => /\ t \in Members(kind) =>
                            from = Ready(kind) /\ to = "start" /\ i[t] = COUNTS_PER_THREAD
                      /\ ~Finished(kind)'  \/ all
                      /\ ~all => Open(kind)'
                      /\ all => ~Open(kind)' /\ Finished(kind)'
    BY <1>4, <2>1, GatePhase
  <2> QED
    BY <2>2, <2>3, <2>4
<1>7. waiting'[Door(kind)] = waiting[Door(kind)] /\ waiting'[Door(other)] = waiting[Door(other)]
      /\ waiting'[Gate(other)] = waiting[Gate(other)]
  BY <1>1, <1>2, <1>4
<1>8. DoorOK(other)' /\ GateOK(other)' /\ Stays(other)
  <2>1. \A u \in Members(other) : u # t
    BY <1>1, <1>5, MemberFacts
  <2>2. \A u \in Members(other) : pc'[u] = pc[u] /\ i'[u] = i[u]
    BY <1>1, <1>4, <2>1, MemberFacts DEF DriverInv, DriverTypeOK
  <2> QED
    BY <1>1, <1>4, <1>6, <1>7, <2>2, OtherStays
<1>9. /\ DoorOK(kind)' /\ GateOK(kind)' /\ Stays(kind)
      /\ Finished(kind)' /\ ~Finished(kind) =>
            \A u \in Members(kind) : pc[u] \notin Inside(kind) /\ Drawn(kind, u) = COUNTS_PER_THREAD
  <2>1. CASE ~Open(kind)
    <3>1. t \in Members(kind) => pc[t] = "start" /\ to = Ready(kind) /\ t \notin waiting[Door(kind)]
      BY <1>2, <1>4, <1>6, <2>1
    <3>2. \/ /\ waiting'[Gate(kind)] = waiting[Gate(kind)] \cup {t}
             /\ ~Open(kind)' /\ (Finished(kind)' <=> Finished(kind))
          \/ /\ waiting[Gate(kind)] \cup {t} = Members(kind) \cup {Main}
             /\ waiting'[Gate(kind)] = {} /\ Open(kind)' /\ ~Finished(kind)
      BY <1>4, <1>6, <2>1 DEF Completes
    <3>3. DoorOK(kind)' /\ GateOK(kind)' /\ Stays(kind)
      BY <1>4, <1>7, <2>1, <3>1, <3>2, GateFirst DEF Stays
    <3>4. ~(Finished(kind)' /\ ~Finished(kind))
      BY <3>2 DEF Open, Finished
    <3> QED
      BY <3>3, <3>4
  <2>2. CASE Open(kind) /\ ~all
    <3>1. t \in Members(kind) => pc[t] = Ready(kind) /\ to = "start" /\ i[t] = COUNTS_PER_THREAD
      BY <1>4, <1>6, <2>2
    <3>2. waiting'[Gate(kind)] = waiting[Gate(kind)] \cup {t} /\ Open(kind)' /\ ~Finished(kind)'
      BY <1>4, <1>6, <2>2
    <3>3. DoorOK(kind)' /\ GateOK(kind)' /\ Stays(kind)
      BY <1>4, <2>2, <3>1, <3>2, GateSecond DEF Stays
    <3> QED
      BY <3>2, <3>3
  <2>3. CASE Open(kind) /\ all
    <3>1. t \in Members(kind) => pc[t] = Ready(kind) /\ to = "start" /\ i[t] = COUNTS_PER_THREAD
      BY <1>4, <1>6, <2>3
    <3>2. waiting'[Gate(kind)] = {} /\ ~Open(kind)' /\ Finished(kind)'
      BY <1>4, <1>6, <2>3
    <3>3. /\ DoorOK(kind)' /\ GateOK(kind)'
          /\ \A u \in Members(kind) :
                 /\ Drawn(kind, u)' = Drawn(kind, u) /\ Drawn(kind, u) = COUNTS_PER_THREAD
                 /\ pc'[u] \in Inside(kind) <=> pc[u] \in Inside(kind)
                 /\ pc[u] \notin Inside(kind)
      BY <1>4, <2>3, <3>1, <3>2, GateLast DEF Completes
    <3> QED
      BY <3>3 DEF Stays
  <2> QED
    BY <2>1, <2>2, <2>3
<1>10. CountOK' /\ TicketOK' /\ ItemsOK' /\ ArrayOK'
  BY <1>1, <1>4, <1>8, <1>9, QueueStays
<1>11. \A k \in Kinds : SlotsOK(k)'
  <2> SUFFICES ASSUME NEW k \in Kinds PROVE SlotsOK(k)'
    OBVIOUS
  <2>1. \A u \in Members(k) : u # t => pc'[u] = pc[u] /\ i'[u] = i[u]
    BY <1>4, MemberFacts DEF DriverInv, DriverTypeOK
  <2>2. \A u \in Members(k) : u = t => k = kind /\ pc[u] = from /\ pc'[u] = to
    BY <1>4, <1>5, MemberFacts DEF DriverInv, DriverTypeOK
  <2>3. t # Main => from \notin Unregistered /\ to \notin Unregistered
    BY <1>5, LabelFacts DEF Comes
  <2> QED
    BY <1>4, <2>1, <2>2, <2>3, MemberFacts, SlotsStay
<1>12. DriverTypeOK'
  <2>1. t = Main => to \in MainLabels
    BY <1>5 DEF Comes, MainLabels
  <2>2. \A k \in Kinds : t \in Members(k) => to \in Labels(k)
    BY <1>5, MemberFacts DEF Comes, Labels
  <2>3. waiting' \in [{"enq", "deq", "prod", "cons"} -> SUBSET Threads]
    <3>1. Threads \cup {t} = Threads
      BY <1>5
    <3> QED
      BY <1>4, <3>1
  <2>4. 0 \in Nat
    OBVIOUS
  <2> QED
    BY <1>4, <1>5, <2>1, <2>2, <2>3, <2>4, ControlType DEF DriverInv, DriverTypeOK
<1>13. VerifiedOK'
  <2>1. array' = array /\ Amount' = Amount
    BY <1>4 DEF Amount, COUNTS_PER_THREAD
  <2>2. CASE Finished("consumer")
    BY <2>1, <2>2 DEF DriverInv, VerifiedOK
  <2>3. CASE ~Finished("consumer") /\ Finished("consumer")'
    <3>1. kind = "consumer"
      BY <1>1, <1>6, <2>3 DEF Kinds
    <3>2. \A u \in Consumers : pc[u] \notin Inside("consumer") /\ Drawn("consumer", u) = COUNTS_PER_THREAD
      BY <1>9, <2>3, <3>1, MemberFacts DEF Members, Consumers
    <3>3. Finished("producer")
      <4>1. t # Main => pc'[Main] = pc[Main]
        BY <1>4 DEF DriverInv, DriverTypeOK, Threads
      <4>2. t = Main => (pc[t] = "round" \/ pc[t] = "consume") /\ Main \notin waiting["prod"]
        BY <1>4, <1>5, <3>1 DEF Comes
      <4>3. t = Main => pc'[Main] = to
        BY <1>4, <1>5 DEF DriverInv, DriverTypeOK
      <4>4. t = Main => from = "consume" \/ to = "go"
        BY <1>5, <3>1 DEF Comes
      <4> QED
        BY <1>4, <2>3, <4>1, <4>2, <4>3, <4>4 DEF Finished
    <3> QED
      BY <2>1, <3>2, <3>3, RoundComplete DEF VerifiedOK
  <2> QED
    BY <2>1, <2>2, <2>3 DEF VerifiedOK
<1> QED
  BY <1>1, <1>6, <1>8, <1>9, <1>10, <1>11, <1>12, <1>13 DEF DriverInv

-----------------------------------------------------------------------------
(* The registration *)

\* A step in which main does not move leaves the phases as they are.
LEMMA PhasesStay ==
    ASSUME pc'[Main] = pc[Main],
           \A kind \in Kinds : Main \in waiting'[Gate(kind)] <=> Main \in waiting[Gate(kind)]
    PROVE  \A kind \in Kinds : (Open(kind)' <=> Open(kind)) /\ (Finished(kind)' <=> Finished(kind))
<1>1. /\ Main \in waiting'["prod"] <=> Main \in waiting["prod"]
      /\ Main \in waiting'["cons"] <=> Main \in waiting["cons"]
  BY DEF Kinds, Gate
<1> QED
  BY <1>1 DEF Open, Finished

LEMMA DoorStep ==
    ASSUME DriverInv, NEW kind \in Kinds, NEW t \in Members(kind), Wait(t, Door(kind), "registered", "start")
    PROVE  DriverInv'
<1>1. PICK other \in Kinds \ {kind} : Kinds = {kind, other}
  BY DEF Kinds
<1>2. /\ Door(kind) \in {"enq", "deq", "prod", "cons"} /\ Door(other) # Door(kind)
      /\ \A k \in Kinds : Gate(k) # Door(kind) /\ Gate(k) \in {"enq", "deq", "prod", "cons"}
      /\ Door(other) \in {"enq", "deq", "prod", "cons"} /\ Size(Door(kind)) = N_THREADS
  BY <1>1 DEF Gate, Door, Kinds, Size
<1>3. GateOK(kind) /\ DoorOK(kind) /\ pc[t] = "registered"
  BY DEF DriverInv, Wait, At
<1>4. /\ \A u \in Members(kind) : pc[u] \in Arriving \/ (pc[u] = "start" /\ u \in waiting[Door(kind)])
      /\ \A u \in waiting[Door(kind)] : u \in Members(kind) /\ pc[u] = "start"
  BY <1>3, LabelFacts DEF DoorOK
<1>5. /\ \A d \in {"enq", "deq", "prod", "cons"} : t \notin waiting[d]
      /\ pc' = [pc EXCEPT ![t] = "start"] /\ i' = [i EXCEPT ![t] = 0]
      /\ \A d \in {"enq", "deq", "prod", "cons"} : d # Door(kind) => waiting'[d] = waiting[d]
      /\ waiting[Door(kind)] \cup {t} = Members(kind) => waiting'[Door(kind)] = {}
      /\ waiting[Door(kind)] \cup {t} # Members(kind) => waiting'[Door(kind)] = waiting[Door(kind)] \cup {t}
      /\ waiting' \in [{"enq", "deq", "prod", "cons"} -> SUBSET (Threads \cup {t})]
      /\ UNCHANGED <<queue, array, value, round>> /\ UNCHANGED <<setup, handles>>
  <2>1. IsFiniteSet(Members(kind)) /\ Cardinality(Members(kind)) = Size(Door(kind))
        /\ waiting[Door(kind)] \subseteq Members(kind)
    BY <1>2, <1>4, MembersFinite
  <2> QED
    BY <1>2, <2>1, WaitEffect
<1>6. \A u \in Members(kind) : /\ u # t => pc'[u] = pc[u] /\ i'[u] = i[u]
                               /\ u = t => pc'[u] = "start" /\ pc[u] = "registered"
  BY <1>3, <1>5, MemberFacts DEF DriverInv, DriverTypeOK
<1>7. pc'[Main] = pc[Main] /\ MainOK'
  <2>1. t # Main /\ Main \in Threads
    BY MemberFacts DEF Threads
  <2>2. pc'[Main] = pc[Main]
    BY <1>5, <2>1 DEF DriverInv, DriverTypeOK
  <2>3. waiting'["prod"] = waiting["prod"] /\ waiting'["cons"] = waiting["cons"] /\ ROUNDS' = ROUNDS
    BY <1>2, <1>5 DEF Door, ROUNDS
  <2> QED
    BY <1>5, <2>2, <2>3 DEF MainOK, DriverInv
<1>8. \A k \in Kinds : (Open(k)' <=> Open(k)) /\ (Finished(k)' <=> Finished(k))
  BY <1>2, <1>5, <1>7, PhasesStay
<1>9. DoorOK(kind)'
  <2>1. CASE waiting[Door(kind)] \cup {t} = Members(kind)
    <3>1. \A u \in Members(kind) : pc'[u] = "start"
      BY <1>4, <1>6, <2>1
    <3> QED
      BY <3>1, LabelFacts DEF DoorOK
  <2>2. CASE waiting[Door(kind)] \cup {t} # Members(kind)
    <3>1. waiting'[Door(kind)] = waiting[Door(kind)] \cup {t}
      BY <1>5, <2>2
    <3>2. \A u \in Members(kind) : pc'[u] \in Arriving \/ (pc'[u] = "start" /\ u \in waiting'[Door(kind)])
      BY <1>4, <1>6, <3>1
    <3>3. \A u \in waiting'[Door(kind)] : u \in Members(kind) /\ pc'[u] = "start"
      BY <1>4, <1>6, <3>1
    <3> QED
      BY <3>2, <3>3 DEF DoorOK
  <2> QED
    BY <2>1, <2>2
<1>10. ~Open(kind) /\ ~Finished(kind)
  BY <1>3, LabelFacts DEF GateOK
<1>11. GateOK(kind)'
  <2>1. waiting'[Gate(kind)] = waiting[Gate(kind)]
    BY <1>2, <1>5
  <2>2. \A u \in Members(kind) :
           /\ pc'[u] \notin Inside(kind)
           /\ u \in waiting'[Gate(kind)] <=> pc'[u] = Ready(kind)
           /\ pc'[u] = Ready(kind) => i'[u] = 0
    BY <1>3, <1>5, <1>6, <1>10, <2>1, LabelFacts DEF GateOK
  <2>3. waiting'[Gate(kind)] \subseteq Members(kind) \cup {Main}
    BY <1>3, <2>1 DEF GateOK
  <2> QED
    BY <1>8, <1>10, <2>2, <2>3 DEF GateOK
<1>12. Stays(kind)
  <2>1. \A u \in Members(kind) : Drawn(kind, u)' = Drawn(kind, u)
    BY <1>8, <1>10 DEF Drawn
  <2>2. \A u \in Members(kind) : pc[u] \notin Inside(kind) /\ pc'[u] \notin Inside(kind)
    BY <1>3, <1>6, <1>10, LabelFacts DEF GateOK
  <2> QED
    BY <2>1, <2>2 DEF Stays
<1>13. DoorOK(other)' /\ GateOK(other)' /\ Stays(other)
  <2>1. \A u \in Members(other) : u # t
    BY <1>1, MemberFacts
  <2>2. \A u \in Members(other) : pc'[u] = pc[u] /\ i'[u] = i[u]
    BY <1>1, <1>5, <2>1, MemberFacts DEF DriverInv, DriverTypeOK
  <2>3. waiting'[Gate(other)] = waiting[Gate(other)] /\ waiting'[Door(other)] = waiting[Door(other)]
    BY <1>1, <1>2, <1>5
  <2> QED
    BY <1>1, <1>5, <1>8, <2>2, <2>3, OtherStays
<1>14. CountOK' /\ TicketOK' /\ ItemsOK' /\ ArrayOK'
  BY <1>1, <1>5, <1>12, <1>13, QueueStays
<1>15. \A k \in Kinds : SlotsOK(k)'
  <2> SUFFICES ASSUME NEW k \in Kinds PROVE SlotsOK(k)'
    OBVIOUS
  <2>1. \A u \in Members(k) : u # t => pc'[u] = pc[u] /\ i'[u] = i[u]
    BY <1>5, MemberFacts DEF DriverInv, DriverTypeOK
  <2>2. \A u \in Members(k) : u = t => pc[u] = "registered" /\ pc'[u] = "start"
    BY <1>3, <1>5, MemberFacts DEF DriverInv, DriverTypeOK
  <2>3. "registered" \notin Unregistered /\ "start" \notin Unregistered
    BY DEF Unregistered
  <2> QED
    BY <1>5, <2>1, <2>2, <2>3, SlotsStay
<1>16. DriverTypeOK'
  <2>1. t \in Threads /\ t # Main /\ Threads \cup {t} = Threads
    BY MemberFacts
  <2>2. \A k \in Kinds : t \in Members(k) => "start" \in Labels(k)
    BY DEF Labels
  <2> QED
    BY <1>5, <2>1, <2>2, ControlType DEF DriverInv, DriverTypeOK
<1>17. VerifiedOK'
  BY <1>1, <1>5, <1>8 DEF VerifiedOK, DriverInv, Amount, COUNTS_PER_THREAD, Kinds
<1> QED
  BY <1>1, <1>7, <1>9, <1>11, <1>13, <1>14, <1>15, <1>16, <1>17 DEF DriverInv

\* Threads that move only before the barrier of the registration.
LEMMA ArrivingMoves ==
    ASSUME DriverInv, NEW kind \in Kinds, UNCHANGED <<setup, waiting>>,
           Open(kind)' <=> Open(kind), Finished(kind)' <=> Finished(kind),
           \A u \in Members(kind) :
              \/ pc'[u] = pc[u] /\ i'[u] = i[u]
              \/ pc[u] \in Arriving /\ pc'[u] \in Arriving
    PROVE  DoorOK(kind)' /\ GateOK(kind)' /\ Stays(kind)
<1>1. DoorOK(kind) /\ GateOK(kind)
  BY DEF DriverInv
<1>2. DoorOK(kind)'
  <2>1. CASE \A u \in Members(kind) : pc[u] \notin Arriving
    <3>1. \A u \in Members(kind) : pc'[u] \notin Arriving
      BY <2>1
    <3> QED
      BY <3>1 DEF DoorOK
  <2>2. CASE /\ \A u \in Members(kind) :
                   pc[u] \in Arriving \/ (pc[u] = "start" /\ u \in waiting[Door(kind)])
             /\ \A u \in waiting[Door(kind)] : u \in Members(kind) /\ pc[u] = "start"
    <3>1. \A u \in Members(kind) :
             pc'[u] \in Arriving \/ (pc'[u] = "start" /\ u \in waiting'[Door(kind)])
      BY <2>2, LabelFacts
    <3>2. \A u \in waiting'[Door(kind)] : u \in Members(kind) /\ pc'[u] = "start"
      BY <2>2, LabelFacts
    <3> QED
      BY <3>1, <3>2 DEF DoorOK
  <2> QED
    BY <1>1, <2>1, <2>2 DEF DoorOK
<1>3. \A u \in Members(kind) : pc[u] \in Arriving => ~Open(kind) /\ ~Finished(kind)
  BY <1>1 DEF GateOK
<1>4. GateOK(kind)'
  <2>1. ASSUME NEW u \in Members(kind)
        PROVE  /\ Open(kind) => pc'[u] \notin Arriving /\ (u \in waiting[Gate(kind)] <=> pc'[u] = "start")
               /\ ~Open(kind) =>
                     /\ pc'[u] \notin Inside(kind)
                     /\ Finished(kind) => pc'[u] \notin Arriving
                     /\ u \in waiting[Gate(kind)] <=> pc'[u] = Ready(kind)
                     /\ pc'[u] = Ready(kind) => i'[u] = 0
    <3>1. CASE pc'[u] = pc[u] /\ i'[u] = i[u]
      BY <1>1, <3>1 DEF GateOK
    <3>2. CASE pc[u] \in Arriving /\ pc'[u] \in Arriving
      BY <1>1, <1>3, <3>2, LabelFacts DEF GateOK
    <3> QED
      BY <3>1, <3>2
  <2>2. waiting'[Gate(kind)] \subseteq Members(kind) \cup {Main}
    BY <1>1 DEF GateOK
  <2> QED
    BY <2>1, <2>2 DEF GateOK
<1>5. Stays(kind)
  <2>1. ASSUME NEW u \in Members(kind)
        PROVE  /\ Drawn(kind, u)' = Drawn(kind, u)
               /\ pc'[u] \in Inside(kind) <=> pc[u] \in Inside(kind)
               /\ pc[u] \in Inside(kind) => pc'[u] = pc[u] /\ i'[u] = i[u]
    <3>1. CASE pc'[u] = pc[u] /\ i'[u] = i[u]
      BY <3>1 DEF Drawn, COUNTS_PER_THREAD
    <3>2. CASE pc[u] \in Arriving /\ pc'[u] \in Arriving
      BY <1>3, <3>2, LabelFacts DEF Drawn
    <3> QED
      BY <3>1, <3>2
  <2> QED
    BY <2>1 DEF Stays
<1> QED
  BY <1>2, <1>4, <1>5

\* The slot behind those that t has found taken is one of the first N_THREADS.
LEMMA NextSlotExists ==
    ASSUME DriverInv, NEW kind \in Kinds, NEW t \in Members(kind), pc[t] \in Unregistered,
           handles[kind][i[t]] # NULL
    PROVE  i[t] + 1 \in Index /\ \A s \in 0 .. i[t] : handles[kind][s] # NULL
<1>1. SlotsOK(kind) /\ i[t] \in Index /\ N_THREADS \in Nat \ {0} /\ N_HANDLES \in Nat /\ N_THREADS < N_HANDLES
  BY Parameters DEF DriverInv, SlotsOK
<1>2. PICK n \in Nat : n = i[t]
  BY <1>1 DEF Index
<1>3. \A s \in 0 .. n : s \in Slots /\ handles[kind][s] # NULL
  <2>1. \A s \in 0 .. n - 1 : handles[kind][s] # NULL
    BY <1>1, <1>2 DEF SlotsOK
  <2>2. \A s \in 0 .. n : s \in 0 .. n - 1 \/ s = n
    BY <1>2
  <2> QED
    BY <1>1, <1>2, <2>1, <2>2 DEF Index, Slots
<1> DEFINE f == [s \in 0 .. n |-> handles[kind][s]]
<1>4. f \in Injection(0 .. n, Members(kind) \ {t})
  <2>1. \A s \in 0 .. n : handles[kind][s] \in Members(kind) \ {t}
    BY <1>1, <1>3 DEF SlotsOK
  <2>2. \A r, s \in 0 .. n : r < s => handles[kind][r] # handles[kind][s]
    BY <1>1, <1>3 DEF SlotsOK
  <2>3. \A r, s \in 0 .. n : r < s \/ s < r \/ r = s
    BY <1>2
  <2>4. \A r, s \in 0 .. n : f[r] = f[s] => r = s
    BY <2>2, <2>3
  <2> QED
    BY <2>1, <2>4 DEF Injection, IsInjective
<1>5. IsFiniteSet(Members(kind) \ {t}) /\ Cardinality(Members(kind) \ {t}) = N_THREADS - 1
  BY MembersFinite, FS_RemoveElement
<1>6. Cardinality(0 .. n) <= N_THREADS - 1
  <2> HIDE DEF f
  <2> QED
    BY <1>4, <1>5, FS_Injection
<1>7. Cardinality(0 .. n) = n + 1
  BY <1>2, FS_Interval
<1> QED
  BY <1>1, <1>2, <1>3, <1>6, <1>7 DEF Index

\* A step of t that is to be registered.
LEMMA RegistrationStep ==
    ASSUME DriverInv, NEW kind \in Kinds, NEW t \in Members(kind), NEW to \in Arriving, NEW n \in Nat,
           pc[t] \in Unregistered, pc' = [pc EXCEPT ![t] = to], i' = [i EXCEPT ![t] = n],
           UNCHANGED <<queue, array, value, round>>, UNCHANGED <<setup, waiting>>,
           handles' \in [Kinds -> [Slots -> Producers \cup Consumers \cup {NULL}]],
           \A k \in Kinds : k # kind => handles'[k] = handles[k], SlotsOK(kind)'
    PROVE  DriverInv'
<1>1. t \in Threads /\ t # Main /\ Main \in Threads /\ pc[t] \in Arriving
  BY MemberFacts, LabelFacts DEF Threads
<1>2. pc'[Main] = pc[Main] /\ MainOK'
  BY <1>1 DEF DriverInv, DriverTypeOK, MainOK, ROUNDS
<1>3. \A k \in Kinds : (Open(k)' <=> Open(k)) /\ (Finished(k)' <=> Finished(k))
  BY <1>2, PhasesStay
<1>4. \A k \in Kinds : \A u \in Members(k) :
         \/ pc'[u] = pc[u] /\ i'[u] = i[u]
         \/ k = kind /\ pc[u] \in Arriving /\ pc'[u] \in Arriving
  BY <1>1, MemberFacts DEF DriverInv, DriverTypeOK
<1>5. \A k \in Kinds : DoorOK(k)' /\ GateOK(k)' /\ Stays(k)
  BY <1>3, <1>4, ArrivingMoves
<1>6. CountOK' /\ TicketOK' /\ ItemsOK' /\ ArrayOK'
  BY <1>5, QueueStays
<1>7. \A k \in Kinds : SlotsOK(k)'
  <2>1. ASSUME NEW k \in Kinds, k # kind PROVE SlotsOK(k)'
    <3>1. \A u \in Members(k) : pc'[u] = pc[u] /\ i'[u] = i[u]
      BY <1>4, <2>1
    <3> QED
      BY <2>1, <3>1, SlotsStay
  <2> QED
    BY <2>1
<1>8. DriverTypeOK'
  <2>1. waiting' \in [{"enq", "deq", "prod", "cons"} -> SUBSET Threads]
    BY DEF DriverInv, DriverTypeOK
  <2>2. \A k \in Kinds : to \in Labels(k)
    BY DEF Labels
  <2> QED
    BY <1>1, <2>1, <2>2, ControlType
<1>9. VerifiedOK'
  BY <1>3 DEF VerifiedOK, DriverInv, Amount, COUNTS_PER_THREAD, Kinds
<1> QED
  BY <1>2, <1>5, <1>6, <1>7, <1>8, <1>9 DEF DriverInv

\* t passes on to the next slot.
LEMMA NextSlotStep ==
    ASSUME DriverInv, NEW kind \in Kinds, NEW t \in Members(kind), pc[t] \in Unregistered,
           handles[kind][i[t]] # NULL, UNCHANGED <<handles>>, i' = [i EXCEPT ![t] = NextSlot(i[t])],
           NEW to \in Unregistered, pc' = [pc EXCEPT ![t] = to]
    PROVE  SlotsOK(kind)' /\ NextSlot(i[t]) \in Nat
<1>1. SlotsOK(kind) /\ t \in Threads
  BY MemberFacts DEF DriverInv
<1>2. i[t] + 1 \in Index /\ \A s \in 0 .. i[t] : handles[kind][s] # NULL
  BY NextSlotExists
<1>3. i[t] \in Nat /\ i'[t] = i[t] + 1 /\ i'[t] - 1 = i[t] /\ pc'[t] = to
  BY <1>1 DEF DriverInv, DriverTypeOK, NextSlot
<1>4. \A u \in Members(kind) : u # t => pc'[u] = pc[u] /\ i'[u] = i[u]
  BY MemberFacts DEF DriverInv, DriverTypeOK
<1>5. \A s \in Slots : handles'[kind][s] # NULL =>
          /\ handles'[kind][s] \in Members(kind)
          /\ pc'[handles'[kind][s]] \notin Unregistered
          /\ \A r \in Slots : r < s => handles'[kind][r] \notin {NULL, handles'[kind][s]}
  BY <1>1, <1>4 DEF SlotsOK
<1>6. \A u \in Members(kind) :
          /\ pc'[u] \in Unregistered =>
                i'[u] \in Index /\ \A s \in 0 .. i'[u] - 1 : handles'[kind][s] # NULL
          /\ pc'[u] \notin Unregistered => \E s \in Slots : handles'[kind][s] = u
  <2> SUFFICES ASSUME NEW u \in Members(kind)
               PROVE  /\ pc'[u] \in Unregistered =>
                            i'[u] \in Index /\ \A s \in 0 .. i'[u] - 1 : handles'[kind][s] # NULL
                      /\ pc'[u] \notin Unregistered => \E s \in Slots : handles'[kind][s] = u
    OBVIOUS
  <2>1. CASE u = t
    BY <1>2, <1>3, <2>1
  <2>2. CASE u # t
    BY <1>1, <1>4, <2>2 DEF SlotsOK
  <2> QED
    BY <2>1, <2>2
<1>7. NextSlot(i[t]) \in Nat
  BY <1>3 DEF NextSlot
<1> QED
  BY <1>5, <1>6, <1>7 DEF SlotsOK

LEMMA LoadStep ==
    ASSUME DriverInv, NEW kind \in Kinds, NEW t \in Members(kind), RegisterLoad(t) PROVE DriverInv'
<1>1. /\ t[1] = kind /\ pc[t] = "register" /\ t \in Threads /\ UNCHANGED <<queue, array, value, round>>
      /\ UNCHANGED <<setup, waiting>> /\ UNCHANGED handles
      /\ handles' \in [Kinds -> [Slots -> Producers \cup Consumers \cup {NULL}]]
      /\ i[t] \in Nat /\ pc \in [Threads -> MainLabels \cup Labels("producer") \cup Labels("consumer")]
      /\ i \in [Threads -> Nat]
  BY MemberFacts DEF RegisterLoad, At, queue, DriverInv, DriverTypeOK
<1>2. {"register", "register_cas"} \subseteq Unregistered /\ Unregistered \subseteq Arriving
  BY DEF Unregistered, Arriving
<1>3. CASE handles[kind][i[t]] = NULL
  <2>1. pc' = [pc EXCEPT ![t] = "register_cas"] /\ i' = i
    BY <1>1, <1>3 DEF RegisterLoad, Goto
  <2>2. i' = [i EXCEPT ![t] = i[t]]
    BY <1>1, <2>1
  <2>3. \A u \in Members(kind) : pc'[u] \in Unregistered <=> pc[u] \in Unregistered
    BY <1>1, <1>2, <2>1
  <2>4. SlotsOK(kind)'
    BY <1>1, <2>1, <2>3, SlotsStay
  <2>5. PICK n \in Nat : i' = [i EXCEPT ![t] = n]
    BY <1>1, <2>2
  <2>6. \A k \in Kinds : k # kind => handles'[k] = handles[k]
    BY <1>1
  <2>7. pc' = [pc EXCEPT ![t] = "register_cas"] /\ "register_cas" \in Arriving /\ pc[t] \in Unregistered
    BY <1>1, <1>2, <2>1
  <2> QED
    BY <1>1, <2>4, <2>5, <2>6, <2>7, RegistrationStep
<1>4. CASE handles[kind][i[t]] # NULL
  <2>1. pc' = [pc EXCEPT ![t] = "register"] /\ i' = [i EXCEPT ![t] = NextSlot(i[t])]
    <3>1. pc' = pc /\ i' = [i EXCEPT ![t] = NextSlot(i[t])]
      BY <1>1, <1>4 DEF RegisterLoad
    <3> QED
      BY <1>1, <3>1
  <2>2. SlotsOK(kind)' /\ NextSlot(i[t]) \in Nat
    BY <1>1, <1>2, <1>4, <2>1, NextSlotStep
  <2> QED
    BY <1>1, <1>2, <2>1, <2>2, RegistrationStep
<1> QED
  BY <1>3, <1>4

LEMMA CasStep ==
    ASSUME DriverInv, NEW kind \in Kinds, NEW t \in Members(kind), RegisterCas(t) PROVE DriverInv'
<1>1. /\ t[1] = kind /\ pc[t] = "register_cas" /\ t \in Threads /\ UNCHANGED <<queue, array, value, round>>
      /\ UNCHANGED <<setup, waiting>>
      /\ handles \in [Kinds -> [Slots -> Producers \cup Consumers \cup {NULL}]]
      /\ i[t] \in Nat /\ pc \in [Threads -> MainLabels \cup Labels("producer") \cup Labels("consumer")]
      /\ i \in [Threads -> Nat] /\ t \in Producers \cup Consumers
  BY MemberFacts DEF RegisterCas, At, queue, DriverInv, DriverTypeOK
<1>2. /\ {"register", "register_cas"} \subseteq Unregistered /\ Unregistered \subseteq Arriving
      /\ "registered" \in Arriving \ Unregistered
  BY DEF Unregistered, Arriving
<1>3. CASE ~Vacant(t)
  <2>1. /\ pc' = [pc EXCEPT ![t] = "register"] /\ i' = [i EXCEPT ![t] = NextSlot(i[t])]
        /\ handles' = handles
    BY <1>3 DEF RegisterCas, Goto
  <2>2. SlotsOK(kind)' /\ NextSlot(i[t]) \in Nat
    BY <1>1, <1>2, <1>3, <2>1, NextSlotStep DEF Vacant
  <2> QED
    BY <1>1, <1>2, <2>1, <2>2, RegistrationStep
<1>4. CASE Vacant(t)
  <2>1. /\ pc' = [pc EXCEPT ![t] = "registered"] /\ i' = i
        /\ handles' = [handles EXCEPT ![kind][i[t]] = t]
    BY <1>1, <1>4 DEF RegisterCas, Goto
  <2>2. SlotsOK(kind) /\ handles[kind][i[t]] = NULL /\ t # NULL
    BY <1>1, <1>4, DriverAssumption DEF Vacant, DriverInv
  <2>3. i[t] \in Slots /\ \A s \in 0 .. i[t] - 1 : handles[kind][s] # NULL
    <3>1. i[t] \in Index /\ N_THREADS < N_HANDLES /\ N_HANDLES \in Nat /\ N_THREADS \in Nat
      BY <1>1, <1>2, <2>2, Parameters DEF DriverInv, SlotsOK
    <3> QED
      BY <1>1, <1>2, <2>2, <3>1 DEF SlotsOK, Index, Slots
  <2>4. /\ \A s \in Slots : handles'[kind][s] = IF s = i[t] THEN t ELSE handles[kind][s]
        /\ \A k \in Kinds : k # kind => handles'[k] = handles[k]
        /\ handles' \in [Kinds -> [Slots -> Producers \cup Consumers \cup {NULL}]]
    BY <1>1, <2>1, <2>3
  <2>5. \A u \in Members(kind) : /\ u # t => pc'[u] = pc[u] /\ i'[u] = i[u]
                                 /\ u = t => pc'[u] = "registered"
    BY <1>1, <2>1, MemberFacts
  <2>6. ASSUME NEW s \in Slots, handles'[kind][s] # NULL
        PROVE  /\ handles'[kind][s] \in Members(kind)
               /\ pc'[handles'[kind][s]] \notin Unregistered
               /\ \A r \in Slots : r < s => handles'[kind][r] \notin {NULL, handles'[kind][s]}
    <3>1. \A r \in Slots : handles[kind][r] # NULL => handles[kind][r] # t
      BY <1>1, <1>2, <2>2 DEF SlotsOK
    <3>2. CASE s = i[t]
      <4>1. handles'[kind][s] = t
        BY <2>4, <3>2
      <4>2. \A r \in Slots : r < s => r \in 0 .. i[t] - 1
        BY <1>1, <3>2 DEF Slots
      <4>3. \A r \in Slots : r < s => handles'[kind][r] = handles[kind][r] /\ handles[kind][r] # NULL
        BY <2>3, <2>4, <3>2, <4>2
      <4> QED
        BY <1>2, <2>2, <2>5, <3>1, <4>1, <4>3
    <3>3. CASE s # i[t]
      <4>1. handles'[kind][s] = handles[kind][s] /\ handles[kind][s] # NULL
        BY <2>4, <2>6, <3>3
      <4>2. /\ handles[kind][s] \in Members(kind) /\ pc[handles[kind][s]] \notin Unregistered
            /\ \A r \in Slots : r < s => handles[kind][r] \notin {NULL, handles[kind][s]}
        BY <2>2, <4>1 DEF SlotsOK
      <4>3. \A r \in Slots : r < s => r # i[t]
        BY <2>2, <4>2
      <4> QED
        BY <2>4, <2>5, <3>1, <4>1, <4>2, <4>3
    <3> QED
      BY <3>2, <3>3
  <2>7. ASSUME NEW u \in Members(kind)
        PROVE  /\ pc'[u] \in Unregistered =>
                     i'[u] \in Index /\ \A s \in 0 .. i'[u] - 1 : handles'[kind][s] # NULL
               /\ pc'[u] \notin Unregistered => \E s \in Slots : handles'[kind][s] = u
    <3>1. CASE u = t
      BY <1>2, <2>3, <2>4, <2>5, <3>1
    <3>2. CASE u # t
      <4>1. pc'[u] = pc[u] /\ i'[u] = i[u]
        BY <2>5, <3>2
      <4>2. \A s \in Slots : handles[kind][s] # NULL => handles'[kind][s] = handles[kind][s]
        BY <2>2, <2>4
      <4>3. ASSUME pc[u] \in Unregistered, NEW s \in 0 .. i[u] - 1 PROVE handles'[kind][s] # NULL
        <5>1. i[u] \in Index /\ handles[kind][s] # NULL /\ N_THREADS < N_HANDLES /\ N_HANDLES \in Nat
              /\ N_THREADS \in Nat
          BY <2>2, <4>3, Parameters DEF DriverInv, SlotsOK
        <5>2. s \in Slots
          BY <5>1 DEF Index, Slots
        <5> QED
          BY <4>2, <5>1, <5>2
      <4>4. pc[u] \notin Unregistered => \E s \in Slots : handles[kind][s] = u
        BY <2>2 DEF SlotsOK
      <4>5. u # NULL
        BY MemberFacts, DriverAssumption
      <4>6. pc[u] \in Unregistered => i[u] \in Index
        BY <2>2 DEF SlotsOK
      <4> QED
        BY <4>1, <4>2, <4>3, <4>4, <4>5, <4>6
    <3> QED
      BY <3>1, <3>2
  <2>8. SlotsOK(kind)'
    BY <2>6, <2>7 DEF SlotsOK
  <2>9. PICK n \in Nat : i' = [i EXCEPT ![t] = n]
    <3>1. i' = [i EXCEPT ![t] = i[t]]
      BY <1>1, <2>1
    <3> QED
      BY <1>1, <3>1
  <2>10. pc' = [pc EXCEPT ![t] = "registered"] /\ "registered" \in Arriving /\ pc[t] \in Unregistered
    BY <1>1, <1>2, <2>1
  <2> QED
    BY <1>1, <2>4, <2>8, <2>9, <2>10, RegistrationStep
<1> QED
  BY <1>3, <1>4

LEMMA CreateStep ==
    ASSUME DriverInv, NEW t \in Producers \cup Consumers, Create(t) PROVE DriverInv'
<1>1. PICK kind \in Kinds : t \in Members(kind)
  BY DEF Kinds, Members, Producers, Consumers
<1>2. /\ pc[Main] = "create" /\ pc[t] = "none" /\ t # Main /\ t \in Threads /\ Main \in Threads
      /\ \A b \in DOMAIN waiting : Main \notin waiting[b]
      /\ UNCHANGED <<queue, handles, waiting, array, value, round>>
      /\ UNCHANGED setup
      /\ i \in [Threads -> Nat] /\ pc \in [Threads -> MainLabels \cup Labels("producer") \cup Labels("consumer")]
      /\ waiting \in [{"enq", "deq", "prod", "cons"} -> SUBSET Threads]
  BY <1>1, MemberFacts DEF Create, At, queue, Threads, DriverInv, DriverTypeOK
<1>3. PICK to \in {"round", "create"} : pc' = [pc EXCEPT ![t] = "register", ![Main] = to]
  BY DEF Create
<1>4. i' = [i EXCEPT ![Main] = i[Main] + 1]
  BY DEF Create
<1>5. /\ pc'[Main] = to /\ pc'[t] = "register"
      /\ \A u \in Threads : u \notin {t, Main} => pc'[u] = pc[u]
      /\ \A u \in Threads : u # Main => i'[u] = i[u]
      /\ i' \in [Threads -> Nat]
  BY <1>2, <1>3, <1>4
<1>6. MainOK'
  BY <1>2, <1>5 DEF MainOK, DriverInv, ROUNDS
<1>7. \A k \in Kinds : ~Open(k)' /\ ~Open(k) /\ ~Finished(k)' /\ ~Finished(k)
  BY <1>2, <1>5 DEF Open, Finished
<1>8. \A k \in Kinds : \A u \in Members(k) :
         \/ pc'[u] = pc[u] /\ i'[u] = i[u]
         \/ pc[u] \in Arriving /\ pc'[u] \in Arriving
  BY <1>2, <1>5, MemberFacts DEF Arriving, Unregistered
<1>9. \A k \in Kinds : DoorOK(k)' /\ GateOK(k)' /\ Stays(k)
  BY <1>2, <1>7, <1>8, ArrivingMoves
<1>10. CountOK' /\ TicketOK' /\ ItemsOK' /\ ArrayOK'
  BY <1>2, <1>9, QueueStays
<1>11. \A k \in Kinds : SlotsOK(k)'
  <2>1. \A k \in Kinds : \A u \in Members(k) :
           /\ pc'[u] \in Unregistered <=> pc[u] \in Unregistered
           /\ pc[u] \in Unregistered => i'[u] = i[u]
    BY <1>2, <1>5, MemberFacts DEF Unregistered
  <2> QED
    BY <1>2, <2>1, SlotsStay
<1>12. DriverTypeOK'
  <2>1. "register" \in Labels("producer") /\ "register" \in Labels("consumer") /\ to \in MainLabels
    BY DEF Labels, Arriving, Unregistered, MainLabels
  <2>2. pc' \in [Threads -> MainLabels \cup Labels("producer") \cup Labels("consumer")]
    BY <1>2, <1>3, <2>1
  <2>3. \A k \in Kinds : \A u \in Members(k) : pc'[u] \in Labels(k)
    BY <1>2, <1>5, <2>1, MemberFacts DEF DriverInv, DriverTypeOK, Kinds
  <2>4. /\ setup' = setup /\ put_index' = put_index /\ pop_index' = pop_index /\ ticket' = ticket
        /\ putAt' = putAt /\ gotAt' = gotAt /\ array' = array /\ value' = value /\ round' = round
        /\ handles' = handles /\ waiting' = waiting /\ Amount' = Amount /\ ROUNDS' = ROUNDS
    BY <1>2 DEF queue, Amount, ROUNDS, COUNTS_PER_THREAD
  <2> QED
    BY <1>5, <2>1, <2>2, <2>3, <2>4 DEF DriverInv, DriverTypeOK
<1>13. VerifiedOK'
  BY <1>7 DEF VerifiedOK, Kinds
<1> QED
  BY <1>6, <1>9, <1>10, <1>11, <1>12, <1>13 DEF DriverInv

-----------------------------------------------------------------------------
(* main at the end of a round *)

LEMMA VerifyStep == ASSUME DriverInv, Verify PROVE DriverInv'
<1>1. /\ pc[Main] = "verify" /\ i[Main] < Amount /\ \A b \in DOMAIN waiting : Main \notin waiting[b]
      /\ UNCHANGED <<queue, handles, waiting, array, value, round>> /\ UNCHANGED setup
      /\ waiting \in [{"enq", "deq", "prod", "cons"} -> SUBSET Threads]
      /\ i \in [Threads -> Nat] /\ pc \in [Threads -> MainLabels \cup Labels("producer") \cup Labels("consumer")]
      /\ Main \in Threads
  BY DEF Verify, At, queue, DriverInv, DriverTypeOK, Threads
<1>2. i[Main] + 1 \in array
  <2>1. 1 .. Amount \subseteq array
    BY <1>1 DEF Finished, VerifiedOK, DriverInv
  <2> QED
    BY <1>1, <2>1, Parameters DEF DriverInv
<1>3. i' = [i EXCEPT ![Main] = i[Main] + 1] /\ pc' = pc
  BY <1>2 DEF Verify
<1>4. \A k \in Kinds : \A u \in Members(k) : pc'[u] = pc[u] /\ i'[u] = i[u]
  BY <1>1, <1>3, MemberFacts
<1>5. \A k \in Kinds : (Open(k)' <=> Open(k)) /\ (Finished(k)' <=> Finished(k))
  BY <1>1, <1>3, PhasesStay
<1>6. \A k \in Kinds : DoorOK(k)' /\ GateOK(k)' /\ Stays(k)
  BY <1>1, <1>4, <1>5, OtherStays
<1>7. \A k \in Kinds : SlotsOK(k)'
  BY <1>1, <1>4, SlotsStay
<1>8. CountOK' /\ TicketOK' /\ ItemsOK' /\ ArrayOK'
  BY <1>1, <1>6, QueueStays
<1>9. DriverTypeOK'
  <2>1. pc' = [pc EXCEPT ![Main] = "verify"] /\ "verify" \in MainLabels /\ i[Main] + 1 \in Nat
    BY <1>1, <1>3 DEF MainLabels
  <2>2. handles' \in [Kinds -> [Slots -> Producers \cup Consumers \cup {NULL}]]
    BY <1>1 DEF DriverInv, DriverTypeOK
  <2>3. \A k \in Kinds : Main \notin Members(k)
    BY MemberFacts
  <2> QED
    BY <1>1, <1>3, <2>1, <2>2, <2>3, ControlType
<1>10. MainOK' /\ VerifiedOK'
  BY <1>1, <1>3, <1>5 DEF MainOK, VerifiedOK, DriverInv, Amount, COUNTS_PER_THREAD, ROUNDS, Kinds
<1> QED
  BY <1>6, <1>7, <1>8, <1>9, <1>10 DEF DriverInv

LEMMA ClearStep == ASSUME DriverInv, Clear PROVE DriverInv'
<1>1. /\ pc[Main] = "verify" /\ \A b \in DOMAIN waiting : Main \notin waiting[b]
      /\ UNCHANGED <<queue, handles, waiting, i, value>> /\ UNCHANGED setup
      /\ array' = {} /\ round' = round + 1
      /\ waiting \in [{"enq", "deq", "prod", "cons"} -> SUBSET Threads]
      /\ i \in [Threads -> Nat] /\ pc \in [Threads -> MainLabels \cup Labels("producer") \cup Labels("consumer")]
      /\ Main \in Threads
  BY DEF Clear, At, queue, DriverInv, DriverTypeOK, Threads, MainLabels
<1>2. PICK to \in {"end", "round"} :
         pc' = [pc EXCEPT ![Main] = to] /\ (to = "round" => round + 1 # ROUNDS)
  BY DEF Clear, Goto
<1>3. pc'[Main] = to /\ \A k \in Kinds : \A u \in Members(k) : pc'[u] = pc[u] /\ i'[u] = i[u]
  BY <1>1, <1>2, MemberFacts
<1>4. \A k \in Kinds : ~Open(k) /\ Finished(k) /\ ~Open(k)' /\ ~Finished(k)'
  BY <1>1, <1>3 DEF Open, Finished, Kinds
<1>5. /\ round \in Nat /\ ROUNDS \in Nat /\ round < ROUNDS /\ ROUNDS' = ROUNDS /\ Amount' = Amount
      /\ COUNTS_PER_THREAD' = COUNTS_PER_THREAD /\ Base' = Base + Amount
      /\ Amount \in Nat /\ Base \in Nat /\ COUNTS_PER_THREAD \in Nat
  <2>1. /\ round \in Nat /\ ROUNDS \in Nat /\ Amount \in Nat /\ Base \in Nat /\ round <= round
        /\ COUNTS_PER_THREAD \in Nat
    BY Parameters DEF DriverInv
  <2>2. (round + 1) * Amount = round * Amount + Amount
    BY <2>1, Products
  <2>3. Amount' = Amount /\ ROUNDS' = ROUNDS /\ COUNTS_PER_THREAD' = COUNTS_PER_THREAD
    BY <1>1 DEF Amount, ROUNDS, COUNTS_PER_THREAD
  <2> QED
    BY <1>1, <2>1, <2>2, <2>3 DEF Base, MainOK, DriverInv
<1>6. \A k \in Kinds : DoorOK(k)' /\ GateOK(k)'
  <2> SUFFICES ASSUME NEW k \in Kinds PROVE DoorOK(k)' /\ GateOK(k)'
    OBVIOUS
  <2>1. DoorOK(k) /\ GateOK(k) /\ waiting' = waiting
    BY <1>1 DEF DriverInv
  <2>2. DoorOK(k)'
    <3>1. CASE \A u \in Members(k) : pc[u] \notin Arriving
      BY <1>3, <3>1 DEF DoorOK
    <3>2. CASE /\ \A u \in Members(k) : pc[u] \in Arriving \/ (pc[u] = "start" /\ u \in waiting[Door(k)])
               /\ \A u \in waiting[Door(k)] : u \in Members(k) /\ pc[u] = "start"
      BY <1>3, <2>1, <3>2 DEF DoorOK
    <3> QED
      BY <2>1, <3>1, <3>2 DEF DoorOK
  <2>3. GateOK(k)'
    BY <1>3, <1>4, <2>1 DEF GateOK
  <2> QED
    BY <2>2, <2>3
<1>7. \A k \in Kinds : SlotsOK(k)'
  BY <1>1, <1>3, SlotsStay
<1>8. \A k \in Kinds : \A u \in Members(k) : Drawn(k, u) = COUNTS_PER_THREAD /\ Drawn(k, u)' = 0
  BY <1>4 DEF Drawn
<1>9. put_index = Base' /\ pop_index = Base'
  <2>1. Cardinality(AllDrawn("producer")) = Amount /\ Cardinality(AllDrawn("consumer")) = Amount
    BY <1>8, AllHaveDrawn DEF DriverInv, Kinds
  <2> QED
    BY <1>5, <2>1 DEF DriverInv, CountOK
<1>10. CountOK'
  <2>1. \A k \in Kinds : AllDrawn(k)' = {}
    <3> SUFFICES ASSUME NEW k \in Kinds PROVE AllDrawn(k)' = {}
      OBVIOUS
    <3>1. \A d \in Members(k) \X (0 .. COUNTS_PER_THREAD - 1) : ~(d[2] < Drawn(k, d[1])')
      BY <1>5, <1>8
    <3> QED
      BY <1>5, <3>1 DEF AllDrawn
  <2>2. Cardinality({}) = 0
    BY FS_EmptySet
  <2>3. "producer" \in Kinds /\ "consumer" \in Kinds
    BY DEF Kinds
  <2>4. put_index' = put_index /\ pop_index' = pop_index
    BY <1>1 DEF queue
  <2> QED
    BY <1>5, <1>8, <1>9, <2>1, <2>2, <2>3, <2>4 DEF CountOK
<1>11. /\ \A p \in Producers : pc[p] # "enqueuing" /\ pc'[p] = pc[p]
       /\ \A c \in Consumers : pc[c] \notin {"dequeuing", "store"} /\ pc'[c] = pc[c]
  <2>1. \A k \in Kinds : \A u \in Members(k) : pc[u] \notin Inside(k)
    BY <1>4 DEF DriverInv, GateOK
  <2> QED
    BY <1>3, <2>1 DEF Kinds, Members, Producers, Consumers, Inside
<1>12. TicketOK'
  BY <1>1, <1>11 DEF TicketOK, DriverInv, queue
<1>13. ItemsOK'
  <2>1. \A p \in Producers : Drawn("producer", p)' = 0
    BY <1>8 DEF Kinds, Members, Producers
  <2>2. \A p \in Producers : \A j \in 0 .. COUNTS_PER_THREAD' - 1 : ~(j < Drawn("producer", p)')
    BY <1>5, <2>1
  <2> QED
    BY <2>2 DEF ItemsOK
<1>14. ArrayOK'
  <2>1. pop_index' = Base' /\ \A k \in Base' .. pop_index' - 1 : FALSE
    BY <1>1, <1>5, <1>9 DEF queue
  <2> QED
    BY <1>1, <1>11, <2>1 DEF ArrayOK
<1>15. MainOK' /\ VerifiedOK'
  BY <1>1, <1>2, <1>3, <1>4, <1>5 DEF MainOK, VerifiedOK, Kinds
<1>16. DriverTypeOK'
  <2>1. to \in MainLabels
    BY DEF MainLabels
  <2>2. pc' \in [Threads -> MainLabels \cup Labels("producer") \cup Labels("consumer")]
    BY <1>1, <1>2, <2>1
  <2>3. \A k \in Kinds : \A u \in Members(k) : pc'[u] \in Labels(k)
    BY <1>3 DEF DriverInv, DriverTypeOK
  <2>4. round' \in 0 .. ROUNDS
    BY <1>1, <1>5
  <2>5. /\ setup' = setup /\ put_index' = put_index /\ pop_index' = pop_index /\ ticket' = ticket
        /\ putAt' = putAt /\ gotAt' = gotAt /\ array' = {} /\ value' = value
        /\ handles' = handles /\ waiting' = waiting /\ i' = i
    BY <1>1 DEF queue
  <2> QED
    BY <1>3, <1>5, <2>1, <2>2, <2>3, <2>4, <2>5 DEF DriverInv, DriverTypeOK
<1> QED
  BY <1>6, <1>7, <1>10, <1>12, <1>13, <1>14, <1>15, <1>16 DEF DriverInv

-----------------------------------------------------------------------------
(* The operations of a round *)

\* The control when t goes on in its round: nothing but t's own place changes.
LEMMA InsideMoves ==
    ASSUME DriverInv, NEW kind \in Kinds, NEW t \in Members(kind), UNCHANGED <<setup, handles, waiting, round>>,
           pc[t] \in {Ready(kind)} \cup Inside(kind), t \notin waiting[Gate(kind)],
           NEW to \in {Ready(kind)} \cup Inside(kind), NEW n \in Nat,
           pc' = [pc EXCEPT ![t] = to], i' = [i EXCEPT ![t] = n]
    PROVE  /\ Open(kind) /\ MainOK' /\ pc[Main] # "end" /\ round < ROUNDS
           /\ \A k \in Kinds : DoorOK(k)' /\ GateOK(k)' /\ SlotsOK(k)'
           /\ \A k \in Kinds : (Open(k)' <=> Open(k)) /\ (Finished(k)' <=> Finished(k))
           /\ \A k \in Kinds : \A u \in Members(k) :
                 u # t => pc'[u] = pc[u] /\ i'[u] = i[u] /\ Drawn(k, u)' = Drawn(k, u)
           /\ pc'[t] = to /\ i'[t] = n
           /\ pc' \in [Threads -> MainLabels \cup Labels("producer") \cup Labels("consumer")]
           /\ pc'[Main] \in MainLabels
           /\ \A k \in Kinds : \A u \in Members(k) : pc'[u] \in Labels(k)
           /\ i' \in [Threads -> Nat]
           /\ Amount' = Amount /\ Base' = Base /\ COUNTS_PER_THREAD' = COUNTS_PER_THREAD /\ ROUNDS' = ROUNDS
<1>1. t \in Threads /\ t # Main /\ Main \in Threads /\ GateOK(kind) /\ to \in Labels(kind)
  BY MemberFacts DEF Threads, DriverInv, Labels
<1>2. Open(kind)
  BY <1>1, LabelFacts DEF GateOK
<1>3. /\ pc \in [Threads -> MainLabels \cup Labels("producer") \cup Labels("consumer")]
      /\ i \in [Threads -> Nat]
  BY DEF DriverInv, DriverTypeOK
<1>4. /\ pc'[t] = to /\ i'[t] = n /\ pc'[Main] = pc[Main]
      /\ \A u \in Threads : u # t => pc'[u] = pc[u] /\ i'[u] = i[u]
      /\ i' \in [Threads -> Nat]
  BY <1>1, <1>3
<1>5. MainOK' /\ pc[Main] # "end" /\ round < ROUNDS /\ ROUNDS' = ROUNDS
  BY <1>2, <1>4 DEF MainOK, Open, DriverInv, ROUNDS
<1>6. \A k \in Kinds : (Open(k)' <=> Open(k)) /\ (Finished(k)' <=> Finished(k))
  BY <1>4, PhasesStay
<1>7. \A k \in Kinds : \A u \in Members(k) :
         u # t => pc'[u] = pc[u] /\ i'[u] = i[u] /\ Drawn(k, u)' = Drawn(k, u)
  BY <1>4, <1>6, MemberFacts DEF Drawn, COUNTS_PER_THREAD
<1>8. \A k \in Kinds \ {kind} : DoorOK(k)' /\ GateOK(k)'
  <2> SUFFICES ASSUME NEW k \in Kinds \ {kind} PROVE DoorOK(k)' /\ GateOK(k)'
    OBVIOUS
  <2>1. \A u \in Members(k) : pc'[u] = pc[u] /\ i'[u] = i[u]
    BY <1>7, MemberFacts
  <2> QED
    BY <1>6, <2>1, OtherStays
<1>9. DoorOK(kind)' /\ GateOK(kind)'
  <2>1. \A u \in Members(kind) : pc'[u] \notin Arriving
    BY <1>1, <1>2, <1>4, <1>7, LabelFacts DEF GateOK
  <2>2. ASSUME NEW u \in Members(kind) PROVE u \in waiting'[Gate(kind)] <=> pc'[u] = "start"
    <3>1. CASE u = t
      BY <1>4, <3>1, LabelFacts
    <3>2. CASE u # t
      BY <1>1, <1>2, <1>7, <3>2 DEF GateOK
    <3> QED
      BY <3>1, <3>2
  <2>3. waiting'[Gate(kind)] \subseteq Members(kind) \cup {Main}
    BY <1>1 DEF GateOK
  <2> QED
    BY <1>2, <1>6, <2>1, <2>2, <2>3 DEF GateOK, DoorOK
<1>10. \A k \in Kinds : SlotsOK(k)'
  <2> SUFFICES ASSUME NEW k \in Kinds PROVE SlotsOK(k)'
    OBVIOUS
  <2>1. pc[t] \notin Unregistered /\ to \notin Unregistered
    BY LabelFacts
  <2>2. \A u \in Members(k) : /\ pc'[u] \in Unregistered <=> pc[u] \in Unregistered
                              /\ pc[u] \in Unregistered => i'[u] = i[u]
    BY <1>4, <1>7, <2>1
  <2> QED
    BY <2>2, SlotsStay
<1>11. pc' \in [Threads -> MainLabels \cup Labels("producer") \cup Labels("consumer")]
  BY <1>1, <1>3 DEF Kinds
<1>12. pc'[Main] \in MainLabels /\ \A k \in Kinds : \A u \in Members(k) : pc'[u] \in Labels(k)
  BY <1>1, <1>4, <1>7, MemberFacts DEF DriverInv, DriverTypeOK
<1> QED
  BY <1>2, <1>4, <1>5, <1>6, <1>7, <1>8, <1>9, <1>10, <1>11, <1>12 DEF Amount, Base, COUNTS_PER_THREAD

\* How many tickets there can be.
LEMMA TicketBounds ==
    ASSUME DriverInv, round < ROUNDS
    PROVE  /\ put_index \in Base .. Base + Amount /\ pop_index \in Base .. Base + Amount
           /\ Base + Amount <= MaxTicket /\ Base \in Nat /\ Amount \in Nat /\ MaxTicket \in Nat
           /\ \A k \in Base .. Base + Amount : k \in 0 .. MaxTicket
<1>1. Base \in Nat /\ Amount \in Nat /\ MaxTicket \in Nat /\ Base + Amount <= MaxTicket
  BY Parameters, RoomForRound DEF DriverInv
<1>2. \A kind \in Kinds : Cardinality(AllDrawn(kind)) \in 0 .. Amount /\ IsFiniteSet(AllDrawn(kind))
  <2> SUFFICES ASSUME NEW kind \in Kinds
               PROVE  Cardinality(AllDrawn(kind)) \in 0 .. Amount /\ IsFiniteSet(AllDrawn(kind))
    OBVIOUS
  <2>1. PICK C \in Nat : C = COUNTS_PER_THREAD
    BY Parameters DEF DriverInv
  <2>2. IsFiniteSet(0 .. C - 1) /\ Cardinality(0 .. C - 1) = C
    BY <2>1, FS_Interval
  <2>3. IsFiniteSet(Members(kind)) /\ Cardinality(Members(kind)) = N_THREADS
    BY MembersFinite
  <2>4. AllDrawn(kind) \subseteq Members(kind) \X (0 .. C - 1)
    BY <2>1 DEF AllDrawn
  <2> HIDE DEF Members
  <2>5. /\ IsFiniteSet(Members(kind) \X (0 .. C - 1))
        /\ Cardinality(Members(kind) \X (0 .. C - 1)) = Cardinality(Members(kind)) * Cardinality(0 .. C - 1)
    BY <2>2, <2>3, FS_Product
  <2>6. Cardinality(Members(kind) \X (0 .. C - 1)) = Amount
    BY <2>1, <2>2, <2>3, <2>5 DEF Amount
  <2>7. IsFiniteSet(AllDrawn(kind)) /\ Cardinality(AllDrawn(kind)) <= Amount
    BY <2>4, <2>5, <2>6, FS_Subset
  <2>8. Cardinality(AllDrawn(kind)) \in Nat
    BY <2>7, FS_CardinalityType
  <2> QED
    BY <1>1, <2>7, <2>8
<1>3. put_index \in Base .. Base + Amount /\ pop_index \in Base .. Base + Amount
  BY <1>1, <1>2 DEF DriverInv, CountOK, Kinds
<1> QED
  BY <1>1, <1>3

LEMMA DrawOne ==
    ASSUME DriverInv, NEW kind \in Kinds, NEW t \in Members(kind), UNCHANGED setup, round < ROUNDS,
           NEW n \in Nat, n < COUNTS_PER_THREAD, Drawn(kind, t) = n, Drawn(kind, t)' = n + 1,
           \A u \in Members(kind) : u # t => Drawn(kind, u)' = Drawn(kind, u)
    PROVE  /\ Cardinality(AllDrawn(kind)') = Cardinality(AllDrawn(kind)) + 1
           /\ Cardinality(AllDrawn(kind)) \in Nat
<1>1. COUNTS_PER_THREAD \in Nat /\ COUNTS_PER_THREAD' = COUNTS_PER_THREAD
  BY Parameters DEF DriverInv, COUNTS_PER_THREAD
<1>2. IsFiniteSet(AllDrawn(kind))
  <2>1. IsFiniteSet(0 .. COUNTS_PER_THREAD - 1)
    BY <1>1, FS_Interval
  <2>2. IsFiniteSet(Members(kind) \X (0 .. COUNTS_PER_THREAD - 1))
    BY <2>1, MembersFinite, FS_Product
  <2> QED
    BY <2>2, FS_Subset DEF AllDrawn
<1>3. <<t, n>> \notin AllDrawn(kind)
  BY DEF AllDrawn
<1>4. AllDrawn(kind)' = AllDrawn(kind) \cup {<<t, n>>}
  <2>1. <<t, n>> \in Members(kind) \X (0 .. COUNTS_PER_THREAD - 1) /\ <<t, n>>[1] = t /\ <<t, n>>[2] = n
    BY <1>1
  <2>2. ASSUME NEW d \in Members(kind) \X (0 .. COUNTS_PER_THREAD - 1)
        PROVE  d[2] < Drawn(kind, d[1])' <=> d[2] < Drawn(kind, d[1]) \/ d = <<t, n>>
    <3>1. d[1] \in Members(kind) /\ d[2] \in Nat /\ d = <<d[1], d[2]>>
      BY <1>1
    <3>2. CASE d[1] = t
      <4>1. d[2] < n + 1 <=> d[2] < n \/ d[2] = n
        BY <3>1
      <4>2. d = <<t, n>> <=> d[2] = n
        BY <3>1, <3>2
      <4> QED
        BY <3>2, <4>1, <4>2
    <3>3. CASE d[1] # t
      BY <2>1, <3>1, <3>3
    <3> QED
      BY <3>2, <3>3
  <2>3. AllDrawn(kind)' = {d \in Members(kind) \X (0 .. COUNTS_PER_THREAD - 1) : d[2] < Drawn(kind, d[1])'}
    BY <1>1 DEF AllDrawn
  <2> QED
    BY <2>1, <2>2, <2>3 DEF AllDrawn
<1> QED
  BY <1>2, <1>3, <1>4, FS_AddElement, FS_CardinalityType

LEMMA DrawNone ==
    ASSUME UNCHANGED setup, NEW kind \in Kinds, \A u \in Members(kind) : Drawn(kind, u)' = Drawn(kind, u)
    PROVE  AllDrawn(kind)' = AllDrawn(kind)
<1>1. \A d \in Members(kind) \X (0 .. COUNTS_PER_THREAD - 1) :
         d[1] \in Members(kind) /\ Drawn(kind, d[1])' = Drawn(kind, d[1])
  OBVIOUS
<1> QED
  BY <1>1 DEF AllDrawn, COUNTS_PER_THREAD

\* The consumers' side of a producer's step, and the producers' of a consumer's.
LEMMA ArrayStays ==
    ASSUME DriverInv, UNCHANGED <<setup, round, pop_index, gotAt, array, value>>,
           \A c \in Consumers : pc'[c] = pc[c] /\ ticket'[c] = ticket[c]
    PROVE  ArrayOK'
<1>1. Base' = Base /\ \A n : IsGot(n)' = IsGot(n)
  BY DEF Base, Amount, COUNTS_PER_THREAD, IsGot
<1> QED
  BY <1>1 DEF ArrayOK, DriverInv

LEMMA ItemsStay ==
    ASSUME DriverInv, UNCHANGED <<setup, round, put_index, putAt>>,
           \A p \in Producers : /\ pc'[p] = pc[p] /\ i'[p] = i[p] /\ ticket'[p] = ticket[p]
                                /\ Drawn("producer", p)' = Drawn("producer", p)
    PROVE  ItemsOK'
<1>1. Base' = Base /\ COUNTS_PER_THREAD' = COUNTS_PER_THREAD
  BY DEF Base, Amount, COUNTS_PER_THREAD
<1>2. \A n : IsPut(n)' = IsPut(n)
  BY <1>1 DEF IsPut
<1>3. \A p \in Producers : Put(p)' = Put(p)
  BY DEF Put
<1>4. \A p \in Producers, j \in Nat : ItemOf(p, j)' = ItemOf(p, j)
  BY <1>1 DEF ItemOf
<1> QED
  BY <1>1, <1>2, <1>3, <1>4 DEF ItemsOK, DriverInv

LEMMA EnqueueCallStep == ASSUME DriverInv, NEW p \in Producers, EnqueueCall(p) PROVE DriverInv'
<1>1. "producer" \in Kinds /\ "consumer" \in Kinds /\ p \in Members("producer")
      /\ Producers = Members("producer") /\ Consumers = Members("consumer")
  BY DEF Kinds, Members, Producers, Consumers
<1>2. /\ pc[p] = "enqueue" /\ i[p] \in Nat /\ i[p] < COUNTS_PER_THREAD
      /\ \A b \in DOMAIN waiting : p \notin waiting[b]
      /\ ticket[p] = NULL /\ ticket' = [ticket EXCEPT ![p] = put_index] /\ put_index' = put_index + 1
      /\ pc' = [pc EXCEPT ![p] = "enqueuing"]
      /\ UNCHANGED <<pop_index, putAt, gotAt>> /\ UNCHANGED <<setup, handles, waiting, array, i, value, round>>
      /\ waiting \in [{"enq", "deq", "prod", "cons"} -> SUBSET Threads]
      /\ i \in [Threads -> Nat] /\ p \in Threads
      /\ ticket \in [Producers \cup Consumers -> Nat \cup {NULL}]
  BY <1>1, MemberFacts DEF EnqueueCall, At, EnqueueBegin, Goto, DriverInv, DriverTypeOK
<1>3. PICK n \in Nat : n = i[p] /\ i' = [i EXCEPT ![p] = n]
  BY <1>2
<1>4. /\ pc[p] \in {Ready("producer")} \cup Inside("producer") /\ p \notin waiting[Gate("producer")]
      /\ "enqueuing" \in {Ready("producer")} \cup Inside("producer")
  BY <1>2 DEF Ready, Inside, Gate
<1>5. /\ Open("producer") /\ MainOK' /\ pc[Main] # "end" /\ round < ROUNDS
      /\ \A k \in Kinds : DoorOK(k)' /\ GateOK(k)' /\ SlotsOK(k)'
      /\ \A k \in Kinds : (Open(k)' <=> Open(k)) /\ (Finished(k)' <=> Finished(k))
      /\ \A k \in Kinds : \A u \in Members(k) :
            u # p => pc'[u] = pc[u] /\ i'[u] = i[u] /\ Drawn(k, u)' = Drawn(k, u)
      /\ pc'[p] = "enqueuing" /\ i'[p] = n
      /\ pc' \in [Threads -> MainLabels \cup Labels("producer") \cup Labels("consumer")]
      /\ pc'[Main] \in MainLabels
      /\ \A k \in Kinds : \A u \in Members(k) : pc'[u] \in Labels(k)
      /\ i' \in [Threads -> Nat]
      /\ Amount' = Amount /\ Base' = Base /\ COUNTS_PER_THREAD' = COUNTS_PER_THREAD /\ ROUNDS' = ROUNDS
  <2>1. UNCHANGED <<setup, handles, waiting, round>>
    BY <1>2
  <2>2. pc' = [pc EXCEPT ![p] = "enqueuing"] /\ i' = [i EXCEPT ![p] = n]
    BY <1>2, <1>3
  <2> QED
    BY <1>1, <1>4, <2>1, <2>2, InsideMoves
<1>6. Drawn("producer", p) = n /\ Drawn("producer", p)' = n + 1
  BY <1>1, <1>2, <1>3, <1>5 DEF Drawn, Inside
<1>7. /\ Cardinality(AllDrawn("producer")') = Cardinality(AllDrawn("producer")) + 1
      /\ Cardinality(AllDrawn("producer")) \in Nat
  BY <1>1, <1>2, <1>3, <1>5, <1>6, DrawOne
<1>8. /\ put_index \in Base .. Base + Amount /\ Base \in Nat /\ Amount \in Nat
      /\ put_index \in Nat /\ put_index \in 0 .. MaxTicket
  BY <1>5, TicketBounds DEF DriverInv, DriverTypeOK
<1>9. \A c \in Consumers : pc'[c] = pc[c] /\ ticket'[c] = ticket[c] /\ Drawn("consumer", c)' = Drawn("consumer", c)
  BY <1>1, <1>2, <1>5, MemberFacts
<1>10. CountOK'
  <2>1. AllDrawn("consumer")' = AllDrawn("consumer")
    BY <1>1, <1>2, <1>9, DrawNone
  <2>2. put_index' = Base' + Cardinality(AllDrawn("producer")')
    <3>1. put_index = Base + Cardinality(AllDrawn("producer"))
      BY DEF DriverInv, CountOK
    <3>2. PICK x \in Nat : /\ x = Cardinality(AllDrawn("producer")) /\ put_index = Base + x
                          /\ Cardinality(AllDrawn("producer")') = x + 1
      BY <1>7, <3>1
    <3> QED
      BY <1>2, <1>5, <1>8, <3>2
  <2>3. pop_index' = Base' + Cardinality(AllDrawn("consumer")')
    BY <1>2, <1>5, <2>1 DEF DriverInv, CountOK
  <2>4. \A k \in Kinds : \A u \in Members(k) : Drawn(k, u)' <= COUNTS_PER_THREAD'
    <3>1. n + 1 <= COUNTS_PER_THREAD /\ COUNTS_PER_THREAD \in Nat
      BY <1>2, <1>3, Parameters DEF DriverInv
    <3>2. \A k \in Kinds : \A u \in Members(k) : u # p => Drawn(k, u)' <= COUNTS_PER_THREAD
      BY <1>5 DEF DriverInv, CountOK
    <3>3. \A k \in Kinds : \A u \in Members(k) : u = p => k = "producer"
      BY <1>1, MemberFacts
    <3> QED
      BY <1>5, <1>6, <3>1, <3>2, <3>3
  <2> QED
    BY <2>2, <2>3, <2>4 DEF CountOK
<1>11. TicketOK'
  <2>1. \A r \in Producers : /\ r # p => pc'[r] = pc[r] /\ ticket'[r] = ticket[r]
                             /\ r = p => ticket'[r] = put_index
    BY <1>1, <1>2, <1>5
  <2>2. \A r \in Producers : /\ pc'[r] = "enqueuing" => ticket'[r] \in Base .. put_index
                             /\ pc'[r] # "enqueuing" => ticket'[r] = NULL
    <3>1. \A r \in Producers : r # p /\ pc[r] = "enqueuing" => ticket[r] \in Base .. put_index - 1
      BY DEF DriverInv, TicketOK
    <3>2. \A r \in Producers : pc[r] # "enqueuing" => ticket[r] = NULL
      BY DEF DriverInv, TicketOK
    <3>3. \A x \in Base .. put_index - 1 : x \in Base .. put_index
      BY <1>8
    <3>4. put_index \in Base .. put_index
      BY <1>8
    <3> QED
      BY <1>5, <2>1, <3>1, <3>2, <3>3, <3>4
  <2>3. \A r, q \in Producers : r # q /\ pc'[r] = "enqueuing" /\ pc'[q] = "enqueuing" => ticket'[r] # ticket'[q]
    <3>1. \A r \in Producers : r # p /\ pc[r] = "enqueuing" => ticket[r] # put_index
      <4>1. \A r \in Producers : pc[r] = "enqueuing" => ticket[r] \in Base .. put_index - 1
        BY DEF DriverInv, TicketOK
      <4>2. put_index \notin Base .. put_index - 1
        BY <1>8
      <4> QED
        BY <4>1, <4>2
    <3>2. \A r, q \in Producers : r # q /\ pc[r] = "enqueuing" /\ pc[q] = "enqueuing" => ticket[r] # ticket[q]
      BY DEF DriverInv, TicketOK
    <3> QED
      BY <2>1, <3>1, <3>2
  <2>4. \A k \in 0 .. MaxTicket : /\ putAt'[k] # NULL => k < put_index'
                                  /\ gotAt'[k] # NULL => gotAt'[k] = putAt'[k]
    <3>1. \A k \in 0 .. MaxTicket : k < put_index => k < put_index'
      BY <1>2, <1>8
    <3> QED
      BY <1>2, <3>1 DEF DriverInv, TicketOK
  <2>5. \A c \in Consumers :
          /\ pc'[c] = "dequeuing" => ticket'[c] \in Base' .. pop_index' - 1
          /\ pc'[c] # "dequeuing" => ticket'[c] = NULL
    BY <1>2, <1>5, <1>9 DEF DriverInv, TicketOK
  <2>6. put_index' - 1 = put_index
    BY <1>2, <1>8
  <2> QED
    BY <1>5, <2>2, <2>3, <2>4, <2>5, <2>6 DEF TicketOK
<1>12. ItemsOK'
  <2> SUFFICES ASSUME NEW r \in Producers, NEW j \in 0 .. COUNTS_PER_THREAD' - 1, j < Drawn("producer", r)'
               PROVE  IsPut(ItemOf(r, j))' \/ (pc'[r] = "enqueuing" /\ j = i'[r] /\ ~Put(r)')
    BY DEF ItemsOK
  <2>1. j \in 0 .. COUNTS_PER_THREAD - 1 /\ ItemOf(r, j)' = ItemOf(r, j)
    BY <1>5 DEF ItemOf
  <2>2. IsPut(ItemOf(r, j)) => IsPut(ItemOf(r, j))'
    <3>1. \A k \in Base .. put_index - 1 : k \in Base' .. put_index' - 1
      BY <1>2, <1>5, <1>8
    <3> QED
      BY <1>2, <2>1, <3>1 DEF IsPut
  <2>3. CASE r # p
    <3>1. pc'[r] = pc[r] /\ i'[r] = i[r] /\ ticket'[r] = ticket[r] /\ j < Drawn("producer", r)
      BY <1>1, <1>2, <1>5, <2>3
    <3>2. Put(r)' = Put(r)
      BY <1>2, <3>1 DEF Put
    <3>3. IsPut(ItemOf(r, j)) \/ (pc[r] = "enqueuing" /\ j = i[r] /\ ~Put(r))
      BY <2>1, <3>1 DEF ItemsOK, DriverInv
    <3> QED
      BY <2>2, <3>1, <3>2, <3>3
  <2>4. CASE r = p
    <3>1. j = n \/ j < n
      BY <1>5, <1>6, <2>1, <2>4, Parameters DEF DriverInv
    <3>2. j < n => IsPut(ItemOf(r, j))
      BY <1>2, <1>6, <2>1, <2>4 DEF ItemsOK, DriverInv
    <3>3. ~Put(p)'
      <4>1. ticket'[p] = put_index /\ putAt' = putAt
        BY <1>1, <1>2
      <4>2. putAt[put_index] = NULL
        BY <1>8 DEF DriverInv, TicketOK
      <4> QED
        BY <4>1, <4>2 DEF Put
    <3> QED
      BY <1>5, <2>2, <2>4, <3>1, <3>2, <3>3
  <2> QED
    BY <2>3, <2>4
<1>13. ArrayOK'
  BY <1>2, <1>9, ArrayStays
<1>14. VerifiedOK'
  BY <1>1, <1>2, <1>5 DEF VerifiedOK, DriverInv
<1>15. DriverTypeOK'
  <2>1. put_index' \in Nat /\ ticket' \in [Producers \cup Consumers -> Nat \cup {NULL}]
    BY <1>2, <1>8
  <2> QED
    BY <1>2, <1>5, <2>1 DEF DriverInv, DriverTypeOK
<1> QED
  BY <1>5, <1>10, <1>11, <1>12, <1>13, <1>14, <1>15 DEF DriverInv

LEMMA EnqueueStepStep == ASSUME DriverInv, NEW p \in Producers, EnqueueStep(p) PROVE DriverInv'
<1>1. "producer" \in Kinds /\ "consumer" \in Kinds /\ p \in Members("producer") /\ p \notin Consumers
      /\ Producers = Members("producer") /\ Consumers = Members("consumer")
  BY DEF Kinds, Members, Producers, Consumers
<1>2. /\ pc[p] = "enqueuing" /\ \A b \in DOMAIN waiting : p \notin waiting[b]
      /\ Deposit(p, {Item(p)}) \/ Return(p)
      /\ ticket' \in [Producers \cup Consumers -> Nat \cup {NULL}]
      /\ \A u \in Producers \cup Consumers : u # p => ticket'[u] = ticket[u]
      /\ ticket'[p] = ticket[p] \/ ticket'[p] = NULL
      /\ UNCHANGED <<put_index, pop_index, gotAt>> /\ UNCHANGED <<setup, handles, waiting, array, value, round>>
      /\ waiting \in [{"enq", "deq", "prod", "cons"} -> SUBSET Threads]
      /\ pc \in [Threads -> MainLabels \cup Labels("producer") \cup Labels("consumer")]
      /\ i \in [Threads -> Nat] /\ p \in Threads /\ i[p] \in Nat
  BY <1>1, MemberFacts DEF EnqueueStep, At, Deposit, Return, MayReturn, DriverInv, DriverTypeOK
<1>3. PICK n \in Nat : n = i[p]
  BY <1>2
<1>4. PICK m \in Nat, to \in {"enqueue", "enqueuing"} :
         /\ i' = [i EXCEPT ![p] = m] /\ pc' = [pc EXCEPT ![p] = to]
         /\ IF ticket'[p] = NULL THEN to = "enqueue" /\ m = n + 1 ELSE to = "enqueuing" /\ m = n
  <2>1. CASE ticket'[p] = NULL
    BY <1>2, <1>3, <2>1 DEF EnqueueStep, Goto
  <2>2. CASE ticket'[p] # NULL
    <3>1. i' = i /\ pc' = pc
      BY <2>2 DEF EnqueueStep
    <3>2. i' = [i EXCEPT ![p] = n] /\ pc' = [pc EXCEPT ![p] = "enqueuing"]
      BY <1>2, <1>3, <3>1
    <3> QED
      BY <2>2, <3>2
  <2> QED
    BY <2>1, <2>2
<1>5. /\ Open("producer") /\ MainOK' /\ pc[Main] # "end" /\ round < ROUNDS
      /\ \A k \in Kinds : DoorOK(k)' /\ GateOK(k)' /\ SlotsOK(k)'
      /\ \A k \in Kinds : (Open(k)' <=> Open(k)) /\ (Finished(k)' <=> Finished(k))
      /\ \A k \in Kinds : \A u \in Members(k) :
            u # p => pc'[u] = pc[u] /\ i'[u] = i[u] /\ Drawn(k, u)' = Drawn(k, u)
      /\ pc'[p] = to /\ i'[p] = m
      /\ pc' \in [Threads -> MainLabels \cup Labels("producer") \cup Labels("consumer")]
      /\ pc'[Main] \in MainLabels
      /\ \A k \in Kinds : \A u \in Members(k) : pc'[u] \in Labels(k)
      /\ i' \in [Threads -> Nat]
      /\ Amount' = Amount /\ Base' = Base /\ COUNTS_PER_THREAD' = COUNTS_PER_THREAD /\ ROUNDS' = ROUNDS
  <2>1. UNCHANGED <<setup, handles, waiting, round>>
    BY <1>2
  <2>2. pc[p] \in {Ready("producer")} \cup Inside("producer") /\ p \notin waiting[Gate("producer")]
        /\ to \in {Ready("producer")} \cup Inside("producer")
    BY <1>2 DEF Ready, Inside, Gate
  <2>3. pc' = [pc EXCEPT ![p] = to] /\ i' = [i EXCEPT ![p] = m]
    BY <1>4
  <2> QED
    BY <1>1, <2>1, <2>2, <2>3, InsideMoves
<1>6. Drawn("producer", p) = n + 1 /\ Drawn("producer", p)' = n + 1
  BY <1>1, <1>2, <1>3, <1>4, <1>5 DEF Drawn, Inside
<1>7. \A k \in Kinds : \A u \in Members(k) : Drawn(k, u)' = Drawn(k, u)
  BY <1>1, <1>5, <1>6, MemberFacts
<1>8. /\ put_index \in Base .. Base + Amount /\ Base \in Nat /\ Amount \in Nat
      /\ put_index \in Nat /\ put_index \in 0 .. MaxTicket
  BY <1>5, TicketBounds DEF DriverInv, DriverTypeOK
<1>9. PICK tk \in Base .. put_index - 1 : tk = ticket[p] /\ tk # NULL /\ tk \in 0 .. MaxTicket
  <2>1. ticket[p] \in Base .. put_index - 1
    BY <1>2 DEF DriverInv, TicketOK
  <2>2. \A x \in Base .. put_index - 1 : x \in 0 .. MaxTicket /\ x \in Nat
    BY <1>8, Parameters DEF DriverInv
  <2>3. \A x \in Nat : x # NULL
    BY DriverAssumption
  <2> QED
    BY <2>1, <2>2, <2>3
<1>10. n + 1 <= COUNTS_PER_THREAD /\ n \in 0 .. COUNTS_PER_THREAD - 1
  <2>1. n + 1 <= COUNTS_PER_THREAD
    BY <1>1, <1>6 DEF DriverInv, CountOK
  <2> QED
    BY <2>1, Parameters DEF DriverInv
<1>11. Item(p) = ItemOf(p, n) /\ Item(p) \in 1 .. Amount /\ Item(p) # NULL
  <2>1. Item(p) = ItemOf(p, n)
    BY <1>3 DEF Item, ItemOf
  <2>2. ItemOf(p, n) \in 1 .. Amount
    BY <1>10, ItemsAreNumbers DEF DriverInv
  <2>3. \A x \in 1 .. Amount : x # NULL
    BY <1>8, DriverAssumption
  <2> QED
    BY <2>1, <2>2, <2>3
<1>12. /\ \/ putAt[tk] = NULL /\ putAt'[tk] = Item(p)
          \/ putAt[tk] # NULL /\ putAt'[tk] = putAt[tk] /\ ticket'[p] = NULL
       /\ \A k \in 0 .. MaxTicket : k # tk => putAt'[k] = putAt[k]
       /\ putAt' \in [0 .. MaxTicket -> (1 .. Amount) \cup {NULL}]
  <2>1. putAt \in [0 .. MaxTicket -> (1 .. Amount) \cup {NULL}]
    BY DEF DriverInv, DriverTypeOK
  <2>2. CASE Deposit(p, {Item(p)})
    <3>1. putAt' = [putAt EXCEPT ![tk] = Item(p)] /\ putAt[tk] = NULL
      BY <1>9, <2>2 DEF Deposit, Put
    <3> QED
      BY <1>9, <1>11, <2>1, <3>1
  <2>3. CASE Return(p)
    <3>1. putAt' = putAt /\ putAt[tk] # NULL /\ ticket'[p] = NULL
      BY <1>1, <1>9, <2>3 DEF Return, Put, DriverInv, DriverTypeOK
    <3> QED
      BY <2>1, <3>1
  <2> QED
    BY <1>2, <2>2, <2>3
<1>13. CountOK'
  <2>1. AllDrawn("producer")' = AllDrawn("producer") /\ AllDrawn("consumer")' = AllDrawn("consumer")
    BY <1>1, <1>2, <1>7, DrawNone
  <2> QED
    BY <1>2, <1>5, <1>7, <2>1 DEF DriverInv, CountOK
<1>14. TicketOK'
  <2>1. \A r \in Producers : /\ pc'[r] = "enqueuing" => pc[r] = "enqueuing" /\ ticket'[r] = ticket[r]
                             /\ pc'[r] # "enqueuing" => ticket'[r] = NULL
    <3>1. \A r \in Producers : r # p => pc'[r] = pc[r] /\ ticket'[r] = ticket[r]
      BY <1>1, <1>2, <1>5
    <3>2. \A r \in Producers : pc[r] # "enqueuing" => ticket[r] = NULL
      BY DEF DriverInv, TicketOK
    <3> QED
      BY <1>2, <1>4, <1>5, <3>1, <3>2
  <2>2. \A k \in 0 .. MaxTicket : /\ putAt'[k] # NULL => k < put_index
                                  /\ gotAt[k] # NULL => gotAt[k] = putAt'[k]
    <3>1. tk < put_index
      BY <1>8, <1>9
    <3> QED
      BY <1>9, <1>12, <3>1 DEF DriverInv, TicketOK
  <2>3. \A c \in Consumers : pc'[c] = pc[c] /\ ticket'[c] = ticket[c]
    BY <1>1, <1>2, <1>5, MemberFacts
  <2> QED
    BY <1>2, <1>5, <2>1, <2>2, <2>3 DEF DriverInv, TicketOK
<1>15. ItemsOK'
  <2> SUFFICES ASSUME NEW r \in Producers, NEW j \in 0 .. COUNTS_PER_THREAD' - 1, j < Drawn("producer", r)'
               PROVE  IsPut(ItemOf(r, j))' \/ (pc'[r] = "enqueuing" /\ j = i'[r] /\ ~Put(r)')
    BY DEF ItemsOK
  <2>1. j \in 0 .. COUNTS_PER_THREAD - 1 /\ ItemOf(r, j)' = ItemOf(r, j) /\ j < Drawn("producer", r)
    BY <1>1, <1>5, <1>7 DEF ItemOf
  <2>2. IsPut(ItemOf(r, j)) => IsPut(ItemOf(r, j))'
    <3>1. ItemOf(r, j) # NULL
      <4>1. ItemOf(r, j) \in 1 .. Amount
        BY <2>1, ItemsAreNumbers DEF DriverInv
      <4> QED
        BY <1>8, <4>1, DriverAssumption
    <3>2. \A k \in Base .. put_index - 1 : k \in 0 .. MaxTicket
      BY <1>8, Parameters DEF DriverInv
    <3>3. \A k \in Base .. put_index - 1 : putAt[k] = ItemOf(r, j) => putAt'[k] = ItemOf(r, j)
      BY <1>12, <3>1, <3>2
    <3> QED
      BY <1>2, <1>5, <2>1, <3>3 DEF IsPut
  <2>3. IsPut(ItemOf(r, j)) \/ (pc[r] = "enqueuing" /\ j = i[r] /\ ~Put(r))
    BY <2>1 DEF ItemsOK, DriverInv
  <2>4. CASE IsPut(ItemOf(r, j))
    BY <2>2, <2>4
  <2>5. CASE r # p /\ pc[r] = "enqueuing" /\ j = i[r] /\ ~Put(r)
    <3>1. pc'[r] = pc[r] /\ i'[r] = i[r] /\ ticket'[r] = ticket[r]
      BY <1>1, <1>2, <1>5, <2>5
    <3>2. ticket[r] # tk /\ ticket[r] \in 0 .. MaxTicket
      <4>1. ticket[r] # ticket[p] /\ ticket[r] \in Base .. put_index - 1
        BY <1>2, <2>5 DEF DriverInv, TicketOK
      <4> QED
        BY <1>8, <1>9, <4>1, Parameters DEF DriverInv
    <3>3. ~Put(r)'
      BY <1>12, <2>5, <3>1, <3>2 DEF Put
    <3> QED
      BY <2>5, <3>1, <3>3
  <2>6. CASE r = p /\ j = i[p] /\ ~Put(p)
    <3>1. putAt'[tk] = ItemOf(p, n) /\ ItemOf(r, j) = ItemOf(p, n)
      BY <1>3, <1>9, <1>11, <1>12, <2>6 DEF Put
    <3>2. tk \in Base' .. put_index' - 1
      BY <1>2, <1>5, <1>9
    <3> QED
      BY <2>1, <3>1, <3>2 DEF IsPut
  <2> QED
    BY <2>3, <2>4, <2>5, <2>6
<1>16. ArrayOK'
  <2>1. \A c \in Consumers : pc'[c] = pc[c] /\ ticket'[c] = ticket[c]
    BY <1>1, <1>2, <1>5, MemberFacts
  <2> QED
    BY <1>2, <2>1, ArrayStays
<1>17. VerifiedOK'
  BY <1>1, <1>2, <1>5 DEF VerifiedOK, DriverInv
<1>18. DriverTypeOK'
  BY <1>2, <1>5, <1>12 DEF DriverInv, DriverTypeOK
<1> QED
  BY <1>5, <1>13, <1>14, <1>15, <1>16, <1>17, <1>18 DEF DriverInv

LEMMA DequeueCallStep == ASSUME DriverInv, NEW c \in Consumers, DequeueCall(c) PROVE DriverInv'
<1>1. "producer" \in Kinds /\ "consumer" \in Kinds /\ c \in Members("consumer") /\ c \notin Producers
      /\ Producers = Members("producer") /\ Consumers = Members("consumer")
  BY DEF Kinds, Members, Producers, Consumers
<1>2. /\ pc[c] = "dequeue" /\ i[c] \in Nat /\ i[c] < COUNTS_PER_THREAD
      /\ \A b \in DOMAIN waiting : c \notin waiting[b]
      /\ ticket[c] = NULL /\ ticket' = [ticket EXCEPT ![c] = pop_index] /\ pop_index' = pop_index + 1
      /\ pc' = [pc EXCEPT ![c] = "dequeuing"]
      /\ UNCHANGED <<put_index, putAt, gotAt>> /\ UNCHANGED <<setup, handles, waiting, array, i, value, round>>
      /\ waiting \in [{"enq", "deq", "prod", "cons"} -> SUBSET Threads]
      /\ i \in [Threads -> Nat] /\ c \in Threads
      /\ ticket \in [Producers \cup Consumers -> Nat \cup {NULL}]
  BY <1>1, MemberFacts DEF DequeueCall, At, DequeueBegin, Goto, DriverInv, DriverTypeOK
<1>3. PICK n \in Nat : n = i[c] /\ i' = [i EXCEPT ![c] = n]
  BY <1>2
<1>4. /\ Open("consumer") /\ MainOK' /\ pc[Main] # "end" /\ round < ROUNDS
      /\ \A k \in Kinds : DoorOK(k)' /\ GateOK(k)' /\ SlotsOK(k)'
      /\ \A k \in Kinds : (Open(k)' <=> Open(k)) /\ (Finished(k)' <=> Finished(k))
      /\ \A k \in Kinds : \A u \in Members(k) :
            u # c => pc'[u] = pc[u] /\ i'[u] = i[u] /\ Drawn(k, u)' = Drawn(k, u)
      /\ pc'[c] = "dequeuing" /\ i'[c] = n
      /\ pc' \in [Threads -> MainLabels \cup Labels("producer") \cup Labels("consumer")]
      /\ pc'[Main] \in MainLabels
      /\ \A k \in Kinds : \A u \in Members(k) : pc'[u] \in Labels(k)
      /\ i' \in [Threads -> Nat]
      /\ Amount' = Amount /\ Base' = Base /\ COUNTS_PER_THREAD' = COUNTS_PER_THREAD /\ ROUNDS' = ROUNDS
  <2>1. UNCHANGED <<setup, handles, waiting, round>>
    BY <1>2
  <2>2. /\ pc[c] \in {Ready("consumer")} \cup Inside("consumer") /\ c \notin waiting[Gate("consumer")]
        /\ "dequeuing" \in {Ready("consumer")} \cup Inside("consumer")
    BY <1>2 DEF Ready, Inside, Gate
  <2>3. pc' = [pc EXCEPT ![c] = "dequeuing"] /\ i' = [i EXCEPT ![c] = n]
    BY <1>2, <1>3
  <2> QED
    BY <1>1, <2>1, <2>2, <2>3, InsideMoves
<1>5. Drawn("consumer", c) = n /\ Drawn("consumer", c)' = n + 1
  BY <1>1, <1>2, <1>3, <1>4 DEF Drawn, Inside
<1>6. /\ Cardinality(AllDrawn("consumer")') = Cardinality(AllDrawn("consumer")) + 1
      /\ Cardinality(AllDrawn("consumer")) \in Nat
  BY <1>1, <1>2, <1>3, <1>4, <1>5, DrawOne
<1>7. /\ pop_index \in Base .. Base + Amount /\ Base \in Nat /\ Amount \in Nat
      /\ pop_index \in Nat /\ pop_index \in 0 .. MaxTicket
  BY <1>4, TicketBounds DEF DriverInv, DriverTypeOK
<1>8. \A p \in Producers : /\ pc'[p] = pc[p] /\ ticket'[p] = ticket[p] /\ i'[p] = i[p]
                           /\ Drawn("producer", p)' = Drawn("producer", p)
  BY <1>1, <1>2, <1>4, MemberFacts
<1>9. CountOK'
  <2>1. AllDrawn("producer")' = AllDrawn("producer")
    BY <1>1, <1>2, <1>8, DrawNone
  <2>2. pop_index' = Base' + Cardinality(AllDrawn("consumer")')
    <3>1. pop_index = Base + Cardinality(AllDrawn("consumer"))
      BY DEF DriverInv, CountOK
    <3>2. PICK x \in Nat : /\ x = Cardinality(AllDrawn("consumer")) /\ pop_index = Base + x
                          /\ Cardinality(AllDrawn("consumer")') = x + 1
      BY <1>6, <3>1
    <3> QED
      BY <1>2, <1>4, <1>7, <3>2
  <2>3. put_index' = Base' + Cardinality(AllDrawn("producer")')
    BY <1>2, <1>4, <2>1 DEF DriverInv, CountOK
  <2>4. \A k \in Kinds : \A u \in Members(k) : Drawn(k, u)' <= COUNTS_PER_THREAD'
    <3>1. n + 1 <= COUNTS_PER_THREAD /\ COUNTS_PER_THREAD \in Nat
      BY <1>2, <1>3, Parameters DEF DriverInv
    <3>2. \A k \in Kinds : \A u \in Members(k) : u # c => Drawn(k, u)' <= COUNTS_PER_THREAD
      BY <1>4 DEF DriverInv, CountOK
    <3>3. \A k \in Kinds : \A u \in Members(k) : u = c => k = "consumer"
      BY <1>1, MemberFacts
    <3> QED
      BY <1>4, <1>5, <3>1, <3>2, <3>3
  <2> QED
    BY <2>2, <2>3, <2>4 DEF CountOK
<1>10. \A d \in Consumers : /\ d # c => pc'[d] = pc[d] /\ ticket'[d] = ticket[d]
                            /\ d = c => ticket'[d] = pop_index /\ pc'[d] = "dequeuing" /\ pc[d] = "dequeue"
  BY <1>1, <1>2, <1>4
<1>11. TicketOK'
  <2>1. \A d \in Consumers : /\ pc'[d] = "dequeuing" => ticket'[d] \in Base' .. pop_index' - 1
                             /\ pc'[d] # "dequeuing" => ticket'[d] = NULL
    <3>1. \A d \in Consumers : /\ pc[d] = "dequeuing" => ticket[d] \in Base .. pop_index - 1
                               /\ pc[d] # "dequeuing" => ticket[d] = NULL
      BY DEF DriverInv, TicketOK
    <3>2. \A x \in Base .. pop_index - 1 : x \in Base' .. pop_index' - 1
      BY <1>2, <1>4, <1>7
    <3>3. pop_index \in Base' .. pop_index' - 1
      BY <1>2, <1>4, <1>7
    <3> QED
      BY <1>10, <3>1, <3>2, <3>3
  <2> QED
    BY <1>2, <1>4, <1>8, <2>1 DEF DriverInv, TicketOK
<1>12. ItemsOK'
  BY <1>2, <1>8, ItemsStay
<1>13. ArrayOK'
  <2>1. \A n1 : IsGot(n1) => IsGot(n1)'
    <3>1. \A k \in Base .. pop_index - 1 : k \in Base' .. pop_index' - 1
      BY <1>2, <1>4, <1>7
    <3> QED
      BY <1>2, <3>1 DEF IsGot
  <2>2. ASSUME NEW k \in Base' .. pop_index' - 1
        PROVE  \/ gotAt'[k] # NULL /\ gotAt'[k] \in array'
               \/ \E d \in Consumers :
                     \/ pc'[d] = "dequeuing" /\ ticket'[d] = k
                     \/ pc'[d] = "store" /\ gotAt'[k] # NULL /\ value'[d] = gotAt'[k]
    <3>1. k = pop_index \/ k \in Base .. pop_index - 1
      BY <1>2, <1>4, <1>7
    <3>2. CASE k = pop_index
      BY <1>10, <3>2
    <3>3. CASE k \in Base .. pop_index - 1
      <4>1. \/ gotAt[k] # NULL /\ gotAt[k] \in array
            \/ \E d \in Consumers :
                  \/ pc[d] = "dequeuing" /\ ticket[d] = k
                  \/ pc[d] = "store" /\ gotAt[k] # NULL /\ value[d] = gotAt[k]
        BY <3>3 DEF DriverInv, ArrayOK
      <4> QED
        BY <1>2, <1>10, <4>1
    <3> QED
      BY <3>1, <3>2, <3>3
  <2>3. \A n1 \in array' : IsGot(n1)'
    BY <1>2, <2>1 DEF DriverInv, ArrayOK
  <2>4. \A d \in Consumers : pc'[d] = "store" => IsGot(value[d])'
    BY <1>2, <1>10, <2>1 DEF DriverInv, ArrayOK, IsGot
  <2> QED
    BY <1>2, <2>2, <2>3, <2>4 DEF ArrayOK, IsGot
<1>14. VerifiedOK'
  BY <1>1, <1>2, <1>4 DEF VerifiedOK, DriverInv
<1>15. DriverTypeOK'
  <2>1. pop_index' \in Nat /\ ticket' \in [Producers \cup Consumers -> Nat \cup {NULL}]
    BY <1>2, <1>7
  <2> QED
    BY <1>2, <1>4, <2>1 DEF DriverInv, DriverTypeOK
<1> QED
  BY <1>4, <1>9, <1>11, <1>12, <1>13, <1>14, <1>15 DEF DriverInv

LEMMA DequeueStepStep == ASSUME DriverInv, NEW c \in Consumers, DequeueStep(c) PROVE DriverInv'
<1>1. "producer" \in Kinds /\ "consumer" \in Kinds /\ c \in Members("consumer") /\ c \notin Producers
      /\ Producers = Members("producer") /\ Consumers = Members("consumer")
  BY DEF Kinds, Members, Producers, Consumers
<1>2. /\ pc[c] = "dequeuing" /\ \A b \in DOMAIN waiting : c \notin waiting[b]
      /\ Collect(c) \/ Return(c)
      /\ ticket' \in [Producers \cup Consumers -> Nat \cup {NULL}]
      /\ \A u \in Producers \cup Consumers : u # c => ticket'[u] = ticket[u]
      /\ ticket'[c] = ticket[c] \/ ticket'[c] = NULL
      /\ UNCHANGED <<put_index, pop_index, putAt>> /\ UNCHANGED <<setup, handles, waiting, array, i, round>>
      /\ waiting \in [{"enq", "deq", "prod", "cons"} -> SUBSET Threads]
      /\ pc \in [Threads -> MainLabels \cup Labels("producer") \cup Labels("consumer")]
      /\ i \in [Threads -> Nat] /\ c \in Threads /\ i[c] \in Nat
      /\ value \in [Consumers -> Nat \cup {NULL}]
  BY <1>1, MemberFacts DEF DequeueStep, At, Collect, Return, MayReturn, DriverInv, DriverTypeOK
<1>3. PICK n \in Nat : n = i[c] /\ i' = [i EXCEPT ![c] = n]
  BY <1>2
<1>4. PICK to \in {"dequeuing", "store"} :
         /\ pc' = [pc EXCEPT ![c] = to]
         /\ IF ticket'[c] = NULL THEN to = "store" ELSE to = "dequeuing"
  <2>1. CASE ticket'[c] = NULL
    BY <2>1 DEF DequeueStep, Goto
  <2>2. CASE ticket'[c] # NULL
    <3>1. pc' = pc
      BY <2>2 DEF DequeueStep
    <3>2. pc' = [pc EXCEPT ![c] = "dequeuing"]
      BY <1>2, <3>1
    <3> QED
      BY <2>2, <3>2
  <2> QED
    BY <2>1, <2>2
<1>5. /\ Open("consumer") /\ MainOK' /\ pc[Main] # "end" /\ round < ROUNDS
      /\ \A k \in Kinds : DoorOK(k)' /\ GateOK(k)' /\ SlotsOK(k)'
      /\ \A k \in Kinds : (Open(k)' <=> Open(k)) /\ (Finished(k)' <=> Finished(k))
      /\ \A k \in Kinds : \A u \in Members(k) :
            u # c => pc'[u] = pc[u] /\ i'[u] = i[u] /\ Drawn(k, u)' = Drawn(k, u)
      /\ pc'[c] = to /\ i'[c] = n
      /\ pc' \in [Threads -> MainLabels \cup Labels("producer") \cup Labels("consumer")]
      /\ pc'[Main] \in MainLabels
      /\ \A k \in Kinds : \A u \in Members(k) : pc'[u] \in Labels(k)
      /\ i' \in [Threads -> Nat]
      /\ Amount' = Amount /\ Base' = Base /\ COUNTS_PER_THREAD' = COUNTS_PER_THREAD /\ ROUNDS' = ROUNDS
  <2>1. UNCHANGED <<setup, handles, waiting, round>>
    BY <1>2
  <2>2. pc[c] \in {Ready("consumer")} \cup Inside("consumer") /\ c \notin waiting[Gate("consumer")]
        /\ to \in {Ready("consumer")} \cup Inside("consumer")
    BY <1>2 DEF Ready, Inside, Gate
  <2>3. pc' = [pc EXCEPT ![c] = to] /\ i' = [i EXCEPT ![c] = n]
    BY <1>3, <1>4
  <2> QED
    BY <1>1, <2>1, <2>2, <2>3, InsideMoves
<1>6. Drawn("consumer", c) = n + 1 /\ Drawn("consumer", c)' = n + 1
  BY <1>1, <1>2, <1>3, <1>4, <1>5 DEF Drawn, Inside
<1>7. \A k \in Kinds : \A u \in Members(k) : Drawn(k, u)' = Drawn(k, u)
  BY <1>1, <1>5, <1>6, MemberFacts
<1>8. /\ pop_index \in Base .. Base + Amount /\ Base \in Nat /\ Amount \in Nat
      /\ pop_index \in Nat /\ pop_index \in 0 .. MaxTicket
  BY <1>5, TicketBounds DEF DriverInv, DriverTypeOK
<1>9. PICK tk \in Base .. pop_index - 1 : tk = ticket[c] /\ tk # NULL /\ tk \in 0 .. MaxTicket
  <2>1. ticket[c] \in Base .. pop_index - 1
    BY <1>2 DEF DriverInv, TicketOK
  <2>2. \A x \in Base .. pop_index - 1 : x \in 0 .. MaxTicket /\ x \in Nat
    BY <1>8, Parameters DEF DriverInv
  <2>3. \A x \in Nat : x # NULL
    BY DriverAssumption
  <2> QED
    BY <2>1, <2>2, <2>3
<1>10. /\ \/ gotAt[tk] = NULL /\ gotAt'[tk] = putAt[tk]
          \/ gotAt[tk] # NULL /\ gotAt'[tk] = gotAt[tk]
       /\ ticket'[c] = NULL => gotAt'[tk] # NULL
       /\ \A k \in 0 .. MaxTicket : k # tk => gotAt'[k] = gotAt[k]
       /\ gotAt' \in [0 .. MaxTicket -> (1 .. Amount) \cup {NULL}]
  <2>1. /\ gotAt \in [0 .. MaxTicket -> (1 .. Amount) \cup {NULL}]
        /\ putAt \in [0 .. MaxTicket -> (1 .. Amount) \cup {NULL}]
    BY DEF DriverInv, DriverTypeOK
  <2>2. CASE Collect(c)
    <3>1. gotAt' = [gotAt EXCEPT ![tk] = putAt[tk]] /\ gotAt[tk] = NULL /\ putAt[tk] # NULL
      BY <1>9, <2>2 DEF Collect, Got
    <3> QED
      BY <1>9, <2>1, <3>1
  <2>3. CASE Return(c)
    <3>1. gotAt' = gotAt /\ gotAt[tk] # NULL
      BY <1>1, <1>9, <2>3 DEF Return, Got
    <3> QED
      BY <2>1, <3>1
  <2> QED
    BY <1>2, <2>2, <2>3
<1>11. value'[c] = gotAt'[tk] /\ value' \in [Consumers -> Nat \cup {NULL}]
       /\ \A d \in Consumers : d # c => value'[d] = value[d]
  <2>1. value' = [value EXCEPT ![c] = gotAt'[tk]]
    BY <1>9 DEF DequeueStep
  <2>2. gotAt'[tk] \in Nat \cup {NULL}
    BY <1>8, <1>9, <1>10
  <2> QED
    BY <1>2, <2>1, <2>2
<1>12. CountOK'
  <2>1. AllDrawn("producer")' = AllDrawn("producer") /\ AllDrawn("consumer")' = AllDrawn("consumer")
    BY <1>1, <1>2, <1>7, DrawNone
  <2> QED
    BY <1>2, <1>5, <1>7, <2>1 DEF DriverInv, CountOK
<1>13. \A d \in Consumers : d # c => pc'[d] = pc[d] /\ ticket'[d] = ticket[d]
  BY <1>1, <1>2, <1>5
<1>14. \A p \in Producers : pc'[p] = pc[p] /\ ticket'[p] = ticket[p] /\ i'[p] = i[p]
  BY <1>1, <1>2, <1>5, MemberFacts
<1>15. TicketOK'
  <2>1. \A d \in Consumers : /\ pc'[d] = "dequeuing" => pc[d] = "dequeuing" /\ ticket'[d] = ticket[d]
                             /\ pc'[d] # "dequeuing" => ticket'[d] = NULL
    <3>1. \A d \in Consumers : pc[d] # "dequeuing" => ticket[d] = NULL
      BY DEF DriverInv, TicketOK
    <3> QED
      BY <1>2, <1>4, <1>5, <1>13, <3>1
  <2>2. \A k \in 0 .. MaxTicket : gotAt'[k] # NULL => gotAt'[k] = putAt[k]
    BY <1>9, <1>10 DEF DriverInv, TicketOK
  <2> QED
    BY <1>2, <1>5, <1>14, <2>1, <2>2 DEF DriverInv, TicketOK
<1>16. ItemsOK'
  BY <1>1, <1>2, <1>7, <1>14, ItemsStay
<1>17. \A k \in Base .. pop_index - 1 : k \in 0 .. MaxTicket
  BY <1>8, Parameters DEF DriverInv
<1>18. \A x : IsGot(x) => IsGot(x)'
  <2>1. \A k \in Base .. pop_index - 1 : gotAt[k] # NULL => gotAt'[k] = gotAt[k]
    BY <1>10, <1>17
  <2> QED
    BY <1>2, <1>5, <2>1 DEF IsGot
<1>19. ArrayOK'
  <2>1. ASSUME NEW k \in Base .. pop_index - 1
        PROVE  \/ gotAt'[k] # NULL /\ gotAt'[k] \in array
               \/ \E d \in Consumers :
                     \/ pc'[d] = "dequeuing" /\ ticket'[d] = k
                     \/ pc'[d] = "store" /\ gotAt'[k] # NULL /\ value'[d] = gotAt'[k]
    <3>1. CASE k = tk
      BY <1>2, <1>4, <1>5, <1>9, <1>10, <1>11, <3>1
    <3>2. CASE k # tk
      <4>1. gotAt'[k] = gotAt[k]
        BY <1>10, <1>17, <3>2
      <4>2. \/ gotAt[k] # NULL /\ gotAt[k] \in array
            \/ \E d \in Consumers :
                  \/ pc[d] = "dequeuing" /\ ticket[d] = k
                  \/ pc[d] = "store" /\ gotAt[k] # NULL /\ value[d] = gotAt[k]
        BY DEF DriverInv, ArrayOK
      <4> QED
        BY <1>2, <1>9, <1>11, <1>13, <3>2, <4>1, <4>2
    <3> QED
      BY <3>1, <3>2
  <2>2. \A x \in array : IsGot(x)'
    BY <1>18 DEF DriverInv, ArrayOK
  <2>3. ASSUME NEW d \in Consumers, pc'[d] = "store"
        PROVE  \E k \in Base .. pop_index - 1 : gotAt'[k] = value'[d] /\ value'[d] # NULL
    <3>1. CASE d = c
      BY <1>4, <1>5, <1>9, <1>10, <1>11, <2>3, <3>1
    <3>2. CASE d # c
      <4>1. PICK k \in Base .. pop_index - 1 : gotAt[k] = value[d] /\ value[d] # NULL
        BY <1>13, <2>3, <3>2 DEF DriverInv, ArrayOK, IsGot
      <4>2. gotAt'[k] = gotAt[k]
        BY <1>10, <1>17, <4>1
      <4> QED
        BY <1>11, <3>2, <4>1, <4>2
    <3> QED
      BY <3>1, <3>2
  <2>4. \A d \in Consumers : pc'[d] = "store" => IsGot(value[d])'
    BY <1>2, <1>5, <2>3 DEF IsGot
  <2> QED
    BY <1>2, <1>5, <2>1, <2>2, <2>4 DEF ArrayOK
<1>20. VerifiedOK'
  BY <1>1, <1>2, <1>5 DEF VerifiedOK, DriverInv
<1>21. DriverTypeOK'
  BY <1>2, <1>5, <1>10, <1>11 DEF DriverInv, DriverTypeOK
<1> QED
  BY <1>5, <1>12, <1>15, <1>16, <1>19, <1>20, <1>21 DEF DriverInv

LEMMA StoreStep == ASSUME DriverInv, NEW c \in Consumers, Store(c) PROVE DriverInv'
<1>1. "producer" \in Kinds /\ "consumer" \in Kinds /\ c \in Members("consumer") /\ c \notin Producers
      /\ Producers = Members("producer") /\ Consumers = Members("consumer")
  BY DEF Kinds, Members, Producers, Consumers
<1>2. /\ pc[c] = "store" /\ \A b \in DOMAIN waiting : c \notin waiting[b]
      /\ UNCHANGED <<setup, put_index, pop_index, ticket, putAt, gotAt>>
      /\ UNCHANGED <<handles, waiting, value, round>>
      /\ waiting \in [{"enq", "deq", "prod", "cons"} -> SUBSET Threads]
      /\ i \in [Threads -> Nat] /\ c \in Threads /\ i[c] \in Nat
  BY <1>1, MemberFacts DEF Store, At, queue, DriverInv, DriverTypeOK
<1>3. value[c] \in 1 .. Amount /\ value[c] # 0 /\ IsGot(value[c])
  <2>1. PICK k \in Base .. pop_index - 1 : gotAt[k] = value[c] /\ value[c] # NULL
    BY <1>2 DEF DriverInv, ArrayOK, IsGot
  <2>2. k \in 0 .. MaxTicket
    <3>1. Open("consumer")
      BY <1>1, <1>2 DEF DriverInv, GateOK, Inside
    <3>2. round < ROUNDS
      BY <3>1 DEF Open, MainOK, DriverInv
    <3> QED
      BY <2>1, <3>2, TicketBounds
  <2>3. gotAt[k] \in (1 .. Amount) \cup {NULL}
    BY <2>2 DEF DriverInv, DriverTypeOK
  <2>4. Amount \in Nat
    BY Parameters DEF DriverInv
  <2> QED
    BY <2>1, <2>3, <2>4 DEF IsGot
<1>4. /\ array' = array \cup {value[c]} /\ i' = [i EXCEPT ![c] = i[c] + 1]
      /\ pc' = [pc EXCEPT ![c] = "dequeue"]
  BY <1>3 DEF Store, Goto
<1>5. PICK n \in Nat : n = i[c] /\ i' = [i EXCEPT ![c] = n + 1] /\ n + 1 \in Nat
  <2>1. i[c] + 1 \in Nat
    BY <1>2
  <2> QED
    BY <1>2, <1>4, <2>1
<1>6. /\ Open("consumer") /\ MainOK' /\ pc[Main] # "end" /\ round < ROUNDS
      /\ \A k \in Kinds : DoorOK(k)' /\ GateOK(k)' /\ SlotsOK(k)'
      /\ \A k \in Kinds : (Open(k)' <=> Open(k)) /\ (Finished(k)' <=> Finished(k))
      /\ \A k \in Kinds : \A u \in Members(k) :
            u # c => pc'[u] = pc[u] /\ i'[u] = i[u] /\ Drawn(k, u)' = Drawn(k, u)
      /\ pc'[c] = "dequeue" /\ i'[c] = n + 1
      /\ pc' \in [Threads -> MainLabels \cup Labels("producer") \cup Labels("consumer")]
      /\ pc'[Main] \in MainLabels
      /\ \A k \in Kinds : \A u \in Members(k) : pc'[u] \in Labels(k)
      /\ i' \in [Threads -> Nat]
      /\ Amount' = Amount /\ Base' = Base /\ COUNTS_PER_THREAD' = COUNTS_PER_THREAD /\ ROUNDS' = ROUNDS
  <2>1. UNCHANGED <<setup, handles, waiting, round>>
    BY <1>2
  <2>2. pc[c] \in {Ready("consumer")} \cup Inside("consumer") /\ c \notin waiting[Gate("consumer")]
        /\ "dequeue" \in {Ready("consumer")} \cup Inside("consumer")
    BY <1>2 DEF Ready, Inside, Gate
  <2>3. PICK m \in Nat : m = n + 1
    BY <1>5
  <2>4. pc' = [pc EXCEPT ![c] = "dequeue"] /\ i' = [i EXCEPT ![c] = m]
    BY <1>4, <1>5, <2>3
  <2> QED
    BY <1>1, <2>1, <2>2, <2>3, <2>4, InsideMoves
<1>7. Drawn("consumer", c) = n + 1 /\ Drawn("consumer", c)' = n + 1
  BY <1>1, <1>2, <1>5, <1>6 DEF Drawn, Inside
<1>8. \A k \in Kinds : \A u \in Members(k) : Drawn(k, u)' = Drawn(k, u)
  BY <1>1, <1>6, <1>7, MemberFacts
<1>9. CountOK'
  <2>1. AllDrawn("producer")' = AllDrawn("producer") /\ AllDrawn("consumer")' = AllDrawn("consumer")
    BY <1>1, <1>2, <1>8, DrawNone
  <2> QED
    BY <1>2, <1>6, <1>8, <2>1 DEF DriverInv, CountOK
<1>10. \A d \in Consumers : /\ d # c => pc'[d] = pc[d]
                            /\ d = c => pc'[d] = "dequeue" /\ pc[d] = "store"
  BY <1>1, <1>2, <1>6
<1>11. \A p \in Producers : pc'[p] = pc[p] /\ i'[p] = i[p]
  BY <1>1, <1>6, MemberFacts
<1>12. TicketOK'
  <2>1. \A d \in Consumers : pc'[d] = "dequeuing" <=> pc[d] = "dequeuing"
    BY <1>10
  <2> QED
    BY <1>2, <1>6, <1>11, <2>1 DEF DriverInv, TicketOK
<1>13. ItemsOK'
  BY <1>1, <1>2, <1>8, <1>11, ItemsStay
<1>14. ArrayOK'
  <2>1. \A x : IsGot(x)' = IsGot(x)
    BY <1>2, <1>6 DEF IsGot
  <2>2. ASSUME NEW k \in Base .. pop_index - 1
        PROVE  \/ gotAt[k] # NULL /\ gotAt[k] \in array'
               \/ \E d \in Consumers :
                     \/ pc'[d] = "dequeuing" /\ ticket[d] = k
                     \/ pc'[d] = "store" /\ gotAt[k] # NULL /\ value[d] = gotAt[k]
    <3>1. \/ gotAt[k] # NULL /\ gotAt[k] \in array
          \/ \E d \in Consumers :
                \/ pc[d] = "dequeuing" /\ ticket[d] = k
                \/ pc[d] = "store" /\ gotAt[k] # NULL /\ value[d] = gotAt[k]
      BY DEF DriverInv, ArrayOK
    <3> QED
      BY <1>4, <1>10, <3>1
  <2>3. \A x \in array' : IsGot(x)'
    BY <1>3, <1>4, <2>1 DEF DriverInv, ArrayOK
  <2>4. \A d \in Consumers : pc'[d] = "store" => IsGot(value[d])'
    BY <1>2, <1>6, <1>10 DEF DriverInv, ArrayOK, IsGot
  <2> QED
    BY <1>2, <1>6, <2>2, <2>3, <2>4 DEF ArrayOK
<1>15. VerifiedOK'
  BY <1>1, <1>4, <1>6 DEF VerifiedOK, DriverInv
<1>16. DriverTypeOK'
  <2>1. array' \subseteq 1 .. Amount
    BY <1>3, <1>4 DEF DriverInv, DriverTypeOK
  <2> QED
    BY <1>2, <1>6, <2>1 DEF DriverInv, DriverTypeOK
<1> QED
  BY <1>6, <1>9, <1>12, <1>13, <1>14, <1>15, <1>16 DEF DriverInv

-----------------------------------------------------------------------------
(* The invariant holds *)

LEMMA NobodyDrawn ==
    ASSUME NEW kind \in Kinds, \A t \in Members(kind) : Drawn(kind, t) = 0, COUNTS_PER_THREAD \in Nat
    PROVE  Cardinality(AllDrawn(kind)) = 0
<1>1. \A d \in Members(kind) \X (0 .. COUNTS_PER_THREAD - 1) : ~(d[2] < Drawn(kind, d[1]))
  OBVIOUS
<1>2. AllDrawn(kind) = {}
  BY <1>1 DEF AllDrawn
<1> QED
  BY <1>2, FS_EmptySet

LEMMA InitInv == Init => DriverInv
<1> SUFFICES ASSUME Init PROVE DriverInv
  OBVIOUS
<1>1. /\ N_THREADS \in Nat \ {0} /\ N_HANDLES \in Nat /\ COUNTS_PER_THREAD \in Nat /\ ROUNDS \in Nat \ {0}
      /\ MaxTicket \in Nat /\ Amount \in Nat
  <2>1. /\ N_THREADS \in Nat \ {0} /\ N_HANDLES \in Nat /\ COUNTS_PER_THREAD \in Nat
        /\ ROUNDS \in Nat \ {0} /\ MaxTicket \in Nat
    BY DriverAssumption DEF Init, COUNTS_PER_THREAD, ROUNDS
  <2> QED
    BY <2>1 DEF Amount
<1>2. /\ put_index = 0 /\ pop_index = 0 /\ ticket = [t \in Producers \cup Consumers |-> NULL]
      /\ putAt = [k \in 0 .. MaxTicket |-> NULL] /\ gotAt = [k \in 0 .. MaxTicket |-> NULL]
      /\ \A k \in Kinds : \A s \in Slots : handles[k][s] = NULL
      /\ \A b \in {"enq", "deq", "prod", "cons"} : waiting[b] = {}
      /\ array = {} /\ round = 0 /\ pc[Main] = "create"
      /\ \A k \in Kinds : \A t \in Members(k) : pc[t] = "none" /\ i[t] = 0
  <2>1. Main \in Threads
    BY DEF Threads
  <2> QED
    BY <2>1, MemberFacts DEF Init, TicketInit, Kinds
<1>3. DriverTypeOK
  <2>1. "create" \in MainLabels /\ \A k \in Kinds : "none" \in Labels(k)
    BY DEF MainLabels, Labels, Arriving, Unregistered
  <2>2. pc \in [Threads -> MainLabels \cup Labels("producer") \cup Labels("consumer")]
    BY <2>1 DEF Init, Kinds
  <2>3. round \in 0 .. ROUNDS
    BY <1>1, <1>2
  <2>4. handles \in [Kinds -> [Slots -> Producers \cup Consumers \cup {NULL}]]
    BY DEF Init, Kinds
  <2>5. waiting \in [{"enq", "deq", "prod", "cons"} -> SUBSET Threads]
    BY DEF Init
  <2>6. i \in [Threads -> Nat] /\ value \in [Consumers -> Nat \cup {NULL}] /\ setup \in Setups
    BY DEF Init
  <2> QED
    BY <1>2, <2>1, <2>2, <2>3, <2>4, <2>5, <2>6 DEF DriverTypeOK
<1>4. MainOK
  BY <1>1, <1>2 DEF MainOK
<1>5. \A k \in Kinds : ~Open(k) /\ ~Finished(k)
  BY <1>2 DEF Open, Finished
<1>6. \A k \in Kinds : DoorOK(k) /\ GateOK(k)
  <2> SUFFICES ASSUME NEW k \in Kinds PROVE DoorOK(k) /\ GateOK(k)
    OBVIOUS
  <2>1. "none" \in Arriving /\ "none" # Ready(k) /\ "none" \notin Inside(k)
    BY DEF Arriving, Unregistered, Ready, Inside
  <2>2. waiting[Gate(k)] = {} /\ waiting[Door(k)] = {}
    BY <1>2 DEF Gate, Door
  <2> QED
    BY <1>2, <1>5, <2>1, <2>2 DEF DoorOK, GateOK
<1>7. \A k \in Kinds : SlotsOK(k)
  <2>1. 0 \in Index /\ \A s \in 0 .. 0 - 1 : FALSE
    BY <1>1 DEF Index
  <2>2. "none" \in Unregistered
    BY DEF Unregistered
  <2> QED
    BY <1>2, <2>1, <2>2 DEF SlotsOK
<1>8. \A k \in Kinds : \A t \in Members(k) : Drawn(k, t) = 0
  BY <1>5 DEF Drawn
<1>9. Base = 0
  BY <1>1, <1>2 DEF Base
<1>10. CountOK
  <2>1. \A k \in Kinds : Cardinality(AllDrawn(k)) = 0
    BY <1>1, <1>8, NobodyDrawn
  <2> QED
    BY <1>1, <1>2, <1>8, <1>9, <2>1 DEF CountOK, Kinds
<1>11. \A t \in Producers \cup Consumers : pc[t] = "none"
  BY <1>2 DEF Kinds, Members, Producers, Consumers
<1>12. TicketOK
  BY <1>2, <1>11 DEF TicketOK
<1>13. ItemsOK
  <2>1. \A p \in Producers : Drawn("producer", p) = 0
    BY <1>8 DEF Kinds, Members, Producers
  <2> QED
    BY <1>1, <2>1 DEF ItemsOK
<1>14. ArrayOK
  <2>1. \A k \in Base .. pop_index - 1 : FALSE
    BY <1>2, <1>9
  <2> QED
    BY <1>2, <1>11, <2>1 DEF ArrayOK
<1>15. VerifiedOK
  BY <1>5 DEF VerifiedOK, Kinds
<1> QED
  BY <1>3, <1>4, <1>6, <1>7, <1>10, <1>12, <1>13, <1>14, <1>15 DEF DriverInv

LEMMA StutterStep == ASSUME DriverInv, UNCHANGED vars PROVE DriverInv'
<1>1. /\ setup' = setup /\ put_index' = put_index /\ pop_index' = pop_index /\ ticket' = ticket
      /\ putAt' = putAt /\ gotAt' = gotAt /\ array' = array /\ value' = value /\ round' = round
      /\ handles' = handles /\ waiting' = waiting /\ pc' = pc /\ i' = i
      /\ Amount' = Amount /\ ROUNDS' = ROUNDS
  BY DEF vars, queue, Amount, ROUNDS, COUNTS_PER_THREAD
<1>2. \A k \in Kinds : (Open(k)' <=> Open(k)) /\ (Finished(k)' <=> Finished(k))
  BY <1>1, PhasesStay
<1>3. \A k \in Kinds : DoorOK(k)' /\ GateOK(k)' /\ Stays(k)
  BY <1>1, <1>2, ArrivingMoves
<1>4. \A k \in Kinds : SlotsOK(k)'
  BY <1>1, SlotsStay
<1>5. CountOK' /\ TicketOK' /\ ItemsOK' /\ ArrayOK'
  BY <1>3, QueueStays DEF vars
<1>6. DriverTypeOK' /\ MainOK'
  BY <1>1 DEF DriverInv, DriverTypeOK, MainOK
<1>7. VerifiedOK'
  BY <1>1, <1>2 DEF DriverInv, VerifiedOK, Kinds
<1> QED
  BY <1>3, <1>4, <1>5, <1>6, <1>7 DEF DriverInv

\* The invariant is inductive: every step of main and of its threads keeps it.
THEOREM DriverInvariant == Spec => []DriverInv
<1>1. DriverInv /\ [Next]_vars => DriverInv'
  <2> SUFFICES ASSUME DriverInv, [Next]_vars PROVE DriverInv'
    OBVIOUS
  <2>1. "producer" \in Kinds /\ "consumer" \in Kinds
        /\ Producers = Members("producer") /\ Consumers = Members("consumer")
    BY DEF Kinds, Members, Producers, Consumers
  <2>2. ASSUME NEW t \in Producers \cup Consumers, Create(t) PROVE DriverInv'
    BY <2>2, CreateStep
  <2>3. ASSUME NEW kind \in Kinds, NEW t \in Members(kind) \cup {Main}, NEW from, NEW to,
               Comes(kind, t, from, to), Wait(t, Gate(kind), from, to)
        PROVE  DriverInv'
    BY <2>3, GateStep
  <2>4. CASE Wait(Main, "cons", "round", "go")
    <3>1. Comes("consumer", Main, "round", "go") /\ Gate("consumer") = "cons"
      BY DEF Comes, Gate
    <3> QED
      BY <2>1, <2>3, <2>4, <3>1
  <2>5. CASE Wait(Main, "prod", "go", "produce")
    <3>1. Comes("producer", Main, "go", "produce") /\ Gate("producer") = "prod"
      BY DEF Comes, Gate
    <3> QED
      BY <2>1, <2>3, <2>5, <3>1
  <2>6. CASE Wait(Main, "prod", "produce", "consume")
    <3>1. Comes("producer", Main, "produce", "consume") /\ Gate("producer") = "prod"
      BY DEF Comes, Gate
    <3> QED
      BY <2>1, <2>3, <2>6, <3>1
  <2>7. CASE Wait(Main, "cons", "consume", "verify")
    <3>1. Comes("consumer", Main, "consume", "verify") /\ Gate("consumer") = "cons"
      BY DEF Comes, Gate
    <3> QED
      BY <2>1, <2>3, <2>7, <3>1
  <2>8. ASSUME NEW p \in Producers, ProducerStep(p) PROVE DriverInv'
    <3>1. CASE Wait(p, "enq", "registered", "start")
      BY <2>1, <3>1, DoorStep DEF Door
    <3>2. CASE Wait(p, "prod", "start", "enqueue")
      <4>1. Comes("producer", p, "start", "enqueue") /\ Gate("producer") = "prod"
        BY <2>1 DEF Comes, Gate, Ready
      <4> QED
        BY <2>1, <2>3, <3>2, <4>1
    <3>3. CASE i[p] = COUNTS_PER_THREAD /\ Wait(p, "prod", "enqueue", "start")
      <4>1. Comes("producer", p, "enqueue", "start") /\ Gate("producer") = "prod"
        BY <2>1, <3>3 DEF Comes, Gate, Ready
      <4> QED
        BY <2>1, <2>3, <3>3, <4>1
    <3> QED
      BY <2>1, <2>8, <3>1, <3>2, <3>3, LoadStep, CasStep, EnqueueCallStep, EnqueueStepStep DEF ProducerStep
  <2>9. ASSUME NEW c \in Consumers, ConsumerStep(c) PROVE DriverInv'
    <3>1. CASE Wait(c, "deq", "registered", "start")
      BY <2>1, <3>1, DoorStep DEF Door
    <3>2. CASE Wait(c, "cons", "start", "dequeue")
      <4>1. Comes("consumer", c, "start", "dequeue") /\ Gate("consumer") = "cons"
        BY <2>1 DEF Comes, Gate, Ready
      <4> QED
        BY <2>1, <2>3, <3>2, <4>1
    <3>3. CASE i[c] = COUNTS_PER_THREAD /\ Wait(c, "cons", "dequeue", "start")
      <4>1. Comes("consumer", c, "dequeue", "start") /\ Gate("consumer") = "cons"
        BY <2>1, <3>3 DEF Comes, Gate, Ready
      <4> QED
        BY <2>1, <2>3, <3>3, <4>1
    <3> QED
      BY <2>1, <2>9, <3>1, <3>2, <3>3, LoadStep, CasStep, DequeueCallStep, DequeueStepStep, StoreStep
         DEF ConsumerStep
  <2>10. CASE UNCHANGED vars
    BY <2>10, StutterStep
  <2>11. CASE Steps
    BY <2>2, <2>4, <2>5, <2>6, <2>7, <2>8, <2>9, <2>11, VerifyStep, ClearStep DEF Steps, MainStep
  <2> QED
    BY <2>10, <2>11 DEF Next, Ended
<1> QED
  BY <1>1, InitInv, PTL DEF Spec

-----------------------------------------------------------------------------
(* The properties *)

\* When a kind is registered, its threads have the first slots.
LEMMA SlotsFull ==
    ASSUME DriverInv, NEW kind \in Kinds, \A t \in Members(kind) : pc[t] \notin Unregistered
    PROVE  {handles[kind][s] : s \in Index} = Members(kind)
<1>1. SlotsOK(kind) /\ N_THREADS \in Nat \ {0} /\ N_HANDLES \in Nat /\ N_THREADS < N_HANDLES
  BY Parameters DEF DriverInv
<1>2. ASSUME NEW n \in Slots, handles[kind][n] # NULL PROVE n \in Index
  <2> DEFINE f == [s \in 0 .. n |-> handles[kind][s]]
  <2>1. n \in Nat /\ \A s \in 0 .. n : s \in Slots /\ (s < n \/ s = n)
    BY <1>1 DEF Slots
  <2>2. \A s \in 0 .. n : handles[kind][s] # NULL /\ handles[kind][s] \in Members(kind)
    BY <1>1, <1>2, <2>1 DEF SlotsOK
  <2>3. \A r, s \in 0 .. n : r < s => handles[kind][r] # handles[kind][s]
    BY <1>1, <2>1, <2>2 DEF SlotsOK
  <2>4. \A r, s \in 0 .. n : r < s \/ s < r \/ r = s
    BY <2>1
  <2>5. \A r, s \in 0 .. n : f[r] = f[s] => r = s
    BY <2>3, <2>4
  <2>6. f \in Injection(0 .. n, Members(kind))
    BY <2>2, <2>5 DEF Injection, IsInjective
  <2> HIDE DEF f
  <2>7. Cardinality(0 .. n) <= N_THREADS
    <3>1. IsFiniteSet(Members(kind)) /\ Cardinality(Members(kind)) = N_THREADS
      BY MembersFinite
    <3> QED
      BY <2>6, <3>1, FS_Injection
  <2>8. Cardinality(0 .. n) = n + 1
    BY <2>1, FS_Interval
  <2> QED
    BY <1>1, <2>1, <2>7, <2>8 DEF Index
<1>3. \A t \in Members(kind) : \E s \in Index : handles[kind][s] = t
  <2>1. \A t \in Members(kind) : t # NULL
    BY MemberFacts, DriverAssumption
  <2> QED
    BY <1>1, <1>2, <2>1 DEF SlotsOK
<1> DEFINE g == [t \in Members(kind) |-> CHOOSE s \in Index : handles[kind][s] = t]
<1>4. \A t \in Members(kind) : g[t] \in Index /\ handles[kind][g[t]] = t
  BY <1>3
<1>5. g \in Injection(Members(kind), Index)
  BY <1>4 DEF Injection, IsInjective
<1>6. IsFiniteSet(Index) /\ Cardinality(Index) = N_THREADS
  BY <1>1, FS_Interval DEF Index
<1>7. g \in Surjection(Members(kind), Index)
  <2> HIDE DEF g
  <2> QED
    BY <1>5, <1>6, MembersFinite, FS_Injection
<1>8. \A s \in Index : \E t \in Members(kind) : g[t] = s
  BY <1>7 DEF Surjection
<1> HIDE DEF g
<1>9. \A s \in Index : handles[kind][s] \in Members(kind)
  BY <1>4, <1>8
<1> QED
  BY <1>3, <1>9

\* Before any node can be reclaimed every handle is in its array, once, and
\* before the first NULL (mpmc_queue_register, and the barriers that producers
\* and consumers wait at after it).
THEOREM EveryHandleSeenAlways == Spec => []EveryHandleSeen
<1>1. DriverInv => EveryHandleSeen
  <2> SUFFICES ASSUME DriverInv, NEW c \in Consumers, Got(c), NEW kind \in DOMAIN handles
               PROVE  {handles[kind][s] : s \in Index} = {kind} \X Index
    BY DEF EveryHandleSeen
  <2>1. kind \in Kinds /\ "producer" \in Kinds /\ "consumer" \in Kinds /\ c \in Members("consumer")
    BY DEF DriverInv, DriverTypeOK, Kinds, Members, Consumers
  <2>2. pc[c] = "dequeuing" /\ ticket[c] \in Base .. pop_index - 1
    BY DEF Got, DriverInv, TicketOK
  <2>3. Open("consumer") /\ \A u \in Members("consumer") : pc[u] \notin Arriving
    <3>1. GateOK("consumer") /\ pc[c] \in Inside("consumer")
      BY <2>1, <2>2 DEF DriverInv, Inside
    <3> QED
      BY <2>1, <3>1 DEF GateOK
  <2>4. round < ROUNDS
    BY <2>3 DEF Open, MainOK, DriverInv
  <2>5. /\ put_index \in Base .. Base + Amount /\ pop_index \in Base .. Base + Amount
        /\ Base \in Nat /\ Amount \in Nat /\ \A k \in Base .. Base + Amount : k \in 0 .. MaxTicket
    BY <2>4, TicketBounds
  <2>6. ticket[c] \in 0 .. MaxTicket /\ ticket[c] >= Base /\ ticket[c] \in Nat
    BY <2>2, <2>5
  <2>7. ticket[c] < put_index
    BY <2>6 DEF Got, DriverInv, TicketOK
  <2>8. Open("producer") \/ Finished("producer")
    <3> SUFFICES ASSUME ~Open("producer"), ~Finished("producer") PROVE FALSE
      OBVIOUS
    <3>1. \A p \in Members("producer") : Drawn("producer", p) = 0
      BY DEF Drawn
    <3>2. Cardinality(AllDrawn("producer")) = 0
      BY <2>1, <3>1, NobodyDrawn, Parameters DEF DriverInv
    <3>3. put_index = Base
      BY <2>5, <3>2 DEF DriverInv, CountOK
    <3> QED
      BY <2>5, <2>6, <2>7, <3>3
  <2>9. \A u \in Members("producer") : pc[u] \notin Arriving
    BY <2>1, <2>8 DEF DriverInv, GateOK
  <2>10. \A u \in Members(kind) : pc[u] \notin Unregistered
    BY <2>1, <2>3, <2>9, LabelFacts DEF Kinds
  <2> QED
    BY <2>1, <2>10, SlotsFull DEF Members
<1> QED
  BY <1>1, DriverInvariant, PTL

\* While main checks and clears the array, the queue is at rest and empty, and
\* each round has used its own tickets (the four waits of main in a round).
THEOREM RoundsApartAlways == Spec => []RoundsApart
<1>1. DriverInv => RoundsApart
  <2> SUFFICES ASSUME DriverInv, pc[Main] \in {"verify", "error"}, At(Main, pc[Main])
               PROVE  /\ \A t \in Producers \cup Consumers : ticket[t] = NULL
                      /\ \A c \in Consumers : pc[c] # "store"
                      /\ put_index = pop_index /\ put_index = (round + 1) * Amount
    BY DEF RoundsApart
  <2>1. pc[Main] = "verify" /\ \A b \in {"enq", "deq", "prod", "cons"} : Main \notin waiting[b]
    BY DEF At, DriverInv, DriverTypeOK, MainLabels
  <2>2. \A k \in Kinds : ~Open(k) /\ Finished(k)
    BY <2>1 DEF Open, Finished, Kinds
  <2>3. \A k \in Kinds : \A u \in Members(k) : pc[u] \notin Inside(k) /\ Drawn(k, u) = COUNTS_PER_THREAD
    BY <2>2 DEF Drawn, DriverInv, GateOK
  <2>4. /\ \A p \in Producers : pc[p] # "enqueuing"
        /\ \A c \in Consumers : pc[c] \notin {"dequeuing", "store"}
    BY <2>3 DEF Kinds, Members, Producers, Consumers, Inside
  <2>5. \A k \in Kinds : Cardinality(AllDrawn(k)) = Amount
    BY <2>3, AllHaveDrawn DEF DriverInv
  <2>6. put_index = Base + Amount /\ pop_index = Base + Amount
    BY <2>5 DEF DriverInv, CountOK, Kinds
  <2>7. (round + 1) * Amount = Base + Amount
    <3>1. round \in Nat /\ Amount \in Nat /\ round <= round
      BY Parameters DEF DriverInv
    <3> QED
      BY <3>1, Products DEF Base
  <2> QED
    BY <2>4, <2>6, <2>7 DEF DriverInv, TicketOK
<1> QED
  BY <1>1, DriverInvariant, PTL

\* main never reports an error, and a round begins with the array cleared: it
\* finds every number because the round has brought it (the verification loop
\* of main and the loop that clears the array).
THEOREM RoundVerifiedAlways == Spec => []RoundVerified
<1>1. DriverInv => RoundVerified
  <2> SUFFICES ASSUME DriverInv PROVE RoundVerified
    OBVIOUS
  <2>1. pc[Main] # "error"
    BY DEF DriverInv, DriverTypeOK, MainLabels
  <2>2. ASSUME pc[Main] = "go", NEW n \in array PROVE FALSE
    <3>1. ~Open("producer") /\ ~Finished("producer") /\ round < ROUNDS
      BY <2>2 DEF Open, Finished, MainOK, DriverInv
    <3>2. \A p \in Members("producer") : Drawn("producer", p) = 0
      BY <3>1 DEF Drawn
    <3>3. Cardinality(AllDrawn("producer")) = 0
      BY <3>2, NobodyDrawn, Parameters DEF DriverInv, Kinds
    <3>4. /\ pop_index \in Base .. Base + Amount /\ Base \in Nat /\ Amount \in Nat
          /\ \A k \in Base .. Base + Amount : k \in 0 .. MaxTicket
      BY <3>1, TicketBounds
    <3>5. put_index = Base
      BY <3>3, <3>4 DEF DriverInv, CountOK
    <3>6. PICK k \in Base .. pop_index - 1 : gotAt[k] # NULL
      BY <2>2 DEF DriverInv, ArrayOK, IsGot
    <3>7. k \in 0 .. MaxTicket /\ ~(k < put_index)
      BY <3>4, <3>5, <3>6
    <3> QED
      BY <3>6, <3>7 DEF DriverInv, TicketOK
  <2> QED
    BY <2>1, <2>2 DEF RoundVerified
<1> QED
  BY <1>1, DriverInvariant, PTL
=============================================================================
