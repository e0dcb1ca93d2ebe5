-------------------------- MODULE ClockGraphProofs --------------------------
(***************************************************************************)
(* Theorems about the chain of threads of quiz1/main.c, for any number of  *)
(* nodes: it is a binary counter, no signal in it is overwritten, and no   *)
(* wake-up is lost.                                                        *)
(***************************************************************************)
EXTENDS ClockGraph, FiniteSetTheorems, WellFoundedInduction, TLAPS

-----------------------------------------------------------------------------
(* The inductive invariant *)

ClockLabels == {"wait_lock", "wait_test", "tick_lock", "tick_add", "tick_broadcast"}

MainLabels == ClockLabels \cup {"stop_lock", "stop_set", "stop_broadcast", "join", "done"}

ParentLabels == {"parent_lock", "parent_test"}

SignalLabels == {"signal_lock", "signal_set", "signal_cond"}

NodeLabels == ClockLabels \cup ParentLabels \cup SignalLabels \cup {"done"}

GraphTypeOK ==
    /\ pc \in [Threads -> MainLabels \cup NodeLabels]
    /\ pc[Main] \in MainLabels
    /\ \A n \in Nodes : pc[n] \in NodeLabels
    /\ pc[0] \notin ParentLabels
    /\ ticks \in Int
    /\ ready \in [Nodes -> BOOLEAN]
    /\ i \in [Nodes -> Nat \ {0}]
    /\ bit \in [Nodes -> BOOLEAN]
    /\ running \in [Nodes -> BOOLEAN]

Stopped == ticks < 0

\* Main stops the clock, once, when it has seen the last tick.
StopOK ==
    /\ Stopped <=> pc[Main] \in {"stop_broadcast", "join", "done"}
    /\ pc[Main] \in {"stop_lock", "stop_set"} => ticks >= LastTick

\* Thread n sees the stop when it waits for the clock.  It ticks when its bit is
\* clear and signals when it is set.  As long as the flag of its node is set it
\* does not come to signal again: its bit is clear, unless it has just set the
\* flag, and stays so until the clock has been stopped.
NodeOK(n) ==
    /\ ~Stopped => running[n] /\ pc[n] # "done"
    /\ pc[n] \in {"tick_lock", "tick_add", "tick_broadcast"} => ~bit[n]
    /\ pc[n] \in SignalLabels /\ running[n] => bit[n]
    /\ ready[n] /\ running[n] =>
          \/ ~bit[n]
          \/ pc[n] = "signal_cond"
          \/ Stopped /\ pc[n] \in {"wait_lock", "wait_test"}
    /\ ready[n] /\ running[n] /\ pc[n] = "tick_broadcast" => Stopped

\* Thread n has ticked or signalled, but has not gone on to the next turn.
Ending(n) == pc[n] \in {"tick_broadcast", "signal_cond"}

\* How often thread n has ticked or signalled, and the parity of that.
Done(n) == IF Ending(n) THEN i[n] ELSE i[n] - 1
Odd(n) == ~(bit[n] <=> Ending(n))

One(b) == IF b THEN 1 ELSE 0

\* A token goes around: thread t is going to tick or signal.  Thread 0 has the
\* token as soon as the clock has ticked.
TokenLabels == {"tick_lock", "tick_add", "signal_lock", "signal_set"}

HasToken(t) == IF t = 0 THEN ticks > Done(0) ELSE pc[t] \in TokenLabels

\* There is at most one token, in the hand of a thread or on its way, as a flag,
\* from one to the next.
OneToken ==
    /\ pc[0] \in TokenLabels => HasToken(0)
    /\ \A t, u \in Threads : HasToken(t) /\ HasToken(u) => t = u
    /\ \A n \in Nodes, t \in Threads : ready[n] => ~HasToken(t)
    /\ \A m, n \in Nodes : ready[m] /\ ready[n] => m = n

\* How often the token has come to thread n; what node N_NODES gets is the flag
\* of the last node, which nobody clears.
Come(n) ==
    CASE n = 0 -> ticks
      [] n \in 1 .. N_NODES - 1 -> Done(n) + One(HasToken(n)) + One(ready[n - 1])
      [] n = N_NODES -> One(ready[n - 1])

\* The threads are the digits of a binary counter: thread n hands the token on
\* every second time, and the clock counts the turns of thread 0.
CounterOK ==
    /\ ticks = Done(0) + One(HasToken(0))
    /\ \A n \in Nodes : Done(n) = 2 * Come(n + 1) + One(Odd(n))
    /\ ticks <= LastTick

GraphInv ==
    /\ GraphTypeOK
    /\ StopOK
    /\ \A n \in Nodes : NodeOK(n)
    /\ ~Stopped => OneToken /\ CounterOK

-----------------------------------------------------------------------------
(* Steps *)

\* main is not one of the nodes.
LEMMA Constants ==
    /\ N_NODES \in Nat \ {0} /\ 0 \in Nodes /\ Nodes \subseteq Nat /\ Nodes \subseteq Int
    /\ Main \notin Nodes /\ Main # 0 /\ Main \in Threads /\ Nodes \subseteq Threads
    /\ \A t \in Threads : t \in Nodes \/ t = Main
    /\ \A n \in Nodes : n < N_NODES /\ (n # 0 => n - 1 \in Nodes)
BY GraphAssumption DEF Nodes, Main

\* What the assumption says of powers of two.
LEMMA PowersOfTwo ==
    /\ \A n \in 0 .. N_NODES : 2 ^ n \in Nat
    /\ 2 ^ 0 = 1
    /\ \A n \in Nodes : 2 ^ (n + 1) = 2 * 2 ^ n
<1>1. 2 ^ 0 = 1 /\ \A n \in Nodes : 2 ^ n \in Nat /\ 2 ^ (n + 1) = 2 * 2 ^ n
  BY GraphAssumption
<1>2. N_NODES - 1 \in Nodes /\ N_NODES - 1 + 1 = N_NODES
  BY Constants DEF Nodes
<1>3. 2 ^ (N_NODES - 1) \in Nat /\ 2 ^ (N_NODES - 1 + 1) = 2 * 2 ^ (N_NODES - 1)
  BY <1>1, <1>2
<1>4. 2 ^ N_NODES \in Nat
  BY <1>2, <1>3
<1>5. \A n \in 0 .. N_NODES : n \in Nodes \/ n = N_NODES
  BY Constants DEF Nodes
<1> QED
  BY <1>1, <1>4, <1>5

\* The invariant holds in the beginning.
LEMMA GraphInit == Init => GraphInv
<1> SUFFICES ASSUME Init PROVE GraphInv
  OBVIOUS
<1>1. ticks = 0
  BY DEF Init
<1>2. pc = [t \in Threads |-> IF t = Main THEN "tick_lock" ELSE "wait_lock"]
  BY DEF Init
<1>3. pc[Main] = "tick_lock" /\ \A n \in Nodes : pc[n] = "wait_lock"
  BY <1>2, Constants
<1>4. i = [n \in Nodes |-> 1]
  BY DEF Init
<1>5. ready = [n \in Nodes |-> FALSE] /\ bit = ready /\ running = [n \in Nodes |-> TRUE]
  BY DEF Init
<1>6. \A n \in Nodes : ready[n] = FALSE /\ bit[n] = FALSE /\ running[n] = TRUE
  BY <1>5
<1>7. \A n \in Nodes : i[n] = 1
  BY <1>4
<1>8. GraphTypeOK
  <2> USE DEF MainLabels, NodeLabels, ClockLabels, ParentLabels
  <2>1. pc \in [Threads -> MainLabels \cup NodeLabels]
    BY <1>2
  <2>2. /\ ready \in [Nodes -> BOOLEAN] /\ bit \in [Nodes -> BOOLEAN]
        /\ running \in [Nodes -> BOOLEAN]
    BY <1>5
  <2>3. /\ pc[Main] \in MainLabels /\ pc[0] \notin ParentLabels
        /\ \A n \in Nodes : pc[n] \in NodeLabels
    BY <1>3, Constants
  <2>4. i \in [Nodes -> Nat \ {0}]
    BY <1>4
  <2> QED
    BY <1>1, <2>1, <2>2, <2>3, <2>4 DEF GraphTypeOK
<1>9. StopOK
  BY <1>1, <1>3 DEF StopOK, Stopped
<1>10. \A n \in Nodes : NodeOK(n)
  BY <1>3, <1>6 DEF NodeOK, SignalLabels
<1>11. \A n \in Nodes : Done(n) = 0 /\ ~Odd(n) /\ ~HasToken(n) /\ ~ready[n]
  <2>1. \A n \in Nodes : Done(n) = 0
    BY <1>3, <1>7 DEF Done, Ending
  <2>2. \A n \in Nodes : ~Odd(n) /\ ~ready[n]
    BY <1>3, <1>6 DEF Odd, Ending
  <2>3. \A n \in Nodes : ~HasToken(n)
    BY <1>1, <1>3, <2>1, Constants DEF HasToken, TokenLabels
  <2> QED
    BY <2>1, <2>2, <2>3
<1>12. OneToken
  BY <1>3, <1>11, Constants DEF OneToken, TokenLabels
<1>13. \A n \in Nodes : Come(n + 1) = 0
  BY <1>11, Constants DEF Come, One, Nodes
<1>14. CounterOK
  <2>1. 0 <= LastTick
    BY Constants, PowersOfTwo DEF LastTick, Nodes
  <2> QED
    BY <1>1, <1>11, <1>13, <2>1, Constants DEF CounterOK, One
<1> QED
  BY <1>8, <1>9, <1>10, <1>12, <1>14 DEF GraphInv
-----------------------------------------------------------------------------
(* What a step of one thread leaves alone *)

\* Only thread t moves.
Alone(t) ==
    /\ \A u \in Threads : u # t => pc'[u] = pc[u]
    /\ \A n \in Nodes : n # t => i'[n] = i[n] /\ bit'[n] = bit[n] /\ running'[n] = running[n]

\* Thread t goes to a line of its own code.
NodeLine(t, q) ==
    IF t = Main THEN q \in MainLabels ELSE q \in NodeLabels /\ (t = 0 => q \notin ParentLabels)

\* A thread that goes to a line of its own code keeps the types of pc.
LEMMA GoTypes ==
    ASSUME GraphTypeOK, NEW t \in Threads, NEW p, NEW q, Go(t, p, q), NodeLine(t, q)
    PROVE  /\ pc' \in [Threads -> MainLabels \cup NodeLabels]
           /\ pc'[Main] \in MainLabels
           /\ \A n \in Nodes : pc'[n] \in NodeLabels
           /\ pc'[0] \notin ParentLabels
           /\ pc[t] = p /\ pc'[t] = q /\ \A u \in Threads : u # t => pc'[u] = pc[u]
<1> USE Constants DEF GraphTypeOK, Go, NodeLine
<1>1. pc' = [pc EXCEPT ![t] = q]
  OBVIOUS
<1>2. \A u \in Threads : pc'[u] = IF u = t THEN q ELSE pc[u]
  BY <1>1
<1>3. q \in MainLabels \cup NodeLabels
  OBVIOUS
<1>4. pc' \in [Threads -> MainLabels \cup NodeLabels]
  BY <1>1, <1>3
<1>5. pc'[Main] \in MainLabels
  BY <1>2
<1>6. \A n \in Nodes : pc'[n] \in NodeLabels
  BY <1>2
<1>7. pc'[0] \notin ParentLabels
  BY <1>2
<1> QED
  BY <1>2, <1>4, <1>5, <1>6, <1>7

\* The other nodes stay as they are, unless a flag of theirs is cleared or the
\* clock is stopped.
LEMMA OtherNodes ==
    ASSUME NEW t \in Threads, Alone(t), NEW n \in Nodes, n # t, NodeOK(n),
           ready'[n] => ready[n], Stopped => Stopped'
    PROVE  NodeOK(n)'
<1>1. n \in Threads
  BY Constants
<1>2. pc'[n] = pc[n] /\ bit'[n] = bit[n] /\ running'[n] = running[n]
  BY <1>1 DEF Alone
<1> QED
  BY <1>2 DEF NodeOK

\* The count of another thread stays.
LEMMA OtherCounts ==
    ASSUME NEW t \in Threads, Alone(t), NEW n \in Nodes, n # t
    PROVE  /\ Done(n)' = Done(n) /\ (Odd(n)' <=> Odd(n))
           /\ n # 0 => (HasToken(n)' <=> HasToken(n))
<1>1. n \in Threads
  BY Constants
<1>2. pc'[n] = pc[n] /\ bit'[n] = bit[n] /\ i'[n] = i[n]
  BY <1>1 DEF Alone
<1>3. Ending(n)' <=> Ending(n)
  BY <1>2 DEF Ending
<1>4. Done(n)' = Done(n)
  BY <1>2, <1>3 DEF Done
<1>5. Odd(n)' <=> Odd(n)
  BY <1>2, <1>3 DEF Odd
<1> QED
  BY <1>2, <1>4, <1>5 DEF HasToken

\* A step that moves neither the token nor a count keeps the counter.
LEMMA CounterFrame ==
    ASSUME GraphInv, ~Stopped, ticks' = ticks, ready' = ready, NEW t \in Threads, Alone(t),
           t \in Nodes => Done(t)' = Done(t) /\ (Odd(t)' <=> Odd(t)),
           t # 0 => (HasToken(t)' <=> HasToken(t)),
           t = 0 /\ pc'[0] \in TokenLabels => HasToken(0)
    PROVE  OneToken' /\ CounterOK'
<1>1. OneToken /\ CounterOK
  BY DEF GraphInv
<1>2. \A n \in Nodes : Done(n)' = Done(n) /\ (Odd(n)' <=> Odd(n))
  BY OtherCounts
<1>3. HasToken(0)' <=> HasToken(0)
  BY <1>2, Constants DEF HasToken
<1>4. \A u \in Threads : HasToken(u)' <=> HasToken(u)
  <2>1. ASSUME NEW u \in Threads, u # 0, u # t
        PROVE  HasToken(u)' <=> HasToken(u)
    BY <2>1 DEF HasToken, Alone
  <2> QED
    BY <1>3, <2>1
<1>5. pc'[0] \in TokenLabels => HasToken(0)'
  <2>1. CASE t = 0
    BY <1>3, <2>1
  <2>2. CASE t # 0
    <3>1. pc'[0] = pc[0]
      BY <2>2, Constants DEF Alone
    <3> QED
      BY <1>1, <1>3, <3>1 DEF OneToken
  <2> QED
    BY <2>1, <2>2
<1>6. OneToken'
  BY <1>1, <1>4, <1>5 DEF OneToken
<1>7. \A n \in Nodes : Come(n + 1)' = Come(n + 1)
  <2> SUFFICES ASSUME NEW n \in Nodes PROVE Come(n + 1)' = Come(n + 1)
    OBVIOUS
  <2>1. One(ready[n])' = One(ready[n])
    OBVIOUS
  <2>2. n \in Nat /\ n + 1 # 0 /\ n + 1 - 1 = n /\ (n + 1 = N_NODES \/ n + 1 \in Nodes)
    BY Constants DEF Nodes
  <2>3. ASSUME n + 1 \in Nodes
        PROVE  Done(n + 1)' = Done(n + 1) /\ One(HasToken(n + 1))' = One(HasToken(n + 1))
    <3>1. HasToken(n + 1)' <=> HasToken(n + 1)
      BY <1>4, <2>3, Constants
    <3> QED
      BY <1>2, <2>3, <3>1 DEF One
  <2> QED
    BY <2>1, <2>2, <2>3, Constants DEF Come, Nodes
<1>8. CounterOK'
  <2>1. ticks' = Done(0)' + One(HasToken(0))'
    <3>1. One(HasToken(0))' = One(HasToken(0))
      BY <1>3 DEF One
    <3> QED
      BY <1>1, <1>2, <3>1, Constants DEF CounterOK
  <2>2. ASSUME NEW n \in Nodes
        PROVE  Done(n)' = 2 * Come(n + 1)' + One(Odd(n))'
    <3>1. One(Odd(n))' = One(Odd(n))
      BY <1>2 DEF One
    <3> QED
      BY <1>1, <1>2, <1>7, <3>1 DEF CounterOK
  <2>3. ticks' <= LastTick'
    BY <1>1 DEF CounterOK, LastTick
  <2> QED
    BY <2>1, <2>2, <2>3 DEF CounterOK
<1> QED
  BY <1>6, <1>8
-----------------------------------------------------------------------------
(* Steps that move neither the token nor a count *)

\* From one line to the next, or back to the test after a wait.
NodeLines ==
    {<<"wait_lock", "wait_test">>, <<"wait_test", "wait_test">>, <<"tick_lock", "tick_add">>,
     <<"parent_lock", "parent_test">>, <<"parent_test", "parent_test">>,
     <<"signal_lock", "signal_set">>}

MainLines ==
    {<<"wait_lock", "wait_test">>, <<"wait_test", "wait_test">>, <<"tick_lock", "tick_add">>,
     <<"tick_broadcast", "wait_lock">>, <<"stop_lock", "stop_set">>,
     <<"stop_broadcast", "join">>, <<"join", "done">>}

\* Such a step of a node's thread keeps the invariant.
LEMMA NodeLineStep ==
    ASSUME GraphInv, NEW t \in Nodes, NEW p, NEW q, <<p, q>> \in NodeLines, Go(t, p, q),
           t = 0 => p \notin ParentLabels, UNCHANGED <<ticks, ready, i, bit, running>>
    PROVE  GraphInv'
<1>1. GraphTypeOK /\ t \in Threads /\ t # Main
  BY Constants DEF GraphInv
<1>2. /\ p \in {"wait_lock", "wait_test", "tick_lock", "parent_lock", "parent_test", "signal_lock"}
      /\ p = "wait_lock" => q = "wait_test"
      /\ p = "wait_test" => q = "wait_test"
      /\ p = "tick_lock" => q = "tick_add"
      /\ p \in {"parent_lock", "parent_test"} => q = "parent_test"
      /\ p = "signal_lock" => q = "signal_set"
  BY DEF NodeLines
<1>3. NodeLine(t, q)
  BY <1>1, <1>2 DEF NodeLine, NodeLabels, ClockLabels, ParentLabels, SignalLabels
<1>4. /\ pc' \in [Threads -> MainLabels \cup NodeLabels]
      /\ pc'[Main] \in MainLabels
      /\ \A n \in Nodes : pc'[n] \in NodeLabels
      /\ pc'[0] \notin ParentLabels
      /\ pc[t] = p /\ pc'[t] = q /\ \A u \in Threads : u # t => pc'[u] = pc[u]
  BY <1>1, <1>3, GoTypes
<1>5. GraphTypeOK'
  BY <1>1, <1>4 DEF GraphTypeOK
<1>6. Alone(t)
  BY <1>4 DEF Alone
<1>7. StopOK'
  <2>1. StopOK /\ pc'[Main] = pc[Main]
    BY <1>1, <1>4, Constants DEF GraphInv
  <2> QED
    BY <2>1 DEF StopOK, Stopped, LastTick
<1>8. NodeOK(t)'
  <2>1. NodeOK(t)
    BY DEF GraphInv
  <2> QED
    BY <1>2, <1>4, <2>1 DEF NodeOK, Stopped, SignalLabels
<1>9. \A n \in Nodes : NodeOK(n)'
  BY <1>1, <1>6, <1>8, OtherNodes DEF GraphInv, Stopped
<1>10. ASSUME ~Stopped' PROVE OneToken' /\ CounterOK'
  <2>1. ~Stopped
    BY <1>10 DEF Stopped
  <2>2. ~Ending(t) /\ ~Ending(t)'
    BY <1>2, <1>4 DEF Ending
  <2>3. Done(t)' = Done(t) /\ (Odd(t)' <=> Odd(t))
    BY <2>2 DEF Done, Odd
  <2>4. pc'[t] \in TokenLabels <=> pc[t] \in TokenLabels
    BY <1>2, <1>4 DEF TokenLabels
  <2>5. t # 0 => (HasToken(t)' <=> HasToken(t))
    BY <2>4 DEF HasToken
  <2>6. t = 0 /\ pc'[0] \in TokenLabels => HasToken(0)
    BY <2>1, <2>4 DEF GraphInv, OneToken
  <2> QED
    BY <1>1, <1>6, <2>1, <2>3, <2>5, <2>6, CounterFrame
<1> QED
  BY <1>5, <1>7, <1>9, <1>10 DEF GraphInv

\* And so does such a step of main.
LEMMA MainLineStep ==
    ASSUME GraphInv, NEW p, NEW q, <<p, q>> \in MainLines, Go(Main, p, q),
           UNCHANGED <<ticks, ready, i, bit, running>>
    PROVE  GraphInv'
<1>1. GraphTypeOK /\ Main \in Threads /\ Main # 0 /\ Main \notin Nodes
  BY Constants DEF GraphInv
<1>2. /\ p \in {"wait_lock", "wait_test", "tick_lock", "tick_broadcast", "stop_lock",
                "stop_broadcast", "join"}
      /\ p = "wait_lock" => q = "wait_test"
      /\ p = "wait_test" => q = "wait_test"
      /\ p = "tick_lock" => q = "tick_add"
      /\ p = "tick_broadcast" => q = "wait_lock"
      /\ p = "stop_lock" => q = "stop_set"
      /\ p = "stop_broadcast" => q = "join"
      /\ p = "join" => q = "done"
  BY DEF MainLines
<1>3. NodeLine(Main, q)
  BY <1>1, <1>2 DEF NodeLine, MainLabels, ClockLabels
<1>4. /\ pc' \in [Threads -> MainLabels \cup NodeLabels]
      /\ pc'[Main] \in MainLabels
      /\ \A n \in Nodes : pc'[n] \in NodeLabels
      /\ pc'[0] \notin ParentLabels
      /\ pc[Main] = p /\ pc'[Main] = q /\ \A u \in Threads : u # Main => pc'[u] = pc[u]
  BY <1>1, <1>3, GoTypes
<1>5. GraphTypeOK'
  BY <1>1, <1>4 DEF GraphTypeOK
<1>6. Alone(Main)
  BY <1>4 DEF Alone
<1>7. StopOK'
  <2>1. StopOK
    BY DEF GraphInv
  <2> QED
    BY <1>2, <1>4, <2>1 DEF StopOK, Stopped, LastTick
<1>9. \A n \in Nodes : NodeOK(n)'
  BY <1>1, <1>6, OtherNodes DEF GraphInv, Stopped
<1>10. ASSUME ~Stopped' PROVE OneToken' /\ CounterOK'
  <2>1. ~Stopped
    BY <1>10 DEF Stopped
  <2>2. HasToken(Main)' <=> HasToken(Main)
    BY <1>1, <1>2, <1>4 DEF HasToken, TokenLabels
  <2> QED
    BY <1>1, <1>6, <2>1, <2>2, CounterFrame
<1> QED
  BY <1>5, <1>7, <1>9, <1>10 DEF GraphInv
\* Thread t goes on to its next turn: its count stays, because it has counted
\* this turn already, and its bit changes.
LEMMA NextTurn ==
    ASSUME GraphInv, NEW t \in Nodes, NEW p \in {"tick_broadcast", "signal_cond"},
           p = "signal_cond" => running[t], Go(t, p, "wait_lock"), NextIteration(t),
           UNCHANGED <<ticks, ready, running>>
    PROVE  GraphInv'
<1>1. GraphTypeOK /\ t \in Threads /\ t # Main
  BY Constants DEF GraphInv
<1>2. NodeLine(t, "wait_lock")
  BY <1>1 DEF NodeLine, NodeLabels, ClockLabels, ParentLabels
<1>3. /\ pc' \in [Threads -> MainLabels \cup NodeLabels]
      /\ pc'[Main] \in MainLabels
      /\ \A n \in Nodes : pc'[n] \in NodeLabels
      /\ pc'[0] \notin ParentLabels
      /\ pc[t] = p /\ pc'[t] = "wait_lock" /\ \A u \in Threads : u # t => pc'[u] = pc[u]
  BY <1>1, <1>2, GoTypes
<1>4. /\ i' \in [Nodes -> Nat \ {0}] /\ i'[t] = i[t] + 1 /\ i[t] \in Nat
      /\ \A n \in Nodes : n # t => i'[n] = i[n]
  BY <1>1 DEF NextIteration, GraphTypeOK
<1>5. /\ bit' \in [Nodes -> BOOLEAN] /\ bit' = [bit EXCEPT ![t] = ~bit[t]]
      /\ \A n \in Nodes : n # t => bit'[n] = bit[n]
  BY <1>1 DEF NextIteration, GraphTypeOK
<1>6. bit'[t] <=> ~bit[t]
  BY <1>1, <1>5 DEF GraphTypeOK
<1>7. GraphTypeOK'
  BY <1>1, <1>3, <1>4, <1>5 DEF GraphTypeOK
<1>8. Alone(t)
  BY <1>3, <1>4, <1>5 DEF Alone
<1>9. StopOK'
  <2>1. StopOK /\ pc'[Main] = pc[Main]
    BY <1>1, <1>3, Constants DEF GraphInv
  <2> QED
    BY <2>1 DEF StopOK, Stopped, LastTick
<1>10. NodeOK(t)'
  <2>1. NodeOK(t)
    BY DEF GraphInv
  <2>2. p = "tick_broadcast" => ~bit[t] /\ (ready[t] /\ running[t] => Stopped)
    BY <1>3, <2>1 DEF NodeOK
  <2>3. p = "signal_cond" => bit[t]
    BY <1>3, <2>1 DEF NodeOK, SignalLabels
  <2>4. ~Stopped => running[t]
    BY <2>1 DEF NodeOK
  <2> QED
    BY <1>3, <1>6, <2>2, <2>3, <2>4 DEF NodeOK, Stopped, SignalLabels
<1>11. \A n \in Nodes : NodeOK(n)'
  BY <1>1, <1>8, <1>10, OtherNodes DEF GraphInv, Stopped
<1>12. ASSUME ~Stopped' PROVE OneToken' /\ CounterOK'
  <2>1. ~Stopped
    BY <1>12 DEF Stopped
  <2>2. Ending(t) /\ ~Ending(t)'
    BY <1>3 DEF Ending
  <2>3. Done(t)' = Done(t)
    BY <1>4, <2>2 DEF Done
  <2>4. Odd(t)' <=> Odd(t)
    BY <1>6, <2>2 DEF Odd
  <2>5. pc'[t] \notin TokenLabels /\ pc[t] \notin TokenLabels
    BY <1>3 DEF TokenLabels
  <2>6. t # 0 => (HasToken(t)' <=> HasToken(t))
    BY <2>5 DEF HasToken
  <2> QED
    BY <1>1, <1>8, <2>1, <2>3, <2>4, <2>5, <2>6, CounterFrame
<1> QED
  BY <1>7, <1>9, <1>11, <1>12 DEF GraphInv

\* Thread t ends.  It has seen the stop, which lasts.
LEMMA LastTurn ==
    ASSUME GraphInv, NEW t \in Nodes, ~running[t], Go(t, "signal_cond", "done"),
           UNCHANGED <<ticks, ready, i, bit, running>>
    PROVE  GraphInv'
<1>1. GraphTypeOK /\ t \in Threads /\ t # Main
  BY Constants DEF GraphInv
<1>2. NodeLine(t, "done")
  BY <1>1 DEF NodeLine, NodeLabels, ParentLabels
<1>3. /\ pc' \in [Threads -> MainLabels \cup NodeLabels]
      /\ pc'[Main] \in MainLabels
      /\ \A n \in Nodes : pc'[n] \in NodeLabels
      /\ pc'[0] \notin ParentLabels
      /\ pc'[t] = "done" /\ \A u \in Threads : u # t => pc'[u] = pc[u]
  BY <1>1, <1>2, GoTypes
<1>4. GraphTypeOK'
  BY <1>1, <1>3 DEF GraphTypeOK
<1>5. Alone(t)
  BY <1>3 DEF Alone
<1>6. StopOK'
  <2>1. StopOK /\ pc'[Main] = pc[Main]
    BY <1>1, <1>3, Constants DEF GraphInv
  <2> QED
    BY <2>1 DEF StopOK, Stopped, LastTick
<1>7. Stopped /\ Stopped'
  BY DEF GraphInv, NodeOK, Stopped
<1>8. NodeOK(t)'
  BY <1>3, <1>7 DEF NodeOK, SignalLabels
<1>9. \A n \in Nodes : NodeOK(n)'
  BY <1>1, <1>5, <1>7, <1>8, OtherNodes DEF GraphInv
<1> QED
  BY <1>4, <1>6, <1>7, <1>9 DEF GraphInv

\* Thread t returns from clock_wait.  When the clock has reached its turn it goes
\* on; otherwise the clock has been stopped.
LEMMA WaitReturns ==
    ASSUME GraphInv, NEW t \in Nodes, ClockWaitReturn(t)
    PROVE  GraphInv'
<1> DEFINE reached == ticks >= i[t]
           q == IF ~reached THEN "signal_lock" ELSE IF t = 0 THEN Work(t) ELSE "parent_lock"
<1>1. GraphTypeOK /\ t \in Threads /\ t # Main /\ i[t] \in Nat \ {0} /\ ticks \in Int
  BY Constants DEF GraphInv, GraphTypeOK
<1>2. /\ Go(t, "wait_test", q) /\ running' = [running EXCEPT ![t] = reached]
      /\ UNCHANGED <<ticks, ready, i, bit>>
      /\ ~(ticks >= 0 /\ ticks < i[t])
  BY <1>1 DEF ClockWaitReturn, Target, MustWait
<1>3. reached => ~Stopped
  BY <1>1 DEF Stopped
<1>4. ~reached => Stopped
  BY <1>1, <1>2 DEF Stopped
<1>5. /\ q \in {"signal_lock", "tick_lock", "parent_lock"}
      /\ reached /\ q = "signal_lock" => bit[t]
      /\ q = "tick_lock" => ~bit[t]
      /\ t = 0 => q # "parent_lock"
      /\ q \in TokenLabels /\ reached => t = 0
  BY DEF Work, TokenLabels
<1> HIDE DEF q
<1>6. NodeLine(t, q)
  BY <1>1, <1>5 DEF NodeLine, NodeLabels, ClockLabels, ParentLabels, SignalLabels
<1>7. /\ pc' \in [Threads -> MainLabels \cup NodeLabels]
      /\ pc'[Main] \in MainLabels
      /\ \A n \in Nodes : pc'[n] \in NodeLabels
      /\ pc'[0] \notin ParentLabels
      /\ pc[t] = "wait_test" /\ pc'[t] = q /\ \A u \in Threads : u # t => pc'[u] = pc[u]
  BY <1>1, <1>2, <1>6, GoTypes
<1>8. /\ running' \in [Nodes -> BOOLEAN] /\ running'[t] = reached
      /\ \A n \in Nodes : n # t => running'[n] = running[n]
  <2>1. reached \in BOOLEAN
    OBVIOUS
  <2> HIDE DEF reached
  <2> QED
    BY <1>1, <1>2, <2>1 DEF GraphTypeOK
<1> HIDE DEF reached
<1>9. GraphTypeOK'
  BY <1>1, <1>2, <1>7, <1>8 DEF GraphTypeOK
<1>10. Alone(t)
  BY <1>2, <1>7, <1>8 DEF Alone
<1>11. StopOK'
  <2>1. StopOK /\ pc'[Main] = pc[Main]
    BY <1>1, <1>7, Constants DEF GraphInv
  <2> QED
    BY <1>2, <2>1 DEF StopOK, Stopped, LastTick
<1>12. NodeOK(t)'
  <2>1. NodeOK(t)
    BY DEF GraphInv
  <2>2. Stopped' <=> Stopped
    BY <1>2 DEF Stopped
  <2>3. running'[t] <=> reached
    BY <1>8
  <2>4. ready'[t] /\ running'[t] => ~bit'[t]
    <3>1. ready[t] /\ running[t] /\ ~Stopped => ~bit[t]
      BY <1>7, <2>1 DEF NodeOK
    <3>2. ~Stopped => running[t]
      BY <2>1 DEF NodeOK
    <3> QED
      BY <1>2, <1>3, <2>3, <3>1, <3>2
  <2>5. pc'[t] \in SignalLabels /\ running'[t] => bit'[t]
    BY <1>2, <1>5, <1>7, <2>3 DEF SignalLabels
  <2>6. pc'[t] \in {"tick_lock", "tick_add", "tick_broadcast"} => ~bit'[t]
    BY <1>2, <1>5, <1>7
  <2>7. pc'[t] # "done" /\ pc'[t] # "tick_broadcast"
    BY <1>5, <1>7
  <2> QED
    BY <1>4, <2>2, <2>3, <2>4, <2>5, <2>6, <2>7 DEF NodeOK
<1>13. \A n \in Nodes : NodeOK(n)'
  BY <1>1, <1>2, <1>10, <1>12, OtherNodes DEF GraphInv, Stopped
<1>14. ASSUME ~Stopped' PROVE OneToken' /\ CounterOK'
  <2>1. ~Stopped /\ reached
    BY <1>2, <1>4, <1>14 DEF Stopped
  <2>2. ~Ending(t) /\ ~Ending(t)'
    BY <1>5, <1>7 DEF Ending
  <2>3. Done(t)' = Done(t) /\ (Odd(t)' <=> Odd(t)) /\ Done(t) = i[t] - 1
    BY <1>2, <2>2 DEF Done, Odd
  <2>4. t # 0 => (HasToken(t)' <=> HasToken(t))
    BY <1>5, <1>7, <2>1 DEF HasToken, TokenLabels
  <2>5. t = 0 => HasToken(0)
    <3>1. ticks > i[t] - 1
      BY <1>1, <2>1 DEF reached
    <3> QED
      BY <2>3, <3>1 DEF HasToken
  <2> QED
    BY <1>1, <1>2, <1>10, <2>1, <2>3, <2>4, <2>5, CounterFrame
<1> QED
  BY <1>9, <1>11, <1>13, <1>14 DEF GraphInv
\* main returns from clock_wait: the clock, which nobody else stops, has ticked
\* often enough.
LEMMA MainReturns ==
    ASSUME GraphInv, ClockWaitReturn(Main)
    PROVE  GraphInv'
<1>1. GraphTypeOK /\ Main \in Threads /\ Main # 0 /\ Main \notin Nodes /\ StopOK /\ ticks \in Int
  BY Constants DEF GraphInv, GraphTypeOK
<1>2. /\ Go(Main, "wait_test", "stop_lock") /\ UNCHANGED <<ticks, ready, i, bit, running>>
      /\ ~(ticks >= 0 /\ ticks < LastTick)
  BY <1>1 DEF ClockWaitReturn, Target, MustWait
<1>3. NodeLine(Main, "stop_lock")
  BY DEF NodeLine, MainLabels
<1>4. /\ pc' \in [Threads -> MainLabels \cup NodeLabels]
      /\ pc'[Main] \in MainLabels
      /\ \A n \in Nodes : pc'[n] \in NodeLabels
      /\ pc'[0] \notin ParentLabels
      /\ pc[Main] = "wait_test" /\ pc'[Main] = "stop_lock"
      /\ \A u \in Threads : u # Main => pc'[u] = pc[u]
  BY <1>1, <1>2, <1>3, GoTypes
<1>5. GraphTypeOK'
  BY <1>1, <1>2, <1>4 DEF GraphTypeOK
<1>6. Alone(Main)
  BY <1>2, <1>4 DEF Alone
<1>7. ticks >= 0
  BY <1>1, <1>4 DEF StopOK, Stopped
<1>8. LastTick \in Nat
  BY Constants, PowersOfTwo DEF LastTick
<1>9. ticks >= LastTick
  BY <1>1, <1>2, <1>7, <1>8
<1>10. StopOK'
  BY <1>1, <1>2, <1>4, <1>7, <1>9 DEF StopOK, Stopped, LastTick
<1>11. \A n \in Nodes : NodeOK(n)'
  BY <1>1, <1>2, <1>6, OtherNodes DEF GraphInv, Stopped
<1>12. ASSUME ~Stopped' PROVE OneToken' /\ CounterOK'
  <2>1. ~Stopped
    BY <1>2, <1>12 DEF Stopped
  <2>2. HasToken(Main)' <=> HasToken(Main)
    BY <1>1, <1>4 DEF HasToken, TokenLabels
  <2> QED
    BY <1>1, <1>2, <1>6, <2>1, <2>2, CounterFrame
<1> QED
  BY <1>5, <1>10, <1>11, <1>12 DEF GraphInv

-----------------------------------------------------------------------------
(* Steps that move the token, and the stop *)

\* main stops the clock.
LEMMA StopStep ==
    ASSUME GraphInv, ClockStopSet
    PROVE  GraphInv'
<1>1. GraphTypeOK /\ Main \in Threads /\ Main # 0 /\ Main \notin Nodes
  BY Constants DEF GraphInv
<1>2. Go(Main, "stop_set", "stop_broadcast") /\ ticks' = -1 /\ UNCHANGED <<ready, i, bit, running>>
  BY DEF ClockStopSet
<1>3. NodeLine(Main, "stop_broadcast")
  BY DEF NodeLine, MainLabels
<1>4. /\ pc' \in [Threads -> MainLabels \cup NodeLabels]
      /\ pc'[Main] \in MainLabels
      /\ \A n \in Nodes : pc'[n] \in NodeLabels
      /\ pc'[0] \notin ParentLabels
      /\ pc'[Main] = "stop_broadcast"
      /\ \A u \in Threads : u # Main => pc'[u] = pc[u]
  BY <1>1, <1>2, <1>3, GoTypes
<1>5. GraphTypeOK'
  BY <1>1, <1>2, <1>4 DEF GraphTypeOK
<1>6. Alone(Main)
  BY <1>2, <1>4 DEF Alone
<1>7. Stopped'
  BY <1>2 DEF Stopped
<1>8. StopOK'
  BY <1>4, <1>7 DEF StopOK
<1>9. \A n \in Nodes : NodeOK(n)'
  BY <1>1, <1>2, <1>6, <1>7, OtherNodes DEF GraphInv
<1> QED
  BY <1>5, <1>7, <1>8, <1>9 DEF GraphInv

\* What the clock hands on comes to thread 0.
LEMMA ComeFirst == Come(0) = ticks
<1>1. 0 \notin 1 .. N_NODES - 1 /\ 0 # N_NODES
  BY Constants
<1> QED
  BY <1>1 DEF Come

\* What node n hands on comes to the next.
LEMMA ComeNext ==
    ASSUME NEW n \in Nodes
    PROVE  /\ n + 1 \in Nodes =>
                 /\ Come(n + 1) = Done(n + 1) + One(HasToken(n + 1)) + One(ready[n])
                 /\ Come(n + 1)' = Done(n + 1)' + One(HasToken(n + 1)') + One(ready'[n])
           /\ n + 1 \notin Nodes =>
                 /\ Come(n + 1) = One(ready[n])
                 /\ Come(n + 1)' = One(ready'[n])
<1>1. n \in Nat /\ n + 1 # 0 /\ n + 1 - 1 = n
  BY Constants
<1>2. n + 1 \in Nodes => n + 1 \in 1 .. N_NODES - 1
  BY <1>1 DEF Nodes
<1>3. n + 1 \notin Nodes => n + 1 = N_NODES /\ n + 1 \notin 1 .. N_NODES - 1
  BY <1>1, Constants DEF Nodes
<1> QED
  BY <1>1, <1>2, <1>3 DEF Come, One

\* The counts are natural numbers.
LEMMA Counts ==
    ASSUME GraphTypeOK
    PROVE  \A n \in Nodes : Done(n) \in Nat /\ One(Odd(n)) \in {0, 1} /\ One(HasToken(n)) \in {0, 1}
<1>1. \A n \in Nodes : i[n] \in Nat /\ i[n] - 1 \in Nat
  BY DEF GraphTypeOK
<1> QED
  BY <1>1 DEF Done, One

\* A thread that is going to tick or signal has the token, and there is no other.
LEMMA TokenIsAlone ==
    ASSUME GraphInv, ~Stopped, NEW t \in Threads, pc[t] \in TokenLabels
    PROVE  /\ HasToken(t) /\ \A u \in Threads : u # t => ~HasToken(u)
           /\ \A n \in Nodes : ready[n] = FALSE
<1>1. OneToken /\ ready \in [Nodes -> BOOLEAN]
  BY DEF GraphInv, GraphTypeOK
<1>2. HasToken(t)
  BY <1>1 DEF OneToken, HasToken
<1>3. \A n \in Nodes : ~ready[n]
  BY <1>1, <1>2 DEF OneToken
<1> QED
  BY <1>1, <1>2, <1>3 DEF OneToken
\* If each other thread is come to as often as before, only the count of thread t
\* is left to compare with what it has handed on.
LEMMA CounterMoves ==
    ASSUME CounterOK, NEW t \in Threads, Alone(t),
           \A n \in Nodes : n # t => Come(n + 1)' = Come(n + 1),
           t \in Nodes => Done(t)' = 2 * Come(t + 1)' + One(Odd(t)')
    PROVE  \A n \in Nodes : Done(n)' = 2 * Come(n + 1)' + One(Odd(n)')
<1> SUFFICES ASSUME NEW n \in Nodes
             PROVE  Done(n)' = 2 * Come(n + 1)' + One(Odd(n)')
  OBVIOUS
<1>1. CASE n = t
  BY <1>1
<1>2. CASE n # t
  <2>1. Done(n)' = Done(n) /\ One(Odd(n)') = One(Odd(n))
    BY <1>2, OtherCounts DEF One
  <2>2. Come(n + 1)' = Come(n + 1)
    BY <1>2
  <2> QED
    BY <2>1, <2>2 DEF CounterOK
<1> QED
  BY <1>1, <1>2

\* Thread t has waited for the thread before it and takes the token out of its
\* flag.
LEMMA TokenTaken ==
    ASSUME GraphInv, NEW t \in Nodes, NodeWaitReturn(t)
    PROVE  GraphInv'
<1> DEFINE q == Work(t)
           m == t - 1
<1>1. GraphTypeOK /\ t \in Threads /\ t # Main /\ ready \in [Nodes -> BOOLEAN]
  BY Constants DEF GraphInv, GraphTypeOK
<1>2. /\ Go(t, "parent_test", q) /\ ready[m] /\ ready' = [ready EXCEPT ![m] = FALSE]
      /\ UNCHANGED <<ticks, i, bit, running>>
  BY DEF NodeWaitReturn, Consumed
<1>3. /\ q \in {"signal_lock", "tick_lock"}
      /\ q = "signal_lock" => bit[t]
      /\ q = "tick_lock" => ~bit[t]
  BY DEF Work
<1> HIDE DEF q
<1>4. NodeLine(t, q)
  BY <1>1, <1>3 DEF NodeLine, NodeLabels, ClockLabels, ParentLabels, SignalLabels
<1>5. /\ pc' \in [Threads -> MainLabels \cup NodeLabels]
      /\ pc'[Main] \in MainLabels
      /\ \A n \in Nodes : pc'[n] \in NodeLabels
      /\ pc'[0] \notin ParentLabels
      /\ pc[t] = "parent_test" /\ pc'[t] = q /\ \A u \in Threads : u # t => pc'[u] = pc[u]
  BY <1>1, <1>2, <1>4, GoTypes
<1>6. t # 0 /\ t \in Nat
  BY <1>1, <1>5, Constants DEF GraphTypeOK, ParentLabels
<1>7. m \in Nodes /\ m + 1 = t /\ m # t
  BY <1>6, Constants
<1> HIDE DEF m
<1>8. /\ ready' \in [Nodes -> BOOLEAN] /\ ready'[m] = FALSE
      /\ \A n \in Nodes : n # m => ready'[n] = ready[n]
  BY <1>1, <1>2, <1>7
<1>9. GraphTypeOK'
  BY <1>1, <1>2, <1>5, <1>8 DEF GraphTypeOK
<1>10. Alone(t)
  BY <1>2, <1>5 DEF Alone
<1>11. StopOK'
  <2>1. StopOK /\ pc'[Main] = pc[Main]
    BY <1>1, <1>5, Constants DEF GraphInv
  <2> QED
    BY <1>2, <2>1 DEF StopOK, Stopped, LastTick
<1>12. NodeOK(t)'
  <2>1. NodeOK(t) /\ ready'[t] = ready[t]
    BY <1>7, <1>8 DEF GraphInv
  <2> QED
    BY <1>2, <1>3, <1>5, <2>1 DEF NodeOK, Stopped, SignalLabels
<1>13. \A n \in Nodes : ready'[n] => ready[n]
  BY <1>8
<1>14. \A n \in Nodes : NodeOK(n)'
  BY <1>1, <1>2, <1>10, <1>12, <1>13, OtherNodes DEF GraphInv, Stopped
<1>15. ASSUME ~Stopped' PROVE OneToken' /\ CounterOK'
  <2>1. OneToken /\ CounterOK
    BY <1>2, <1>15 DEF GraphInv, Stopped
  <2>2. \A u \in Threads : ~HasToken(u)
    BY <1>2, <1>7, <2>1 DEF OneToken
  <2>3. \A n \in Nodes : ready'[n] = FALSE /\ (n # m => ready[n] = FALSE)
    BY <1>1, <1>2, <1>7, <1>8, <2>1 DEF OneToken
  <2>4. ~Ending(t) /\ ~Ending(t)'
    BY <1>3, <1>5 DEF Ending
  <2>5. Done(t)' = Done(t) /\ (Odd(t)' <=> Odd(t))
    BY <1>2, <2>4 DEF Done, Odd
  <2>6. Done(0)' = Done(0)
    BY <1>1, <1>6, <1>10, OtherCounts, Constants
  <2>7. ~HasToken(0)' /\ pc'[0] = pc[0] /\ pc[0] \notin TokenLabels
    BY <1>2, <1>5, <1>6, <2>1, <2>2, <2>6, Constants DEF HasToken, OneToken
  <2>8. HasToken(t)' /\ \A u \in Threads : u # t => ~HasToken(u)'
    <3>1. HasToken(t)'
      BY <1>3, <1>5, <1>6 DEF HasToken, TokenLabels
    <3>2. ASSUME NEW u \in Threads, u # t, u # 0 PROVE ~HasToken(u)'
      BY <1>5, <2>2, <3>2 DEF HasToken
    <3> QED
      BY <2>7, <3>1, <3>2
  <2>9. OneToken'
    BY <2>3, <2>7, <2>8 DEF OneToken
  <2>10. \A n \in Nodes : Come(n + 1)' = Come(n + 1)
    <3> SUFFICES ASSUME NEW n \in Nodes PROVE Come(n + 1)' = Come(n + 1)
      OBVIOUS
    <3>1. CASE n = m
      <4>1. Come(t)' = Done(t)' + One(HasToken(t)') + One(ready'[m])
        BY <1>7, ComeNext
      <4>2. Come(t) = Done(t) + One(HasToken(t)) + One(ready[m])
        BY <1>7, ComeNext
      <4>3. Done(t) \in Nat
        BY <1>1, Counts
      <4> QED
        BY <1>1, <1>2, <1>7, <2>2, <2>3, <2>5, <2>8, <3>1, <4>1, <4>2, <4>3 DEF One
    <3>2. CASE n # m
      <4>1. n + 1 # t /\ ready'[n] = ready[n]
        BY <1>7, <1>8, <3>2, Constants
      <4>2. ASSUME n + 1 \in Nodes
            PROVE  Done(n + 1)' = Done(n + 1) /\ ~HasToken(n + 1)' /\ ~HasToken(n + 1)
        BY <1>1, <1>10, <2>2, <2>8, <4>1, <4>2, OtherCounts, Constants
      <4> QED
        BY <4>1, <4>2, ComeNext DEF One
    <3> QED
      BY <3>1, <3>2
  <2>11. Done(t)' = 2 * Come(t + 1)' + One(Odd(t)')
    <3>1. One(Odd(t)') = One(Odd(t))
      BY <2>5 DEF One
    <3> QED
      BY <2>1, <2>5, <2>10, <3>1 DEF CounterOK
  <2>12. \A n \in Nodes : Done(n)' = 2 * Come(n + 1)' + One(Odd(n)')
    BY <1>1, <1>10, <2>1, <2>10, <2>11, CounterMoves
  <2>13. ticks' = Done(0)' + One(HasToken(0)')
    BY <1>2, <2>1, <2>2, <2>6, <2>7, Constants DEF CounterOK, One
  <2> QED
    BY <1>2, <2>1, <2>9, <2>12, <2>13 DEF CounterOK, LastTick, One
<1> QED
  BY <1>9, <1>11, <1>14, <1>15 DEF GraphInv
\* Thread t puts the token into its flag.
LEMMA TokenHandedOn ==
    ASSUME GraphInv, NEW t \in Nodes, NodeSignalSet(t)
    PROVE  GraphInv'
<1>1. GraphTypeOK /\ t \in Threads /\ t # Main /\ ready \in [Nodes -> BOOLEAN]
  BY Constants DEF GraphInv, GraphTypeOK
<1>2. /\ Go(t, "signal_set", "signal_cond") /\ ready' = [ready EXCEPT ![t] = TRUE]
      /\ UNCHANGED <<ticks, i, bit, running>>
  BY DEF NodeSignalSet
<1>3. NodeLine(t, "signal_cond")
  BY <1>1 DEF NodeLine, NodeLabels, ParentLabels, SignalLabels
<1>4. /\ pc' \in [Threads -> MainLabels \cup NodeLabels]
      /\ pc'[Main] \in MainLabels
      /\ \A n \in Nodes : pc'[n] \in NodeLabels
      /\ pc'[0] \notin ParentLabels
      /\ pc[t] = "signal_set" /\ pc'[t] = "signal_cond"
      /\ \A u \in Threads : u # t => pc'[u] = pc[u]
  BY <1>1, <1>2, <1>3, GoTypes
<1>5. /\ ready' \in [Nodes -> BOOLEAN] /\ ready'[t] = TRUE
      /\ \A n \in Nodes : n # t => ready'[n] = ready[n]
  BY <1>1, <1>2
<1>6. GraphTypeOK'
  BY <1>1, <1>2, <1>4, <1>5 DEF GraphTypeOK
<1>7. Alone(t)
  BY <1>2, <1>4 DEF Alone
<1>8. StopOK'
  <2>1. StopOK /\ pc'[Main] = pc[Main]
    BY <1>1, <1>4, Constants DEF GraphInv
  <2> QED
    BY <1>2, <2>1 DEF StopOK, Stopped, LastTick
<1>9. NodeOK(t)'
  <2>1. NodeOK(t)
    BY DEF GraphInv
  <2> QED
    BY <1>2, <1>4, <2>1 DEF NodeOK, Stopped, SignalLabels
<1>10. \A n \in Nodes : n # t => (ready'[n] => ready[n])
  BY <1>5
<1>11. \A n \in Nodes : NodeOK(n)'
  BY <1>1, <1>2, <1>7, <1>9, <1>10, OtherNodes DEF GraphInv, Stopped
<1>12. ASSUME ~Stopped' PROVE OneToken' /\ CounterOK'
  <2>1. OneToken /\ CounterOK /\ ~Stopped
    BY <1>2, <1>12 DEF GraphInv, Stopped
  <2>2. bit[t] = TRUE
    BY <1>1, <1>4, <2>1 DEF GraphInv, GraphTypeOK, NodeOK, SignalLabels
  <2>3. pc[t] \in TokenLabels /\ pc'[t] \notin TokenLabels
    BY <1>4 DEF TokenLabels
  <2>4. HasToken(t) /\ \A u \in Threads : u # t => ~HasToken(u)
    BY <1>1, <2>1, <2>3, TokenIsAlone
  <2>5. \A n \in Nodes : ready[n] = FALSE
    BY <1>1, <2>1, <2>3, TokenIsAlone
  <2>6. ~Ending(t) /\ Ending(t)'
    BY <1>4 DEF Ending
  <2>7. i[t] \in Nat /\ i'[t] = i[t]
    BY <1>1, <1>2 DEF GraphTypeOK
  <2>8. Done(t)' = Done(t) + 1 /\ Done(t) \in Nat
    BY <1>1, <2>6, <2>7, Counts DEF Done
  <2>9. Odd(t) /\ ~Odd(t)'
    BY <1>2, <2>2, <2>6 DEF Odd
  <2>10. ticks' = Done(0)' + One(HasToken(0)') /\ (t = 0 => ~HasToken(0)')
    <3>1. CASE t = 0
      <4>1. ticks = Done(0) + 1
        BY <2>1, <2>4, <3>1 DEF CounterOK, One
      <4>2. ticks' = Done(0)' /\ Done(0)' \in Nat
        BY <1>2, <2>8, <3>1, <4>1
      <4>3. ~HasToken(0)'
        BY <4>2 DEF HasToken
      <4> QED
        BY <4>2, <4>3 DEF One
    <3>2. CASE t # 0
      <4>1. Done(0)' = Done(0)
        BY <1>1, <1>7, <3>2, OtherCounts, Constants
      <4>2. HasToken(0)' <=> HasToken(0)
        BY <1>2, <4>1 DEF HasToken
      <4> QED
        BY <1>2, <2>1, <3>2, <4>1, <4>2 DEF CounterOK, One
    <3> QED
      BY <3>1, <3>2
  <2>11. \A u \in Threads : ~HasToken(u)'
    <3>1. ASSUME NEW u \in Threads, u # t PROVE ~HasToken(u)'
      <4>1. CASE u = 0
        <5>1. Done(0)' = Done(0)
          BY <1>1, <1>7, <3>1, <4>1, OtherCounts, Constants
        <5> QED
          BY <1>2, <2>4, <3>1, <4>1, <5>1 DEF HasToken
      <4>2. CASE u # 0
        BY <1>4, <2>4, <3>1, <4>2 DEF HasToken
      <4> QED
        BY <4>1, <4>2
    <3>2. ~HasToken(t)'
      BY <2>3, <2>10 DEF HasToken
    <3> QED
      BY <3>1, <3>2
  <2>12. OneToken'
    <3>1. pc'[0] \notin TokenLabels
      <4>1. CASE t = 0
        BY <2>3, <4>1
      <4>2. CASE t # 0
        BY <1>4, <2>1, <2>4, <4>2, Constants DEF OneToken
      <4> QED
        BY <4>1, <4>2
    <3>2. \A m, n \in Nodes : ready'[m] /\ ready'[n] => m = n
      BY <1>5, <2>5
    <3> QED
      BY <2>11, <3>1, <3>2 DEF OneToken
  <2>13. \A n \in Nodes : n # t => Come(n + 1)' = Come(n + 1)
    <3> SUFFICES ASSUME NEW n \in Nodes, n # t PROVE Come(n + 1)' = Come(n + 1)
      OBVIOUS
    <3>1. ready'[n] = ready[n]
      BY <1>5
    <3>2. CASE n + 1 = t
      <4>1. Come(t)' = Done(t)' + One(HasToken(t)') + One(ready'[n])
        BY <3>2, ComeNext
      <4>2. Come(t) = Done(t) + One(HasToken(t)) + One(ready[n])
        BY <3>2, ComeNext
      <4> QED
        BY <1>1, <2>4, <2>5, <2>8, <2>11, <3>1, <3>2, <4>1, <4>2 DEF One
    <3>3. CASE n + 1 # t
      <4>1. ASSUME n + 1 \in Nodes
            PROVE  Done(n + 1)' = Done(n + 1) /\ ~HasToken(n + 1)' /\ ~HasToken(n + 1)
        BY <1>1, <1>7, <2>4, <2>11, <3>3, <4>1, OtherCounts, Constants
      <4> QED
        BY <3>1, <4>1, ComeNext DEF One
    <3> QED
      BY <3>2, <3>3
  <2>14. Done(t)' = 2 * Come(t + 1)' + One(Odd(t)')
    <3>1. ASSUME t + 1 \in Nodes
          PROVE  /\ Done(t + 1)' = Done(t + 1) /\ ~HasToken(t + 1)' /\ ~HasToken(t + 1)
                 /\ Done(t + 1) \in Nat
      <4>1. t + 1 # t
        BY Constants
      <4> QED
        BY <1>1, <1>7, <2>4, <2>11, <3>1, <4>1, OtherCounts, Counts, Constants
    <3>2. Come(t + 1)' = Come(t + 1) + 1 /\ Come(t + 1) \in Nat
      BY <1>5, <2>5, <3>1, ComeNext DEF One
    <3>3. Done(t) = 2 * Come(t + 1) + 1
      BY <2>1, <2>9 DEF CounterOK, One
    <3>4. Done(t)' = 2 * Come(t + 1)' + 0
      BY <2>8, <3>2, <3>3
    <3> QED
      BY <2>9, <3>4 DEF One
  <2>15. \A n \in Nodes : Done(n)' = 2 * Come(n + 1)' + One(Odd(n)')
    BY <1>1, <1>7, <2>1, <2>13, <2>14, CounterMoves
  <2> QED
    BY <1>2, <2>1, <2>10, <2>12, <2>15 DEF CounterOK, LastTick, One
<1> QED
  BY <1>6, <1>8, <1>11, <1>12 DEF GraphInv
-----------------------------------------------------------------------------
(* The clock ticks at most 2^N_NODES times *)

\* A set of numbers has a least one.
LEMMA LeastNumber ==
    ASSUME NEW S, S \subseteq Nat, S # {}
    PROVE  \E x \in S : \A y \in S : x <= y
<1> DEFINE R == OpToRel(<, Nat)
<1>1. IsWellFoundedOn(R, Nat)
  BY NatLessThanWellFounded
<1> HIDE DEF R
<1>2. PICK x \in S : \A y \in S : ~ (<<y, x>> \in R)
  BY <1>1, WFMin
<1>3. \A y \in S : y < x => <<y, x>> \in R
  BY DEF R, OpToRel
<1>4. \A y \in S : ~(y < x)
  BY <1>2, <1>3
<1> QED
  BY <1>4

\* When the thread with the token is going to tick, the threads show a number
\* whose digits are not all one, so that the clock has not come to the end: from
\* the last thread to the first, the token has come to each too few times.
LEMMA RoomToTick ==
    ASSUME GraphInv, ~Stopped, NEW t \in Threads, pc[t] = "tick_add"
    PROVE  ticks < LastTick
<1>1. GraphTypeOK /\ CounterOK /\ ticks \in Int
  BY DEF GraphInv, GraphTypeOK
<1>2. pc[t] \in TokenLabels
  BY DEF TokenLabels
<1>3. (\A u \in Threads : u # t => ~HasToken(u)) /\ \A n \in Nodes : ready[n] = FALSE
  BY <1>2, TokenIsAlone
<1>4. \A n \in Nodes : One(HasToken(n)) + One(Odd(n)) <= 1
  <2> SUFFICES ASSUME NEW n \in Nodes PROVE One(HasToken(n)) + One(Odd(n)) <= 1
    OBVIOUS
  <2>1. CASE n = t
    <3>1. NodeOK(t)
      BY <2>1 DEF GraphInv
    <3>2. ~Odd(n)
      BY <2>1, <3>1 DEF NodeOK, Odd, Ending
    <3> QED
      BY <3>2 DEF One
  <2>2. CASE n # t
    BY <1>3, <2>2, Constants DEF One
  <2> QED
    BY <2>1, <2>2
<1>5. \A n \in Nodes : Come(n) = Done(n) + One(HasToken(n))
  <2> SUFFICES ASSUME NEW n \in Nodes PROVE Come(n) = Done(n) + One(HasToken(n))
    OBVIOUS
  <2>1. CASE n = 0
    <3>1. Come(0) = Done(0) + One(HasToken(0))
      BY <1>1, ComeFirst DEF CounterOK
    <3> QED
      BY <2>1, <3>1
  <2>2. CASE n # 0
    <3>1. n - 1 \in Nodes /\ (n - 1) + 1 = n
      BY <2>2, Constants
    <3>2. Come(n) = Done(n) + One(HasToken(n)) + One(ready[n - 1])
      BY <3>1, ComeNext
    <3>3. Done(n) + One(HasToken(n)) \in Nat
      BY <1>1, Counts
    <3> QED
      BY <1>3, <3>1, <3>2, <3>3 DEF One
  <2> QED
    BY <2>1, <2>2
<1>6. \A n \in Nodes : Come(n) <= 2 * Come(n + 1) + 1 /\ Come(n) \in Nat
  <2> SUFFICES ASSUME NEW n \in Nodes PROVE Come(n) <= 2 * Come(n + 1) + 1 /\ Come(n) \in Nat
    OBVIOUS
  <2>1. Done(n) \in Nat /\ One(Odd(n)) \in {0, 1} /\ One(HasToken(n)) \in {0, 1}
    BY <1>1, Counts
  <2>2. Come(n + 1) \in Nat
    BY <1>1, <1>3, ComeNext, Counts DEF One
  <2>3. Done(n) = 2 * Come(n + 1) + One(Odd(n)) /\ Come(n) = Done(n) + One(HasToken(n))
    BY <1>1, <1>5 DEF CounterOK
  <2> QED
    BY <1>4, <2>1, <2>2, <2>3
<1>7. Come(N_NODES) = 0
  <2>1. N_NODES - 1 \in Nodes /\ (N_NODES - 1) + 1 = N_NODES /\ N_NODES \notin Nodes
    BY Constants DEF Nodes
  <2> QED
    BY <1>3, <2>1, ComeNext DEF One
<1> DEFINE S == {k \in 0 .. N_NODES : ~(Come(N_NODES - k) < 2 ^ k)}
<1>8. S = {}
  <2> SUFFICES ASSUME S # {} PROVE FALSE
    OBVIOUS
  <2>10. S \subseteq Nat
    BY Constants
  <2>1. PICK k \in S : \A l \in S : k <= l
    <3> HIDE DEF S
    <3> QED
      BY <2>10, LeastNumber
  <2>2. k \in 0 .. N_NODES /\ ~(Come(N_NODES - k) < 2 ^ k)
    OBVIOUS
  <2>3. k # 0
    <3>1. N_NODES - 0 = N_NODES
      BY Constants
    <3>2. Come(N_NODES - 0) < 2 ^ 0
      BY <1>7, <3>1, PowersOfTwo
    <3> QED
      BY <2>2, <3>2
  <2>4. /\ k - 1 \in 0 .. N_NODES /\ k - 1 \in Nodes /\ (k - 1) + 1 = k /\ ~(k <= k - 1)
        /\ N_NODES - k \in Nodes /\ (N_NODES - k) + 1 = N_NODES - (k - 1)
    BY <2>2, <2>3, Constants DEF Nodes
  <2>5. Come(N_NODES - (k - 1)) < 2 ^ (k - 1)
    BY <2>1, <2>4
  <2>6. 2 ^ k = 2 * 2 ^ (k - 1) /\ 2 ^ (k - 1) \in Nat
    BY <2>4, PowersOfTwo
  <2> DEFINE a == Come(N_NODES - k)
             b == Come(N_NODES - (k - 1))
             c == 2 ^ k
             d == 2 ^ (k - 1)
  <2>7. a \in Nat /\ a <= 2 * b + 1
    BY <1>6, <2>4
  <2>8. b \in Nat
    <3>1. CASE N_NODES - (k - 1) \in Nodes
      BY <1>6, <3>1
    <3>2. CASE N_NODES - (k - 1) \notin Nodes
      <4>1. N_NODES - (k - 1) = N_NODES
        BY <2>4, <3>2, Constants DEF Nodes
      <4> QED
        BY <1>7, <4>1
    <3> QED
      BY <3>1, <3>2
  <2>9. c = 2 * d /\ d \in Nat /\ b < d /\ ~(a < c)
    BY <2>2, <2>5, <2>6
  <2> HIDE DEF a, b, c, d
  <2> QED
    BY ONLY <2>7, <2>8, <2>9
<1>9. Come(0) < 2 ^ N_NODES
  <2>1. N_NODES \in 0 .. N_NODES /\ N_NODES - N_NODES = 0
    BY Constants
  <2> QED
    BY <1>8, <2>1
<1> QED
  BY <1>9, ComeFirst DEF LastTick

\* Thread t, which has the token, or main, which begins, ticks the clock, and
\* thread 0 has the token; once the clock has been stopped it does not change.
LEMMA TickStep ==
    ASSUME GraphInv, NEW t \in Threads, ClockTickAdd(t)
    PROVE  GraphInv'
<1>1. GraphTypeOK /\ ticks \in Int /\ (t # Main => t \in Nodes) /\ Main \notin Nodes
  BY Constants DEF GraphInv, GraphTypeOK
<1>2. /\ Go(t, "tick_add", "tick_broadcast") /\ ticks' = Tick(ticks)
      /\ UNCHANGED <<ready, i, bit, running>>
  BY DEF ClockTickAdd
<1>3. NodeLine(t, "tick_broadcast")
  BY DEF NodeLine, NodeLabels, MainLabels, ClockLabels, ParentLabels
<1>4. /\ pc' \in [Threads -> MainLabels \cup NodeLabels]
      /\ pc'[Main] \in MainLabels
      /\ \A n \in Nodes : pc'[n] \in NodeLabels
      /\ pc'[0] \notin ParentLabels
      /\ pc[t] = "tick_add" /\ pc'[t] = "tick_broadcast"
      /\ \A u \in Threads : u # t => pc'[u] = pc[u]
  BY <1>1, <1>2, <1>3, GoTypes
<1>5. /\ ticks' \in Int /\ (Stopped' <=> Stopped) /\ ticks' >= ticks
      /\ (~Stopped => ticks' = ticks + 1)
  BY <1>1, <1>2 DEF Tick, Stopped
<1>6. GraphTypeOK'
  BY <1>1, <1>2, <1>4, <1>5 DEF GraphTypeOK
<1>7. Alone(t)
  BY <1>2, <1>4 DEF Alone
<1>8. StopOK'
  <2>1. StopOK /\ LastTick \in Nat /\ LastTick' = LastTick
    BY Constants, PowersOfTwo DEF GraphInv, LastTick
  <2>2. CASE t = Main
    BY <1>4, <1>5, <2>1, <2>2 DEF StopOK
  <2>3. CASE t # Main
    <3>1. pc'[Main] = pc[Main]
      BY <1>4, <2>3, Constants
    <3>2. ticks >= LastTick => ticks' >= LastTick
      BY <1>1, <1>5, <2>1
    <3> QED
      BY <1>5, <2>1, <3>1, <3>2 DEF StopOK
  <2> QED
    BY <2>2, <2>3
<1>9. pc[t] \in TokenLabels /\ pc'[t] \notin TokenLabels
  BY <1>4 DEF TokenLabels
<1>10. ASSUME t \in Nodes PROVE NodeOK(t)' /\ bit[t] = FALSE
  <2>1. NodeOK(t)
    BY <1>10 DEF GraphInv
  <2>2. bit[t] = FALSE
    BY <1>1, <1>4, <1>10, <2>1 DEF NodeOK, GraphTypeOK
  <2>3. ready[t] => Stopped
    BY <1>9, <1>10, TokenIsAlone
  <2> QED
    BY <1>2, <1>4, <1>5, <2>1, <2>2, <2>3 DEF NodeOK, SignalLabels
<1>11. \A n \in Nodes : NodeOK(n)'
  BY <1>1, <1>2, <1>5, <1>7, <1>10, OtherNodes DEF GraphInv
<1>12. ASSUME ~Stopped' PROVE OneToken' /\ CounterOK'
  <2>1. OneToken /\ CounterOK /\ ~Stopped /\ ticks' = ticks + 1
    BY <1>5, <1>12 DEF GraphInv
  <2>2. HasToken(t) /\ \A u \in Threads : u # t => ~HasToken(u)
    BY <1>9, <2>1, TokenIsAlone
  <2>3. \A n \in Nodes : ready[n] = FALSE /\ ready'[n] = FALSE
    BY <1>2, <1>9, <2>1, TokenIsAlone
  <2>4. ASSUME t \in Nodes
        PROVE  Done(t)' = Done(t) + 1 /\ ~Odd(t) /\ Odd(t)' /\ Done(t) \in Nat
    <3>1. ~Ending(t) /\ Ending(t)'
      BY <1>4 DEF Ending
    <3>2. i[t] \in Nat /\ i'[t] = i[t] /\ bit'[t] = FALSE /\ bit[t] = FALSE
      BY <1>1, <1>2, <1>10, <2>4 DEF GraphTypeOK
    <3>3. Done(t)' = Done(t) + 1
      BY <3>1, <3>2 DEF Done
    <3> QED
      BY <1>1, <2>4, <3>1, <3>2, <3>3, Counts DEF Odd
  <2>5. HasToken(0)' /\ ticks' = Done(0)' + 1
    <3>1. Done(0) \in Nat
      BY <1>1, Counts, Constants
    <3>2. CASE t = 0
      <4>1. ticks = Done(0) + 1 /\ Done(0)' = Done(0) + 1
        BY <2>1, <2>2, <2>4, <3>2, Constants DEF CounterOK, One
      <4> QED
        BY <2>1, <3>1, <4>1 DEF HasToken
    <3>3. CASE t # 0
      <4>1. ticks = Done(0) /\ Done(0)' = Done(0)
        BY <1>7, <2>1, <2>2, <3>1, <3>3, OtherCounts, Constants DEF CounterOK, One
      <4> QED
        BY <2>1, <3>1, <4>1 DEF HasToken
    <3> QED
      BY <3>2, <3>3
  <2>6. \A u \in Threads : u # 0 => ~HasToken(u)'
    <3>1. ASSUME NEW u \in Threads, u # 0, u # t PROVE ~HasToken(u)'
      BY <1>4, <2>2, <3>1 DEF HasToken
    <3>2. t # 0 => ~HasToken(t)'
      BY <1>9 DEF HasToken
    <3> QED
      BY <3>1, <3>2
  <2>7. OneToken'
    BY <2>3, <2>5, <2>6 DEF OneToken
  <2>8. \A n \in Nodes : n # t => Come(n + 1)' = Come(n + 1)
    <3> SUFFICES ASSUME NEW n \in Nodes, n # t PROVE Come(n + 1)' = Come(n + 1)
      OBVIOUS
    <3>5. n + 1 # 0
      BY Constants
    <3>1. ready'[n] = ready[n] /\ n + 1 # 0
      BY <2>3, <3>5
    <3>2. CASE n + 1 = t /\ t \in Nodes
      <4>1. Come(t)' = Done(t)' + One(HasToken(t)') + One(ready'[n])
        BY <3>2, ComeNext
      <4>2. Come(t) = Done(t) + One(HasToken(t)) + One(ready[n])
        BY <3>2, ComeNext
      <4>3. ~HasToken(t)'
        BY <2>6, <3>1, <3>2
      <4> QED
        BY <2>2, <2>3, <2>4, <3>1, <3>2, <4>1, <4>2, <4>3 DEF One
    <3>3. CASE n + 1 # t
      <4>1. ASSUME n + 1 \in Nodes
            PROVE  Done(n + 1)' = Done(n + 1) /\ ~HasToken(n + 1)' /\ ~HasToken(n + 1)
        BY <1>7, <2>2, <2>6, <3>1, <3>3, <4>1, OtherCounts, Constants
      <4> QED
        BY <3>1, <4>1, ComeNext DEF One
    <3>4. CASE n + 1 = t /\ t \notin Nodes
      BY <3>1, <3>4, ComeNext DEF One
    <3> QED
      BY <3>2, <3>3, <3>4
  <2>9. ASSUME t \in Nodes PROVE Done(t)' = 2 * Come(t + 1)' + One(Odd(t)')
    <3>1. ASSUME t + 1 \in Nodes
          PROVE  /\ Done(t + 1)' = Done(t + 1) /\ ~HasToken(t + 1)' /\ ~HasToken(t + 1)
                 /\ Done(t + 1) \in Nat
      <4>1. t + 1 # t /\ t + 1 # 0
        BY <2>9, Constants
      <4> QED
        BY <1>1, <1>7, <2>2, <2>6, <3>1, <4>1, OtherCounts, Counts, Constants
    <3>2. Come(t + 1)' = Come(t + 1) /\ Come(t + 1) \in Nat
      BY <2>3, <2>9, <3>1, ComeNext DEF One
    <3>3. Done(t) = 2 * Come(t + 1) + 0
      BY <2>1, <2>4, <2>9 DEF CounterOK, One
    <3>4. Done(t)' = 2 * Come(t + 1)' + 1
      BY <2>4, <2>9, <3>2, <3>3
    <3> QED
      BY <2>4, <2>9, <3>4 DEF One
  <2>10. \A n \in Nodes : Done(n)' = 2 * Come(n + 1)' + One(Odd(n)')
    BY <1>7, <2>1, <2>8, <2>9, CounterMoves
  <2>11. ticks' <= LastTick
    <3>1. ticks < LastTick /\ LastTick \in Nat
      BY <1>4, <2>1, RoomToTick, Constants, PowersOfTwo DEF LastTick
    <3> QED
      BY <1>1, <2>1, <3>1
  <2> QED
    BY <2>5, <2>7, <2>10, <2>11 DEF CounterOK, LastTick, One
<1> QED
  BY <1>6, <1>8, <1>11, <1>12 DEF GraphInv
-----------------------------------------------------------------------------
(* The theorems *)

\* Every step keeps the invariant.
LEMMA GraphNext ==
    ASSUME GraphInv, [Next]_vars
    PROVE  GraphInv'
<1>1. ASSUME UNCHANGED graphVars PROVE GraphInv'
  <2>1. pc' = pc /\ ticks' = ticks /\ ready' = ready /\ i' = i /\ bit' = bit /\ running' = running
    BY <1>1 DEF graphVars
  <2>2. GraphTypeOK' /\ StopOK' /\ \A n \in Nodes : NodeOK(n)'
    BY <2>1 DEF GraphInv, GraphTypeOK, StopOK, Stopped, LastTick, NodeOK
  <2>3. Alone(Main)
    BY <2>1 DEF Alone
  <2>4. ~Stopped' => OneToken' /\ CounterOK'
    <3>1. HasToken(Main)' <=> HasToken(Main)
      BY <2>1, Constants DEF HasToken
    <3> QED
      BY <2>1, <2>3, <3>1, CounterFrame, Constants DEF Stopped
  <2> QED
    BY <2>2, <2>4 DEF GraphInv
<1>2. ASSUME NEW t \in Threads, ClockStep(t) PROVE GraphInv'
  <2>1. CASE ClockWaitLock(t)
    <3>1. Go(t, "wait_lock", "wait_test") /\ UNCHANGED <<ticks, ready, i, bit, running>>
      BY <2>1 DEF ClockWaitLock
    <3> QED
      BY <3>1, NodeLineStep, MainLineStep, Constants DEF NodeLines, MainLines, ParentLabels
  <2>2. CASE ClockWaitAgain(t)
    <3>1. Go(t, "wait_test", "wait_test") /\ UNCHANGED <<ticks, ready, i, bit, running>>
      BY <2>2 DEF ClockWaitAgain
    <3> QED
      BY <3>1, NodeLineStep, MainLineStep, Constants DEF NodeLines, MainLines, ParentLabels
  <2>3. CASE ClockWaitReturn(t)
    BY <2>3, WaitReturns, MainReturns, Constants
  <2>4. CASE ClockTickLock(t)
    <3>1. Go(t, "tick_lock", "tick_add") /\ UNCHANGED <<ticks, ready, i, bit, running>>
      BY <2>4 DEF ClockTickLock
    <3> QED
      BY <3>1, NodeLineStep, MainLineStep, Constants DEF NodeLines, MainLines, ParentLabels
  <2>5. CASE ClockTickAdd(t)
    BY <2>5, TickStep
  <2>6. CASE ClockTickBroadcast(t)
    <3>1. /\ Go(t, "tick_broadcast", "wait_lock") /\ UNCHANGED <<ticks, ready, running>>
          /\ IF t = Main THEN UNCHANGED <<i, bit>> ELSE NextIteration(t)
      BY <2>6 DEF ClockTickBroadcast
    <3>2. CASE t = Main
      BY <3>1, <3>2, MainLineStep DEF MainLines
    <3>3. CASE t # Main
      BY <3>1, <3>3, NextTurn, Constants
    <3> QED
      BY <3>2, <3>3
  <2> QED
    BY <1>2, <2>1, <2>2, <2>3, <2>4, <2>5, <2>6 DEF ClockStep
<1>3. ASSUME NEW t \in Nodes, NodeStep(t) PROVE GraphInv'
  <2>0. GraphTypeOK /\ t \in Threads
    BY Constants DEF GraphInv
  <2>1. CASE NodeWaitLock(t)
    <3>1. Go(t, "parent_lock", "parent_test") /\ UNCHANGED <<ticks, ready, i, bit, running>>
      BY <2>1 DEF NodeWaitLock
    <3>2. t # 0
      BY <2>0, <3>1 DEF Go, GraphTypeOK, ParentLabels
    <3> QED
      BY <3>1, <3>2, NodeLineStep DEF NodeLines
  <2>2. CASE NodeWaitAgain(t)
    <3>1. Go(t, "parent_test", "parent_test") /\ UNCHANGED <<ticks, ready, i, bit, running>>
      BY <2>2 DEF NodeWaitAgain
    <3>2. t # 0
      BY <2>0, <3>1 DEF Go, GraphTypeOK, ParentLabels
    <3> QED
      BY <3>1, <3>2, NodeLineStep DEF NodeLines
  <2>3. CASE NodeWaitReturn(t)
    BY <2>3, TokenTaken
  <2>4. CASE NodeSignalLock(t)
    <3>1. Go(t, "signal_lock", "signal_set") /\ UNCHANGED <<ticks, ready, i, bit, running>>
      BY <2>4 DEF NodeSignalLock
    <3> QED
      BY <3>1, NodeLineStep DEF NodeLines, ParentLabels
  <2>5. CASE NodeSignalSet(t)
    BY <2>5, TokenHandedOn
  <2>6. CASE NodeSignalCond(t)
    <3>1. CASE running[t]
      BY <2>6, <3>1, NextTurn DEF NodeSignalCond
    <3>2. CASE ~running[t]
      BY <2>6, <3>2, LastTurn DEF NodeSignalCond
    <3> QED
      BY <3>1, <3>2
  <2> QED
    BY <1>3, <2>1, <2>2, <2>3, <2>4, <2>5, <2>6 DEF NodeStep
<1>4. ASSUME MainStep PROVE GraphInv'
  <2>1. CASE ClockStopLock
    <3>1. Go(Main, "stop_lock", "stop_set") /\ UNCHANGED <<ticks, ready, i, bit, running>>
      BY <2>1 DEF ClockStopLock
    <3> QED
      BY <3>1, MainLineStep DEF MainLines
  <2>2. CASE ClockStopSet
    BY <2>2, StopStep
  <2>3. CASE ClockStopBroadcast
    <3>1. Go(Main, "stop_broadcast", "join") /\ UNCHANGED <<ticks, ready, i, bit, running>>
      BY <2>3 DEF ClockStopBroadcast
    <3> QED
      BY <3>1, MainLineStep DEF MainLines
  <2>4. CASE Join
    <3>1. Go(Main, "join", "done") /\ UNCHANGED <<ticks, ready, i, bit, running>>
      BY <2>4 DEF Join
    <3> QED
      BY <3>1, MainLineStep DEF MainLines
  <2> QED
    BY <1>4, <2>1, <2>2, <2>3, <2>4 DEF MainStep
<1> QED
  BY <1>1, <1>2, <1>3, <1>4 DEF Next, ThreadStep, Ended, vars

\* The threads are a binary counter, with one token that goes around, in every
\* state before the clock is stopped.
THEOREM GraphInvariant == Spec => []GraphInv
<1>1. Init => GraphInv
  BY GraphInit
<1>2. GraphInv /\ [Next]_vars => GraphInv'
  BY GraphNext
<1> QED
  BY <1>1, <1>2, PTL DEF Spec

\* node_signal never sets a flag that is still set, so that no signal is lost,
\* as long as the signaller has not seen the stop.
THEOREM NoSignalOverwrittenAlways == Spec => []NoSignalOverwritten
<1>1. GraphInv => NoSignalOverwritten
  <2> SUFFICES ASSUME GraphInv, NEW n \in Nodes, pc[n] = "signal_set", running[n], ready[n]
               PROVE  FALSE
    BY DEF NoSignalOverwritten
  <2>1. NodeOK(n)
    BY DEF GraphInv
  <2> QED
    BY <2>1 DEF NodeOK, SignalLabels
<1> QED
  BY <1>1, GraphInvariant, PTL

\* A step changes the clock only by one, up to 2^N_NODES, or stops it there.
LEMMA ClockStepCounts ==
    ASSUME GraphInv, [Next]_vars, ticks' # ticks
    PROVE  \/ ticks' = ticks + 1 /\ ticks >= 0 /\ ticks < LastTick
           \/ ticks' = -1 /\ ticks = LastTick
<1>1. StopOK /\ ticks \in Int /\ LastTick \in Nat
  BY Constants, PowersOfTwo DEF GraphInv, GraphTypeOK, LastTick
<1>2. ASSUME NEW t \in Threads, ClockTickAdd(t)
      PROVE  ticks' = ticks + 1 /\ ticks >= 0 /\ ticks < LastTick
  <2>1. ticks >= 0 /\ ticks' = ticks + 1
    BY <1>1, <1>2 DEF ClockTickAdd, Tick
  <2>2. pc[t] = "tick_add"
    BY <1>2 DEF ClockTickAdd, Go
  <2> QED
    BY <1>1, <2>1, <2>2, RoomToTick DEF Stopped
<1>3. ASSUME ClockStopSet
      PROVE  ticks' = -1 /\ ticks = LastTick
  <2>1. pc[Main] = "stop_set" /\ ticks' = -1
    BY <1>3 DEF ClockStopSet, Go
  <2>2. ~Stopped /\ ticks >= LastTick
    BY <1>1, <2>1 DEF StopOK
  <2>3. ticks <= LastTick
    BY <2>2 DEF GraphInv, CounterOK
  <2> QED
    BY <1>1, <2>1, <2>2, <2>3
<1>4. (\E t \in Threads : ClockTickAdd(t)) \/ ClockStopSet
  <2> USE DEF vars, graphVars
  <2>1. ASSUME NEW t \in Threads, ClockStep(t) PROVE ClockTickAdd(t)
    BY <2>1 DEF ClockStep, ClockWaitLock, ClockWaitAgain, ClockWaitReturn, ClockTickLock,
                ClockTickBroadcast
  <2>2. ASSUME NEW t \in Nodes, NodeStep(t) PROVE FALSE
    BY <2>2 DEF NodeStep, NodeWaitLock, NodeWaitAgain, NodeWaitReturn, NodeSignalLock,
                NodeSignalSet, NodeSignalCond
  <2>3. ASSUME MainStep PROVE ClockStopSet
    BY <2>3 DEF MainStep, ClockStopLock, ClockStopBroadcast, Join
  <2> QED
    BY <2>1, <2>2, <2>3 DEF Next, ThreadStep, Ended
<1> QED
  BY <1>2, <1>3, <1>4

\* The clock counts 0, 1, .. 2^N_NODES by ones and is stopped only then.
THEOREM CountsToTheEnd == Spec => ClockCountsToTheEnd
<1>1. /\ GraphInv
      /\ [Next]_vars
      => [ticks' # ticks =>
             \/ ticks' = ticks + 1 /\ ticks >= 0 /\ ticks < LastTick
             \/ ticks' = -1 /\ ticks = LastTick]_ticks
  BY ClockStepCounts
<1> QED
  BY <1>1, GraphInvariant, PTL DEF Spec, ClockCountsToTheEnd

-----------------------------------------------------------------------------
(* No lost wake-up: the invariant *)

UnlockOps == {"unlock_exchange", "unlock_wake"}

LibraryOps ==
    LockOps \cup UnlockOps
        \cup {"idle", "cond_spin", "cond_asleep", "cond_fetch_or", "signal_wake", "broadcast_requeue"}

\* t is in cond_wait: it has loaded the counter and has not compared it for the
\* last time, or it sleeps.
Loaded(t) == op[t] = "cond_spin" \/ (op[t] \in UnlockOps /\ ret[t] = "cond_spin")
Waiting(t) == Loaded(t) \/ op[t] = "cond_asleep"

\* Where the threads inside the library go on, and which waits and notifications
\* the lines of main.c ask for.
Placed(t) ==
    /\ op[t] \in LockOps => ret[t] \in {"idle", "cond_fetch_or"}
    /\ op[t] \in UnlockOps => ret[t] \in {"idle", "cond_spin"}
    /\ Waiting(t) =>
          \/ pc[t] = "wait_test" /\ arg[t] = Clock
          \/ t \in Nodes \ {0} /\ pc[t] = "parent_test" /\ arg[t] = t - 1
    /\ op[t] = "signal_wake" => arg[t] \in Nodes

LibraryOK ==
    /\ queue \in [Words -> SUBSET Threads]
    /\ seq \in [Mutexes -> Nat]
    /\ seen \in [Threads -> Nat]
    /\ op \in [Threads -> LibraryOps]
    /\ ret \in [Threads -> {"idle", "cond_spin", "cond_fetch_or"}]
    /\ arg \in [Threads -> Mutexes]
    /\ \A t \in Threads : Placed(t)
    /\ \A m \in Mutexes : \A t \in queue[SeqWord(m)] : op[t] = "cond_asleep" /\ arg[t] = m

\* Who may still broadcast: before the stop, who has ticked; after it, also who
\* has been told to tick and does not know of the stop.
Late == {"parent_lock", "parent_test", "tick_lock", "tick_add", "tick_broadcast",
         "stop_broadcast"}
Broadcasters == {t \in Threads : pc[t] \in IF Stopped THEN Late ELSE {"tick_broadcast"}}

\* No counter comes around.
BroadcastsOK ==
    seq[Clock] + Cardinality(Broadcasters) <=
        IF Stopped THEN LastTick + N_NODES + 1 ELSE ticks

SignalsOK(n) ==
    /\ pc[n] \in Late => running[n]
    /\ running[n] /\ pc[n] \notin {"wait_lock", "wait_test"} => i[n] <= LastTick
    /\ i[n] <= LastTick + 1
    /\ seq[n] <= IF pc[n] = "done" THEN i[n] ELSE i[n] - 1

\* What the thread waits for has not happened.
Waits(t) == IF arg[t] = Clock THEN MustWait(t) ELSE ~ready[arg[t]]

\* u has changed the data that goes with m and is going to notify, or does.
Announces(u, m) ==
    \/ m = Clock /\ pc[u] \in {"tick_broadcast", "stop_broadcast"}
    \/ m = u /\ m \in Nodes /\ pc[u] = "signal_cond"
Sends(u, m) == op[u] \in {"signal_wake", "broadcast_requeue"} /\ arg[u] = m

\* A waiter that does not sleep yet will see the counter move; one that sleeps
\* will be woken.
WakeOK ==
    /\ \A t \in Threads : Loaded(t) =>
          /\ seen[t] <= seq[arg[t]]
          /\ \/ Waits(t)
             \/ seen[t] < seq[arg[t]]
             \/ \E u \in Threads : Announces(u, arg[t])
    /\ \A m \in Mutexes : \A t \in queue[SeqWord(m)] :
          Waits(t) \/ \E u \in Threads : Announces(u, m) \/ Sends(u, m)

WakeInv ==
    /\ GraphInv
    /\ LibraryOK
    /\ BroadcastsOK
    /\ \A n \in Nodes : SignalsOK(n)
    /\ WakeOK

-----------------------------------------------------------------------------
(* What a step of one thread does to the waits of the others *)

LEMMA CounterGrows ==
    ASSUME NEW k \in Nat, k <= LastTick + N_NODES
    PROVE  NextSeq(k) = k + 1
<1>1. SeqValues \in Nat /\ LastTick \in Nat /\ N_NODES \in Nat
  BY CondAssumption, Constants, PowersOfTwo DEF LastTick
<1>2. SeqValues > LastTick + N_NODES + 1
  BY CounterAssumption DEF LastTick
<1>3. k + 1 \in 0 .. SeqValues - 1
  BY <1>1, <1>2
<1> QED
  BY <1>1, <1>3 DEF NextSeq

\* The locals of the other threads stay.
Apart(t) ==
    \A u \in Threads : u # t =>
        /\ op'[u] = op[u] /\ arg'[u] = arg[u] /\ ret'[u] = ret[u] /\ seen'[u] = seen[u]
        /\ pc'[u] = pc[u] /\ (u \in Nodes => i'[u] = i[u])

\* Thread t changes what others wait for only if it announces it, stops
\* announcing it by moving the counter, and stops sending when nobody sleeps.
Moves(t) ==
    /\ Apart(t)
    /\ \A m \in Mutexes :
          /\ seq'[m] = seq[m] \/ seq'[m] = seq[m] + 1
          /\ Announces(t, m) => Announces(t, m)' \/ (seq'[m] = seq[m] + 1 /\ Sends(t, m)')
          /\ Sends(t, m) => Sends(t, m)' \/ queue'[SeqWord(m)] = {}
          /\ queue'[SeqWord(m)] \subseteq queue[SeqWord(m)] \cup {t}
    /\ ticks' # ticks => Announces(t, Clock)'
    /\ \A n \in Nodes : ready'[n] /\ ~ready[n] => Announces(t, n)'

LibraryTypes ==
    /\ queue \in [Words -> SUBSET Threads]
    /\ seq \in [Mutexes -> Nat]
    /\ seen \in [Threads -> Nat]
    /\ op \in [Threads -> LibraryOps]
    /\ ret \in [Threads -> {"idle", "cond_spin", "cond_fetch_or"}]
    /\ arg \in [Threads -> Mutexes]

\* What a waiter can rely on.
LoadedOK(t) ==
    Loaded(t) =>
        /\ seen[t] <= seq[arg[t]]
        /\ \/ Waits(t)
           \/ seen[t] < seq[arg[t]]
           \/ \E u \in Threads : Announces(u, arg[t])

AsleepOK(t) ==
    \A m \in Mutexes : t \in queue[SeqWord(m)] =>
        /\ op[t] = "cond_asleep" /\ arg[t] = m
        /\ Waits(t) \/ \E u \in Threads : Announces(u, m) \/ Sends(u, m)

LEMMA WakeParts ==
    LibraryOK /\ WakeOK <=>
        /\ LibraryTypes
        /\ \A t \in Threads : Placed(t) /\ LoadedOK(t) /\ AsleepOK(t)
<1>1. ASSUME LibraryTypes
      PROVE  \A m \in Mutexes : SeqWord(m) \in Words /\ queue[SeqWord(m)] \subseteq Threads
  BY <1>1 DEF LibraryTypes, Words, SeqWord
<1>2. ASSUME LibraryOK, WakeOK
      PROVE  LibraryTypes /\ \A t \in Threads : Placed(t) /\ LoadedOK(t) /\ AsleepOK(t)
  <2>1. LibraryTypes /\ \A t \in Threads : Placed(t)
    BY <1>2 DEF LibraryOK, LibraryTypes
  <2>2. \A t \in Threads : LoadedOK(t)
    BY <1>2 DEF WakeOK, LoadedOK
  <2>3. \A t \in Threads : AsleepOK(t)
    BY <1>2 DEF WakeOK, LibraryOK, AsleepOK
  <2> QED
    BY <2>1, <2>2, <2>3
<1>3. ASSUME LibraryTypes, \A t \in Threads : Placed(t) /\ LoadedOK(t) /\ AsleepOK(t)
      PROVE  LibraryOK /\ WakeOK
  <2>1. \A m \in Mutexes : \A t \in queue[SeqWord(m)] :
            /\ op[t] = "cond_asleep" /\ arg[t] = m
            /\ Waits(t) \/ \E u \in Threads : Announces(u, m) \/ Sends(u, m)
    BY <1>1, <1>3 DEF AsleepOK
  <2>2. LibraryOK
    BY <1>3, <2>1 DEF LibraryOK, LibraryTypes
  <2>3. WakeOK
    BY <1>3, <2>1 DEF WakeOK, LoadedOK
  <2> QED
    BY <2>2, <2>3
<1> QED
  BY <1>2, <1>3

LEMMA WakePartsNext ==
    (LibraryOK /\ WakeOK
        <=> LibraryTypes /\ \A t \in Threads : Placed(t) /\ LoadedOK(t) /\ AsleepOK(t))'
  BY WakeParts, PTL

\* What another thread waits for.
LEMMA WaitsAnnounced ==
    ASSUME GraphTypeOK, LibraryTypes, NEW t \in Threads, Moves(t), NEW u \in Threads, u # t,
           NEW m \in Mutexes, arg[u] = m, Waits(u)
    PROVE  Waits(u)' \/ Announces(t, m)'
<1>1. arg'[u] = m /\ (u \in Nodes => i'[u] = i[u])
  BY DEF Moves, Apart
<1>2. CASE m = Clock
  <2>1. Target(u)' = Target(u)
    BY <1>1, Constants DEF Target, LastTick
  <2>2. CASE ticks' = ticks
    <3>1. MustWait(u)' <=> MustWait(u)
      BY <2>1, <2>2 DEF MustWait
    <3> QED
      BY <1>1, <1>2, <3>1 DEF Waits
  <2>3. CASE ticks' # ticks
    BY <1>2, <2>3 DEF Moves
  <2> QED
    BY <2>2, <2>3
<1>3. CASE m # Clock
  <2>1. m \in Nodes
    BY <1>3, GraphAssumption
  <2>2. ~ready[m]
    BY <1>3 DEF Waits
  <2>3. ready'[m] => Announces(t, m)'
    BY <2>1, <2>2 DEF Moves
  <2>4. ~ready'[m] => Waits(u)'
    BY <1>1, <1>3 DEF Waits, Clock
  <2> QED
    BY <2>3, <2>4
<1> QED
  BY <1>2, <1>3

\* The others are woken as before.
LEMMA OthersKept ==
    ASSUME GraphTypeOK, LibraryTypes, NEW t \in Threads, Moves(t), NEW u \in Threads, u # t,
           Placed(u), LoadedOK(u), AsleepOK(u)
    PROVE  Placed(u)' /\ LoadedOK(u)' /\ AsleepOK(u)'
<1>1. /\ op'[u] = op[u] /\ arg'[u] = arg[u] /\ ret'[u] = ret[u] /\ seen'[u] = seen[u]
      /\ pc'[u] = pc[u]
  BY DEF Moves, Apart
<1>2. Loaded(u)' <=> Loaded(u)
  BY <1>1 DEF Loaded
<1>3. Waiting(u)' <=> Waiting(u)
  BY <1>1, <1>2 DEF Waiting
<1>4. Placed(u)'
  BY <1>1, <1>3 DEF Placed
<1>5. \A v \in Threads, m \in Mutexes : v # t =>
          (Announces(v, m)' <=> Announces(v, m)) /\ (Sends(v, m)' <=> Sends(v, m))
  BY DEF Moves, Apart, Announces, Sends
<1>6. LoadedOK(u)'
  <2>1. PICK m \in Mutexes : arg[u] = m
    BY DEF LibraryTypes
  <2> SUFFICES ASSUME Loaded(u)
               PROVE  /\ seen'[u] <= seq'[m]
                      /\ \/ Waits(u)'
                         \/ seen'[u] < seq'[m]
                         \/ \E v \in Threads : Announces(v, m)'
    BY <1>1, <1>2, <2>1 DEF LoadedOK
  <2>2. seen'[u] = seen[u] /\ seen[u] \in Nat /\ seq[m] \in Nat /\ seen[u] <= seq[m]
    BY <1>1, <2>1 DEF LibraryTypes, LoadedOK
  <2>3. seq'[m] = seq[m] \/ seq'[m] = seq[m] + 1
    BY DEF Moves
  <2>4. CASE Waits(u)
    BY <2>1, <2>2, <2>3, <2>4, WaitsAnnounced
  <2>5. CASE seen[u] < seq[m]
    BY <2>2, <2>3, <2>5
  <2>6. ASSUME NEW v \in Threads, Announces(v, m)
        PROVE  Announces(v, m)' \/ seq'[m] = seq[m] + 1
    BY <1>5, <2>6 DEF Moves
  <2>7. CASE \E v \in Threads : Announces(v, m)
    BY <2>2, <2>3, <2>6, <2>7
  <2> QED
    BY <2>1, <2>4, <2>5, <2>7 DEF LoadedOK
<1>7. AsleepOK(u)'
  <2> SUFFICES ASSUME NEW m \in Mutexes, u \in queue'[SeqWord(m)]
               PROVE  /\ op'[u] = "cond_asleep" /\ arg'[u] = m
                      /\ Waits(u)' \/ \E v \in Threads : Announces(v, m)' \/ Sends(v, m)'
    BY DEF AsleepOK
  <2>1. u \in queue[SeqWord(m)]
    BY DEF Moves
  <2>2. op[u] = "cond_asleep" /\ arg[u] = m
    BY <2>1 DEF AsleepOK
  <2>3. CASE Waits(u)
    BY <1>1, <2>2, <2>3, WaitsAnnounced DEF Waiting
  <2>4. ASSUME NEW v \in Threads, Announces(v, m) \/ Sends(v, m)
        PROVE  Announces(v, m)' \/ Sends(v, m)'
    BY <1>5, <2>4 DEF Moves
  <2> QED
    BY <1>1, <2>1, <2>2, <2>3, <2>4 DEF AsleepOK
<1> QED
  BY <1>4, <1>6, <1>7

\* So that only the thread itself is to be looked at.
LEMMA WakeKept ==
    ASSUME GraphTypeOK, LibraryOK, WakeOK, NEW t \in Threads, Moves(t), LibraryTypes',
           Placed(t)', LoadedOK(t)', AsleepOK(t)'
    PROVE  LibraryOK' /\ WakeOK'
<1>1. LibraryTypes /\ \A u \in Threads : Placed(u) /\ LoadedOK(u) /\ AsleepOK(u)
  BY WakeParts
<1>2. \A u \in Threads : Placed(u)' /\ LoadedOK(u)' /\ AsleepOK(u)'
  BY <1>1, OthersKept
<1> QED
  BY <1>2, WakePartsNext

-----------------------------------------------------------------------------
(* Steps inside the library *)

\* A thread with nothing to say to the others: it neither announces nor sends.
LEMMA QuietMoves ==
    ASSUME NEW t \in Threads, Apart(t), seq' = seq, ticks' = ticks, ready' = ready,
           pc' = pc, ~ \E m \in Mutexes : Sends(t, m),
           \A m \in Mutexes : queue'[SeqWord(m)] \subseteq queue[SeqWord(m)] \cup {t}
    PROVE  Moves(t)
<1>1. \A m \in Mutexes : Announces(t, m)' <=> Announces(t, m)
  BY DEF Announces
<1> QED
  BY <1>1 DEF Moves

\* The words of a mutex and of a condition variable are different words.
LEMMA TwoWords ==
    ASSUME NEW m \in Mutexes, NEW k \in Mutexes
    PROVE  /\ SeqWord(m) \in Words /\ StateWord(m) \in Words /\ SeqWord(m) # StateWord(k)
           /\ m # k => SeqWord(m) # SeqWord(k)
  BY DEF Words, SeqWord, StateWord

\* A step of mutex.h goes on inside the same function, or returns.
LEMMA MutexMoves ==
    ASSUME LibraryTypes, NEW t \in Threads, MutexStep(t)
    PROVE  /\ op' = [op EXCEPT ![t] = op'[t]] /\ arg' = arg /\ ret' = ret
           /\ queue' \in [Words -> SUBSET Threads]
           /\ \A m \in Mutexes : queue'[SeqWord(m)] = queue[SeqWord(m)]
           /\ \/ op[t] \in LockOps /\ op'[t] \in LockOps \cup {ret[t]}
              \/ op[t] \in UnlockOps /\ op'[t] \in UnlockOps \cup {ret[t]}
<1>1. /\ arg[t] \in Mutexes /\ queue \in [Words -> SUBSET Threads]
      /\ op \in [Threads -> LibraryOps]
  BY DEF LibraryTypes
<1>2. \A m \in Mutexes : SeqWord(m) \in Words /\ StateWord(m) \in Words
  BY TwoWords
<1>3. \A m, k \in Mutexes : SeqWord(m) # StateWord(k)
  BY TwoWords
<1> USE DEF LockOps, UnlockOps
<1>4. CASE TrylockLoad(t)
  <2>1. \/ op' = [op EXCEPT ![t] = "trylock_load"]
        \/ op' = [op EXCEPT ![t] = "exchange"]
        \/ op' = [op EXCEPT ![t] = "trylock_fetch_or"]
    BY <1>4 DEF TrylockLoad, TrylockFailed
  <2> QED
    BY <1>1, <1>4, <2>1 DEF TrylockLoad
<1>5. CASE TrylockFetchOr(t)
  <2>1. \/ op' = [op EXCEPT ![t] = "trylock_load"]
        \/ op' = [op EXCEPT ![t] = "exchange"]
        \/ op' = [op EXCEPT ![t] = ret[t]]
    BY <1>5 DEF TrylockFetchOr, TrylockFailed, Acquired
  <2> QED
    BY <1>1, <1>5, <2>1 DEF TrylockFetchOr
<1>6. CASE LockExchange(t)
  <2>1. op' = [op EXCEPT ![t] = "futex_wait"] \/ op' = [op EXCEPT ![t] = ret[t]]
    BY <1>6 DEF LockExchange, Acquired
  <2> QED
    BY <1>1, <1>6, <2>1 DEF LockExchange
<1>7. CASE LockFutexWait(t)
  <2>1. op' = [op EXCEPT ![t] = "asleep"] \/ op' = [op EXCEPT ![t] = "exchange"]
    BY <1>7 DEF LockFutexWait
  <2>2. \/ queue' = queue
        \/ queue' = [queue EXCEPT ![StateWord(arg[t])] = queue[StateWord(arg[t])] \cup {t}]
    BY <1>7 DEF LockFutexWait, FutexWait
  <2>3. /\ queue' \in [Words -> SUBSET Threads]
        /\ \A m \in Mutexes : queue'[SeqWord(m)] = queue[SeqWord(m)]
    BY <1>1, <1>2, <1>3, <2>2
  <2> QED
    BY <1>1, <1>7, <2>1, <2>3 DEF LockFutexWait
<1>8. CASE LockFutexReturn(t)
  BY <1>1, <1>8 DEF LockFutexReturn
<1>9. CASE UnlockExchange(t)
  <2>1. op' = [op EXCEPT ![t] = "unlock_wake"] \/ op' = [op EXCEPT ![t] = ret[t]]
    BY <1>9 DEF UnlockExchange
  <2> QED
    BY <1>1, <1>9, <2>1 DEF UnlockExchange
<1>10. CASE UnlockWake(t)
  <2>1. \/ queue' = queue
        \/ \E u \in Threads :
              queue' = [queue EXCEPT ![StateWord(arg[t])] = queue[StateWord(arg[t])] \ {u}]
    BY <1>1, <1>2, <1>10 DEF UnlockWake, FutexWake
  <2>2. /\ queue' \in [Words -> SUBSET Threads]
        /\ \A m \in Mutexes : queue'[SeqWord(m)] = queue[SeqWord(m)]
    BY <1>1, <1>2, <1>3, <2>1
  <2> QED
    BY <1>1, <1>10, <2>2 DEF UnlockWake
<1> QED
  BY <1>4, <1>5, <1>6, <1>7, <1>8, <1>9, <1>10 DEF MutexStep

LEMMA MutexStepWakes ==
    ASSUME GraphTypeOK, LibraryOK, WakeOK, NEW t \in Threads, MutexStep(t),
           UNCHANGED <<condVars, graphVars>>
    PROVE  LibraryOK' /\ WakeOK'
<1>1. LibraryTypes /\ Placed(t) /\ LoadedOK(t) /\ AsleepOK(t)
  BY WakeParts
<1>2. /\ op' = [op EXCEPT ![t] = op'[t]] /\ arg' = arg /\ ret' = ret
      /\ queue' \in [Words -> SUBSET Threads]
      /\ \A m \in Mutexes : queue'[SeqWord(m)] = queue[SeqWord(m)]
      /\ \/ op[t] \in LockOps /\ op'[t] \in LockOps \cup {ret[t]}
         \/ op[t] \in UnlockOps /\ op'[t] \in UnlockOps \cup {ret[t]}
  BY <1>1, MutexMoves
<1>3. /\ seq' = seq /\ seen' = seen /\ pc' = pc /\ i' = i /\ ticks' = ticks /\ ready' = ready
  BY DEF condVars, graphVars
<1>4. Apart(t)
  BY <1>1, <1>2, <1>3 DEF Apart, LibraryTypes
<1>5. Moves(t)
  BY <1>2, <1>3, <1>4, QuietMoves DEF Sends, LockOps, UnlockOps
<1>6. LibraryTypes'
  <2>1. op'[t] \in LibraryOps
    BY <1>1, <1>2 DEF LibraryTypes, LibraryOps
  <2>2. op' \in [Threads -> LibraryOps]
    BY <1>1, <1>2, <2>1 DEF LibraryTypes
  <2> QED
    BY <1>1, <1>2, <1>3, <2>2 DEF LibraryTypes
<1>7. /\ Loaded(t)' => Loaded(t)
      /\ op'[t] # "cond_asleep" /\ op'[t] # "signal_wake" /\ op[t] # "cond_asleep"
      /\ op'[t] \in LockOps => op[t] \in LockOps
      /\ op'[t] \in UnlockOps => op[t] \in UnlockOps
  BY <1>1, <1>2 DEF Placed, Loaded, LockOps, UnlockOps
<1>8. Placed(t)'
  BY <1>1, <1>2, <1>3, <1>7 DEF Placed, Waiting
<1>9. LoadedOK(t)'
  <2>1. Waits(t)' <=> Waits(t)
    BY <1>2, <1>3 DEF Waits, MustWait, Target, LastTick
  <2>2. \A u \in Threads : Announces(u, arg[t])' <=> Announces(u, arg[t])
    BY <1>2, <1>3 DEF Announces
  <2> QED
    BY <1>1, <1>2, <1>3, <1>7, <2>1, <2>2 DEF LoadedOK
<1>10. AsleepOK(t)'
  BY <1>1, <1>2, <1>7 DEF AsleepOK
<1> QED
  BY <1>5, <1>6, <1>8, <1>9, <1>10, WakeKept

\* Nothing of it changes.
LEMMA WakeSame ==
    ASSUME LibraryOK, WakeOK,
           UNCHANGED <<queue, seq, seen, op, ret, arg, pc, i, ticks, ready>>
    PROVE  LibraryOK' /\ WakeOK'
<1>1. LibraryOK'
  BY DEF LibraryOK, Placed, Waiting, Loaded
<1>2. WakeOK'
  BY DEF WakeOK, Loaded, Waits, MustWait, Target, LastTick, Announces, Sends
<1> QED
  BY <1>1, <1>2

\* A thread that goes to lock the mutex again.
LEMMA RelockWakes ==
    ASSUME GraphTypeOK, LibraryOK, WakeOK, NEW t \in Threads,
           NEW p \in {"idle", "cond_fetch_or"}, Relock(t, p),
           Forget(t) \/ seen' = seen, UNCHANGED <<seq, graphVars>>,
           op[t] \in {"cond_spin", "cond_asleep"},
           \A m \in Mutexes : t \notin queue[SeqWord(m)]
    PROVE  LibraryOK' /\ WakeOK'
<1>1. LibraryTypes /\ Placed(t) /\ LoadedOK(t) /\ AsleepOK(t)
  BY WakeParts
<1>2. /\ op' = [op EXCEPT ![t] = "trylock_load"] /\ ret' = [ret EXCEPT ![t] = p]
      /\ queue' = queue /\ arg' = arg
      /\ seq' = seq /\ pc' = pc /\ i' = i /\ ticks' = ticks /\ ready' = ready
  BY DEF Relock, graphVars
<1>3. seen' \in [Threads -> Nat] /\ \A u \in Threads : u # t => seen'[u] = seen[u]
  BY <1>1 DEF LibraryTypes, Forget
<1>4. LibraryTypes'
  BY <1>1, <1>2, <1>3 DEF LibraryTypes, LibraryOps, LockOps
<1>5. Apart(t)
  BY <1>1, <1>2, <1>3 DEF Apart, LibraryTypes
<1>6. Moves(t)
  BY <1>2, <1>5, QuietMoves DEF Sends
<1>7. op'[t] = "trylock_load" /\ ret'[t] = p
  BY <1>1, <1>2 DEF LibraryTypes
<1>8. Placed(t)' /\ LoadedOK(t)'
  BY <1>7 DEF Placed, LoadedOK, Waiting, Loaded, UnlockOps
<1>9. AsleepOK(t)'
  BY <1>2 DEF AsleepOK
<1> QED
  BY <1>4, <1>6, <1>8, <1>9, WakeKept

\* A thread that does not sleep in cond_wait is in no queue of a counter.
LEMMA NotAsleep ==
    ASSUME LibraryOK, NEW t \in Threads, op[t] # "cond_asleep" \/ Awake(t)
    PROVE  \A m \in Mutexes : t \notin queue[SeqWord(m)]
<1> SUFFICES ASSUME NEW m \in Mutexes, t \in queue[SeqWord(m)] PROVE FALSE
  OBVIOUS
<1>1. op[t] = "cond_asleep"
  BY DEF LibraryOK
<1>2. SeqWord(m) \in DOMAIN queue
  BY TwoWords DEF LibraryOK
<1> QED
  BY <1>1, <1>2 DEF Awake

LEMMA CondSpinWakes ==
    ASSUME GraphTypeOK, LibraryOK, WakeOK, NEW t \in Threads, CondSpin(t),
           UNCHANGED graphVars
    PROVE  LibraryOK' /\ WakeOK'
<1>1. LibraryTypes
  BY WakeParts
<1>2. op[t] = "cond_spin" /\ \A m \in Mutexes : t \notin queue[SeqWord(m)]
  BY NotAsleep DEF CondSpin
<1>3. CASE Relock(t, "idle") /\ Forget(t)
  BY <1>2, <1>3, RelockWakes DEF CondSpin
<1>4. CASE GoTo(t, "cond_spin") /\ UNCHANGED <<queue, seen>>
  <2>1. /\ op' = [op EXCEPT ![t] = "cond_spin"] /\ UNCHANGED <<ret, arg, queue, seen, seq>>
        /\ pc' = pc /\ i' = i /\ ticks' = ticks /\ ready' = ready
    BY <1>4 DEF GoTo, CondSpin, graphVars
  <2>2. op' = op
    BY <1>1, <1>2, <2>1 DEF LibraryTypes
  <2> QED
    BY <2>1, <2>2, WakeSame
<1> QED
  BY <1>3, <1>4 DEF CondSpin

\* A thread goes to sleep only if the counter is what it loaded: then what it
\* waits for has not happened, or is going to be announced.
LEMMA CondFutexWaitWakes ==
    ASSUME GraphTypeOK, LibraryOK, WakeOK, NEW t \in Threads, CondFutexWait(t),
           UNCHANGED graphVars
    PROVE  LibraryOK' /\ WakeOK'
<1>1. LibraryTypes /\ Placed(t) /\ LoadedOK(t) /\ AsleepOK(t)
  BY WakeParts
<1>2. op[t] = "cond_spin" /\ \A m \in Mutexes : t \notin queue[SeqWord(m)]
  BY NotAsleep DEF CondFutexWait
<1>3. CASE Relock(t, AfterWait)
  BY <1>2, <1>3, RelockWakes DEF CondFutexWait, AfterWait
<1>4. CASE SeqHolds(t) /\ FutexWait(t, SeqWord(arg[t]), TRUE) /\ GoTo(t, "cond_asleep")
  <2>1. PICK m \in Mutexes : m = arg[t]
    BY <1>1 DEF LibraryTypes
  <2>2. /\ op' = [op EXCEPT ![t] = "cond_asleep"] /\ arg' = arg /\ ret' = ret /\ seq' = seq
        /\ queue' = [queue EXCEPT ![SeqWord(m)] = queue[SeqWord(m)] \cup {t}]
        /\ pc' = pc /\ i' = i /\ ticks' = ticks /\ ready' = ready
    BY <1>4, <2>1 DEF GoTo, CondFutexWait, FutexWait, graphVars
  <2>3. seen' \in [Threads -> Nat] /\ \A u \in Threads : u # t => seen'[u] = seen[u]
    BY <1>1 DEF LibraryTypes, CondFutexWait, Forget
  <2>4. /\ queue' \in [Words -> SUBSET Threads]
        /\ queue'[SeqWord(m)] = queue[SeqWord(m)] \cup {t}
        /\ \A k \in Mutexes : k # m => queue'[SeqWord(k)] = queue[SeqWord(k)]
    BY <1>1, <2>2, TwoWords DEF LibraryTypes
  <2>5. LibraryTypes'
    BY <1>1, <2>2, <2>3, <2>4 DEF LibraryTypes, LibraryOps
  <2>6. Apart(t)
    BY <1>1, <2>2, <2>3 DEF Apart, LibraryTypes
  <2>7. Moves(t)
    <3>1. \A k \in Mutexes : queue'[SeqWord(k)] \subseteq queue[SeqWord(k)] \cup {t}
      BY <2>4
    <3> QED
      BY <1>2, <2>2, <2>6, <3>1, QuietMoves DEF Sends
  <2>8. op'[t] = "cond_asleep" /\ arg'[t] = m
    BY <1>1, <2>1, <2>2 DEF LibraryTypes
  <2>9. Loaded(t) /\ Waiting(t) /\ ~Loaded(t)'
    BY <1>2, <2>8 DEF Loaded, Waiting, UnlockOps
  <2>10. Placed(t)' /\ LoadedOK(t)'
    BY <1>1, <2>1, <2>2, <2>8, <2>9 DEF Placed, LoadedOK, LockOps, UnlockOps
  <2>11. Waits(t) \/ \E u \in Threads : Announces(u, m)
    <3>1. seq[m] = seen[t] /\ seq[m] \in Nat
      BY <1>1, <1>4, <2>1 DEF SeqHolds, LibraryTypes
    <3> QED
      BY <1>1, <2>1, <2>9, <3>1 DEF LoadedOK
  <2>12. Waits(t)' \/ \E u \in Threads : Announces(u, m)'
    <3>1. Waits(t)' <=> Waits(t)
      BY <2>2 DEF Waits, MustWait, Target, LastTick
    <3>2. \A u \in Threads : Announces(u, m)' <=> Announces(u, m)
      BY <2>2 DEF Announces
    <3> QED
      BY <2>11, <3>1, <3>2
  <2>13. AsleepOK(t)'
    BY <1>2, <2>4, <2>8, <2>12 DEF AsleepOK
  <2> QED
    BY <2>5, <2>7, <2>10, <2>13, WakeKept
<1> QED
  BY <1>3, <1>4 DEF CondFutexWait

LEMMA CondFutexReturnWakes ==
    ASSUME GraphTypeOK, LibraryOK, WakeOK, NEW t \in Threads, CondFutexReturn(t),
           UNCHANGED graphVars
    PROVE  LibraryOK' /\ WakeOK'
<1>1. /\ op[t] = "cond_asleep" /\ Awake(t) /\ Relock(t, "cond_fetch_or")
      /\ seen' = seen /\ UNCHANGED <<seq, graphVars>>
  BY DEF CondFutexReturn, AfterWait, condVars
<1> QED
  BY <1>1, NotAsleep, RelockWakes

\* A thread returns to its own code, and nobody sleeps any more who was to be
\* woken by it.
LEMMA ReturnWakes ==
    ASSUME GraphTypeOK, LibraryOK, WakeOK, NEW t \in Threads,
           op' = [op EXCEPT ![t] = "idle"], UNCHANGED <<arg, ret, condVars, graphVars>>,
           op[t] # "cond_asleep",
           queue' \in [Words -> SUBSET Threads],
           \A m \in Mutexes : queue'[SeqWord(m)] \subseteq queue[SeqWord(m)],
           \A m \in Mutexes : Sends(t, m) => queue'[SeqWord(m)] = {}
    PROVE  LibraryOK' /\ WakeOK'
<1>1. LibraryTypes
  BY WakeParts
<1>2. /\ seq' = seq /\ seen' = seen /\ pc' = pc /\ i' = i /\ ticks' = ticks /\ ready' = ready
      /\ arg' = arg /\ ret' = ret
  BY DEF condVars, graphVars
<1>3. LibraryTypes'
  BY <1>1, <1>2 DEF LibraryTypes, LibraryOps
<1>4. Apart(t)
  BY <1>1, <1>2 DEF LibraryTypes, Apart
<1>5. Moves(t)
  <2>1. \A m \in Mutexes : Announces(t, m)' <=> Announces(t, m)
    BY <1>2 DEF Announces
  <2>2. \A m \in Mutexes : queue'[SeqWord(m)] \subseteq queue[SeqWord(m)] \cup {t}
    OBVIOUS
  <2> QED
    BY <1>2, <1>4, <2>1, <2>2 DEF Moves
<1>6. op'[t] = "idle"
  BY <1>1 DEF LibraryTypes
<1>7. Placed(t)' /\ LoadedOK(t)'
  BY <1>6 DEF Placed, LoadedOK, Waiting, Loaded, LockOps, UnlockOps
<1>8. AsleepOK(t)'
  <2>1. \A m \in Mutexes : t \notin queue'[SeqWord(m)]
    BY NotAsleep
  <2> QED
    BY <2>1 DEF AsleepOK
<1> QED
  BY <1>3, <1>5, <1>7, <1>8, WakeKept

LEMMA CondFetchOrWakes ==
    ASSUME GraphTypeOK, LibraryOK, WakeOK, NEW t \in Threads, CondFetchOr(t),
           UNCHANGED graphVars
    PROVE  LibraryOK' /\ WakeOK'
<1>1. /\ op[t] = "cond_fetch_or" /\ op' = [op EXCEPT ![t] = "idle"]
      /\ UNCHANGED <<arg, ret, condVars, graphVars>> /\ queue' = queue
  BY DEF CondFetchOr
<1>2. queue' \in [Words -> SUBSET Threads]
  BY <1>1 DEF LibraryOK
<1>3. \A m \in Mutexes : ~Sends(t, m)
  BY <1>1 DEF Sends
<1> QED
  BY <1>1, <1>2, <1>3, ReturnWakes

\* Only the next thread waits for a node: whoever is signalled is the last.
LEMMA SignalWakeWakes ==
    ASSUME GraphTypeOK, LibraryOK, WakeOK, NEW t \in Threads, SignalWake(t),
           UNCHANGED graphVars
    PROVE  LibraryOK' /\ WakeOK'
<1>1. LibraryTypes /\ \A u \in Threads : Placed(u) /\ AsleepOK(u)
  BY WakeParts
<1>2. /\ op[t] = "signal_wake" /\ op' = [op EXCEPT ![t] = "idle"]
      /\ UNCHANGED <<arg, ret, condVars, graphVars>>
  BY DEF SignalWake, GoTo
<1>3. PICK m \in Nodes : m = arg[t]
  BY <1>1, <1>2 DEF Placed
<1>4. m \in Mutexes /\ SeqWord(m) \in Words /\ queue[SeqWord(m)] \subseteq Threads
  BY <1>1, <1>3, GraphAssumption, TwoWords DEF LibraryTypes
<1>5. \A u, v \in queue[SeqWord(m)] : u = v
  <2>1. ASSUME NEW u \in queue[SeqWord(m)] PROVE u = m + 1
    <3>1. u \in Threads /\ op[u] = "cond_asleep" /\ arg[u] = m
      BY <1>1, <1>4, <2>1 DEF AsleepOK
    <3>2. u \in Nodes /\ m = u - 1
      BY <1>1, <1>3, <3>1, Constants DEF Placed, Waiting, Clock, Main
    <3> QED
      BY <3>2, Constants
  <2> QED
    BY <2>1
<1>6. \/ queue[SeqWord(m)] = {} /\ queue' = queue
      \/ \E u \in queue[SeqWord(m)] :
            queue' = [queue EXCEPT ![SeqWord(m)] = queue[SeqWord(m)] \ {u}]
  BY <1>3 DEF SignalWake, FutexWake
<1>7. /\ queue' \in [Words -> SUBSET Threads]
      /\ queue'[SeqWord(m)] = {}
      /\ \A k \in Mutexes : k # m => queue'[SeqWord(k)] = queue[SeqWord(k)]
  <2>1. CASE queue[SeqWord(m)] = {} /\ queue' = queue
    BY <1>1, <2>1 DEF LibraryTypes
  <2>2. ASSUME NEW u \in queue[SeqWord(m)],
               queue' = [queue EXCEPT ![SeqWord(m)] = queue[SeqWord(m)] \ {u}]
        PROVE  /\ queue' \in [Words -> SUBSET Threads]
               /\ queue'[SeqWord(m)] = {}
               /\ \A k \in Mutexes : k # m => queue'[SeqWord(k)] = queue[SeqWord(k)]
    <3>1. queue[SeqWord(m)] \ {u} = {}
      BY <1>5, <2>2
    <3>2. queue' = [queue EXCEPT ![SeqWord(m)] = {}]
      BY <2>2, <3>1
    <3> QED
      BY <1>1, <1>4, <3>2, TwoWords DEF LibraryTypes
  <2> QED
    BY <1>6, <2>1, <2>2
<1>8. \A k \in Mutexes : queue'[SeqWord(k)] \subseteq queue[SeqWord(k)]
  BY <1>7
<1>9. \A k \in Mutexes : Sends(t, k) => queue'[SeqWord(k)] = {}
  BY <1>3, <1>7 DEF Sends
<1> QED
  BY <1>2, <1>7, <1>8, <1>9, ReturnWakes

LEMMA BroadcastRequeueWakes ==
    ASSUME GraphTypeOK, LibraryOK, WakeOK, NEW t \in Threads, BroadcastRequeue(t),
           UNCHANGED graphVars
    PROVE  LibraryOK' /\ WakeOK'
<1>1. LibraryTypes
  BY WakeParts
<1>2. /\ op[t] = "broadcast_requeue" /\ op' = [op EXCEPT ![t] = "idle"]
      /\ UNCHANGED <<arg, ret, condVars, graphVars>>
  BY DEF BroadcastRequeue, GoTo
<1>3. PICK m \in Mutexes : m = arg[t]
  BY <1>1 DEF LibraryTypes
<1>4. /\ SeqWord(m) \in Words /\ StateWord(m) \in Words
      /\ queue[SeqWord(m)] \subseteq Threads /\ queue[StateWord(m)] \subseteq Threads
  BY <1>1, TwoWords DEF LibraryTypes
<1>5. \/ queue[SeqWord(m)] = {} /\ queue' = queue
      \/ \E u \in queue[SeqWord(m)] :
            queue' = [queue EXCEPT ![SeqWord(m)] = {},
                         ![StateWord(m)] = @ \cup (queue[SeqWord(m)] \ {u})]
  BY <1>3 DEF BroadcastRequeue, FutexRequeue
<1>6. /\ queue' \in [Words -> SUBSET Threads]
      /\ queue'[SeqWord(m)] = {}
      /\ \A k \in Mutexes : k # m => queue'[SeqWord(k)] = queue[SeqWord(k)]
  <2>1. CASE queue[SeqWord(m)] = {} /\ queue' = queue
    BY <1>1, <2>1 DEF LibraryTypes
  <2>2. ASSUME NEW W \in SUBSET Threads,
               queue' = [queue EXCEPT ![SeqWord(m)] = {}, ![StateWord(m)] = W]
        PROVE  /\ queue' \in [Words -> SUBSET Threads]
               /\ queue'[SeqWord(m)] = {}
               /\ \A k \in Mutexes : k # m => queue'[SeqWord(k)] = queue[SeqWord(k)]
    BY <1>1, <1>4, <2>2, TwoWords DEF LibraryTypes
  <2>3. ASSUME NEW u \in queue[SeqWord(m)],
               queue' = [queue EXCEPT ![SeqWord(m)] = {},
                            ![StateWord(m)] = @ \cup (queue[SeqWord(m)] \ {u})]
        PROVE  \E W \in SUBSET Threads :
                  queue' = [queue EXCEPT ![SeqWord(m)] = {}, ![StateWord(m)] = W]
    <3> DEFINE W == queue[StateWord(m)] \cup (queue[SeqWord(m)] \ {u})
    <3>1. W \in SUBSET Threads
      BY <1>4
    <3>2. queue' = [queue EXCEPT ![SeqWord(m)] = {}, ![StateWord(m)] = W]
      BY <1>4, <2>3, TwoWords
    <3> QED
      BY <3>1, <3>2
  <2> QED
    BY <1>5, <2>1, <2>2, <2>3
<1>7. \A k \in Mutexes : queue'[SeqWord(k)] \subseteq queue[SeqWord(k)]
  BY <1>6
<1>8. \A k \in Mutexes : Sends(t, k) => queue'[SeqWord(k)] = {}
  BY <1>3, <1>6 DEF Sends
<1> QED
  BY <1>2, <1>6, <1>7, <1>8, ReturnWakes

LEMMA LibraryStepWakes ==
    ASSUME GraphTypeOK, LibraryOK, WakeOK, NEW t \in Threads, LibraryStep(t),
           UNCHANGED graphVars
    PROVE  LibraryOK' /\ WakeOK' /\ seq' = seq
<1>1. CASE MutexStep(t) /\ UNCHANGED condVars
  BY <1>1, MutexStepWakes DEF condVars
<1>2. CASE CondStep(t)
  <2>1. seq' = seq
    BY <1>2 DEF CondStep, CondSpin, CondFutexWait, CondFutexReturn, CondFetchOr, SignalWake,
                BroadcastRequeue, condVars
  <2> QED
    BY <1>2, <2>1, CondSpinWakes, CondFutexWaitWakes, CondFutexReturnWakes, CondFetchOrWakes,
       SignalWakeWakes, BroadcastRequeueWakes DEF CondStep
<1> QED
  BY <1>1, <1>2 DEF LibraryStep

-----------------------------------------------------------------------------
(* Calls of the library *)

AnnounceLabels == {"tick_broadcast", "stop_broadcast", "signal_cond"}

\* mutex_lock and mutex_unlock, when what the thread changes with the call is
\* announced by the line that it goes to.
LEMMA CallWakes ==
    ASSUME GraphTypeOK, LibraryOK, WakeOK, NEW t \in Threads, NEW m \in Mutexes,
           op[t] = "idle", Lock(t, m) \/ Unlock(t, m), Alone(t),
           pc[t] \notin AnnounceLabels,
           ticks' # ticks => Announces(t, Clock)',
           \A n \in Nodes : ready'[n] /\ ~ready[n] => Announces(t, n)'
    PROVE  LibraryOK' /\ WakeOK' /\ seq' = seq
<1>1. LibraryTypes
  BY WakeParts
<1>2. /\ \/ op' = [op EXCEPT ![t] = "trylock_load"]
         \/ op' = [op EXCEPT ![t] = "unlock_exchange"]
      /\ arg' = [arg EXCEPT ![t] = m] /\ ret' = [ret EXCEPT ![t] = "idle"]
      /\ queue' = queue /\ seq' = seq /\ seen' = seen
  BY DEF Lock, Unlock, MutexLock, MutexUnlock, condVars
<1>3. LibraryTypes'
  BY <1>1, <1>2 DEF LibraryTypes, LibraryOps, LockOps, UnlockOps
<1>4. Apart(t)
  BY <1>1, <1>2 DEF LibraryTypes, Apart, Alone
<1>5. \A k \in Mutexes : ~Announces(t, k) /\ ~Sends(t, k)
  BY DEF Announces, Sends, AnnounceLabels
<1>6. Moves(t)
  BY <1>2, <1>4, <1>5 DEF Moves
<1>7. op'[t] \in {"trylock_load", "unlock_exchange"} /\ ret'[t] = "idle"
  BY <1>1, <1>2 DEF LibraryTypes
<1>8. Placed(t)' /\ LoadedOK(t)'
  BY <1>7 DEF Placed, LoadedOK, Waiting, Loaded, LockOps, UnlockOps
<1>9. AsleepOK(t)'
  <2>1. \A k \in Mutexes : t \notin queue'[SeqWord(k)]
    BY <1>2, NotAsleep
  <2> QED
    BY <2>1 DEF AsleepOK
<1> QED
  BY <1>2, <1>3, <1>6, <1>8, <1>9, WakeKept

\* cond_wait: what the thread waits for has not happened when it loads the
\* counter.
LEMMA CondWaitWakes ==
    ASSUME GraphTypeOK, LibraryOK, WakeOK, NEW t \in Threads, NEW m \in Mutexes,
           op[t] = "idle", CondWait(t, m), Alone(t), pc'[t] = pc[t],
           UNCHANGED <<ticks, ready, i>>,
           \/ pc[t] = "wait_test" /\ m = Clock /\ MustWait(t)
           \/ t \in Nodes \ {0} /\ pc[t] = "parent_test" /\ m = t - 1 /\ ~ready[m]
    PROVE  LibraryOK' /\ WakeOK' /\ seq' = seq
<1>1. LibraryTypes
  BY WakeParts
<1>2. /\ op' = [op EXCEPT ![t] = "unlock_exchange"]
      /\ arg' = [arg EXCEPT ![t] = m] /\ ret' = [ret EXCEPT ![t] = "cond_spin"]
      /\ queue' = queue /\ seq' = seq /\ seen' = [seen EXCEPT ![t] = seq[m]]
  BY DEF CondWait, MutexUnlock
<1>3. LibraryTypes'
  BY <1>1, <1>2 DEF LibraryTypes, LibraryOps, LockOps, UnlockOps
<1>4. Apart(t)
  BY <1>1, <1>2 DEF LibraryTypes, Apart, Alone
<1>5. \A k \in Mutexes : ~Announces(t, k) /\ ~Sends(t, k)
  BY DEF Announces, Sends
<1>6. Moves(t)
  BY <1>2, <1>4, <1>5 DEF Moves
<1>7. /\ op'[t] = "unlock_exchange" /\ ret'[t] = "cond_spin" /\ arg'[t] = m
      /\ seen'[t] = seq[m] /\ seq[m] \in Nat
  BY <1>1, <1>2 DEF LibraryTypes
<1>8. Placed(t)'
  BY <1>7 DEF Placed, LockOps, UnlockOps
<1>9. Waits(t)'
  <2>1. CASE m = Clock
    <3>1. MustWait(t)
      BY <2>1, Constants DEF Clock, Nodes
    <3>2. MustWait(t)' <=> MustWait(t)
      BY DEF MustWait, Target, LastTick
    <3> QED
      BY <1>7, <2>1, <3>1, <3>2 DEF Waits, Clock
  <2>2. CASE m # Clock
    BY <1>7, <2>2 DEF Waits, Clock
  <2> QED
    BY <2>1, <2>2
<1>10. LoadedOK(t)'
  BY <1>2, <1>7, <1>9 DEF LoadedOK
<1>11. AsleepOK(t)'
  <2>1. \A k \in Mutexes : t \notin queue'[SeqWord(k)]
    BY <1>2, NotAsleep
  <2> QED
    BY <2>1 DEF AsleepOK
<1> QED
  BY <1>2, <1>3, <1>6, <1>8, <1>10, <1>11, WakeKept

\* cond_signal and cond_broadcast of what has been announced.
LEMMA NotifyWakes ==
    ASSUME GraphTypeOK, LibraryOK, WakeOK, NEW t \in Threads, NEW m \in Mutexes,
           NEW next \in {"signal_wake", "broadcast_requeue"},
           op[t] = "idle", Notify(t, m, next), NextSeq(seq[m]) = seq[m] + 1, Alone(t),
           ticks' = ticks, ready' = ready,
           next = "signal_wake" => m \in Nodes,
           \A k \in Mutexes : Announces(t, k) => k = m
    PROVE  /\ LibraryOK' /\ WakeOK'
           /\ seq'[m] = seq[m] + 1 /\ \A k \in Mutexes : k # m => seq'[k] = seq[k]
<1>1. LibraryTypes
  BY WakeParts
<1>2. /\ op' = [op EXCEPT ![t] = next] /\ arg' = [arg EXCEPT ![t] = m] /\ ret' = ret
      /\ queue' = queue /\ seq' = [seq EXCEPT ![m] = seq[m] + 1] /\ seen' = seen
  BY DEF Notify
<1>3. seq[m] \in Nat /\ seq[m] + 1 \in Nat
  BY <1>1 DEF LibraryTypes
<1>4. LibraryTypes'
  BY <1>1, <1>2, <1>3 DEF LibraryTypes, LibraryOps
<1>5. seq'[m] = seq[m] + 1 /\ \A k \in Mutexes : k # m => seq'[k] = seq[k]
  BY <1>1, <1>2 DEF LibraryTypes
<1>6. Apart(t)
  BY <1>1, <1>2 DEF LibraryTypes, Apart, Alone
<1>7. op'[t] = next /\ arg'[t] = m
  BY <1>1, <1>2 DEF LibraryTypes
<1>8. Moves(t)
  <2>1. \A k \in Mutexes : ~Sends(t, k)
    BY DEF Sends
  <2>2. Sends(t, m)'
    BY <1>7 DEF Sends
  <2> QED
    BY <1>2, <1>5, <1>6, <2>1, <2>2 DEF Moves
<1>9. Placed(t)' /\ LoadedOK(t)'
  BY <1>7 DEF Placed, LoadedOK, Waiting, Loaded, LockOps, UnlockOps
<1>10. AsleepOK(t)'
  <2>1. \A k \in Mutexes : t \notin queue'[SeqWord(k)]
    BY <1>2, NotAsleep
  <2> QED
    BY <2>1 DEF AsleepOK
<1> QED
  BY <1>4, <1>5, <1>8, <1>9, <1>10, WakeKept

\* A step outside the library.
LEMMA OutsideWakes ==
    ASSUME GraphTypeOK, LibraryOK, WakeOK, NEW t \in Threads,
           op[t] = "idle", UNCHANGED <<monitorVars, ticks, ready>>, Alone(t),
           pc[t] \notin AnnounceLabels
    PROVE  LibraryOK' /\ WakeOK' /\ seq' = seq
<1>1. LibraryTypes
  BY WakeParts
<1>2. UNCHANGED <<queue, op, arg, ret, seq, seen, ticks, ready>>
  BY DEF monitorVars, mutexVars, condVars
<1>3. LibraryTypes'
  BY <1>1, <1>2 DEF LibraryTypes
<1>4. Apart(t)
  BY <1>2 DEF Apart, Alone
<1>5. \A k \in Mutexes : ~Announces(t, k) /\ ~Sends(t, k)
  BY DEF Announces, Sends, AnnounceLabels
<1>6. Moves(t)
  BY <1>2, <1>4, <1>5 DEF Moves
<1>7. Placed(t)' /\ LoadedOK(t)'
  BY <1>2 DEF Placed, LoadedOK, Waiting, Loaded, LockOps, UnlockOps
<1>8. AsleepOK(t)'
  <2>1. \A k \in Mutexes : t \notin queue'[SeqWord(k)]
    BY <1>2, NotAsleep
  <2> QED
    BY <2>1 DEF AsleepOK
<1> QED
  BY <1>2, <1>3, <1>6, <1>7, <1>8, WakeKept

-----------------------------------------------------------------------------
(* The counters do not come around *)

LEMMA ThreadsFinite ==
    IsFiniteSet(Threads) /\ Cardinality(Threads) = N_NODES + 1
<1>1. Threads = 0 .. N_NODES
  BY GraphAssumption DEF Nodes, Main
<1>2. 0 \in Int /\ N_NODES \in Int /\ 0 <= N_NODES
  BY GraphAssumption
<1>3. IsFiniteSet(0 .. N_NODES) /\ Cardinality(0 .. N_NODES) = N_NODES - 0 + 1
  BY <1>2, FS_Interval
<1> QED
  BY <1>1, <1>2, <1>3

LEMMA FewBroadcasters ==
    /\ IsFiniteSet(Broadcasters) /\ Cardinality(Broadcasters) \in Nat
    /\ Cardinality(Broadcasters) <= N_NODES + 1
    /\ \A S \in SUBSET Broadcasters :
          Cardinality(S) \in Nat /\ Cardinality(S) <= Cardinality(Broadcasters)
<1>1. Broadcasters \subseteq Threads
  BY DEF Broadcasters
<1>2. /\ IsFiniteSet(Broadcasters) /\ Cardinality(Broadcasters) <= N_NODES + 1
  BY <1>1, ThreadsFinite, FS_Subset
<1>3. \A S \in SUBSET Broadcasters :
          Cardinality(S) \in Nat /\ Cardinality(S) <= Cardinality(Broadcasters)
  BY <1>2, FS_Subset, FS_CardinalityType
<1> QED
  BY <1>2, <1>3, FS_CardinalityType

LEMMA FewBroadcastersNext ==
    (/\ Cardinality(Broadcasters) \in Nat
     /\ Cardinality(Broadcasters) <= N_NODES + 1)'
<1>1. Cardinality(Broadcasters) \in Nat /\ Cardinality(Broadcasters) <= N_NODES + 1
  BY FewBroadcasters
<1> QED
  BY <1>1, PTL

\* The types that sums of counters need.
LEMMA CountTypes ==
    ASSUME WakeInv
    PROVE  /\ GraphTypeOK /\ StopOK /\ LibraryOK /\ WakeOK
           /\ seq \in [Mutexes -> Nat] /\ Clock \in Mutexes /\ Nodes \subseteq Mutexes
           /\ seq[Clock] \in Nat /\ ticks \in Int
           /\ LastTick \in Nat /\ LastTick' = LastTick /\ N_NODES \in Nat
           /\ ~Stopped => ticks <= LastTick
<1>1. Clock \in Mutexes /\ Nodes \subseteq Mutexes
  BY GraphAssumption
<1>2. LastTick \in Nat /\ LastTick' = LastTick /\ N_NODES \in Nat
  BY Constants, PowersOfTwo DEF LastTick
<1>3. GraphTypeOK /\ StopOK /\ (~Stopped => ticks <= LastTick)
  BY DEF WakeInv, GraphInv, CounterOK
<1>4. LibraryOK /\ WakeOK /\ seq \in [Mutexes -> Nat]
  BY DEF WakeInv, LibraryOK
<1> QED
  BY <1>1, <1>2, <1>3, <1>4 DEF GraphTypeOK

\* A counter that is going to be moved has room.
LEMMA ClockRoom ==
    ASSUME WakeInv, NEW t \in Broadcasters
    PROVE  NextSeq(seq[Clock]) = seq[Clock] + 1
<1>1. Cardinality(Broadcasters) >= 1 /\ Cardinality(Broadcasters) \in Nat
  <2>1. {t} \in SUBSET Broadcasters /\ Cardinality({t}) = 1
    BY FS_Singleton
  <2> QED
    BY <2>1, FewBroadcasters
<1>2. seq[Clock] <= LastTick + N_NODES
  BY <1>1, CountTypes DEF WakeInv, BroadcastsOK
<1> QED
  BY <1>2, CounterGrows, CountTypes

LEMMA NodeRoom ==
    ASSUME WakeInv, NEW n \in Nodes, pc[n] # "done"
    PROVE  NextSeq(seq[n]) = seq[n] + 1
<1>1. seq[n] \in Nat /\ i[n] \in Nat
  BY CountTypes DEF GraphTypeOK
<1>2. seq[n] <= i[n] - 1 /\ i[n] <= LastTick + 1
  BY DEF WakeInv, SignalsOK
<1>3. seq[n] <= LastTick + N_NODES
  BY <1>1, <1>2, CountTypes
<1> QED
  BY <1>1, <1>3, CounterGrows

\* Nobody new is going to broadcast.
LEMMA BroadcastsKept ==
    ASSUME WakeInv, NEW t \in Threads, Alone(t), ticks' = ticks, seq'[Clock] = seq[Clock],
           Stopped /\ pc'[t] \in Late => pc[t] \in Late,
           ~Stopped => pc'[t] # "tick_broadcast"
    PROVE  BroadcastsOK'
<1>1. Stopped' <=> Stopped
  BY DEF Stopped
<1>2. Broadcasters' \subseteq Broadcasters
  BY <1>1 DEF Broadcasters, Alone
<1>3. Cardinality(Broadcasters)' <= Cardinality(Broadcasters)
  BY <1>2, FewBroadcasters
<1>4. Cardinality(Broadcasters) \in Nat /\ Cardinality(Broadcasters)' \in Nat
  BY FewBroadcasters, FewBroadcastersNext
<1>5. seq[Clock] + Cardinality(Broadcasters) <=
         IF Stopped THEN LastTick + N_NODES + 1 ELSE ticks
  BY DEF WakeInv, BroadcastsOK
<1>6. seq'[Clock] + Cardinality(Broadcasters)' <=
         IF Stopped' THEN LastTick' + N_NODES + 1 ELSE ticks'
  BY <1>1, <1>3, <1>4, <1>5, CountTypes
<1> QED
  BY <1>6 DEF BroadcastsOK, Clock

\* A tick has room for the broadcast that follows.
LEMMA TickBroadcasts ==
    ASSUME WakeInv, NEW t \in Threads, Alone(t), seq'[Clock] = seq[Clock], ~Stopped,
           ticks' = ticks + 1, pc'[t] = "tick_broadcast"
    PROVE  BroadcastsOK'
<1>1. ~Stopped'
  BY CountTypes DEF Stopped
<1>2. Broadcasters' \subseteq Broadcasters \cup {t}
  BY <1>1 DEF Broadcasters, Alone
<1>3. IsFiniteSet(Broadcasters \cup {t})
      /\ Cardinality(Broadcasters \cup {t}) <= Cardinality(Broadcasters) + 1
  <2>1. IsFiniteSet(Broadcasters) /\ Cardinality(Broadcasters) \in Nat
    BY FewBroadcasters
  <2>2. IsFiniteSet(Broadcasters \cup {t})
        /\ Cardinality(Broadcasters \cup {t}) =
              IF t \in Broadcasters THEN Cardinality(Broadcasters)
              ELSE Cardinality(Broadcasters) + 1
    BY <2>1, FS_AddElement
  <2> QED
    BY <2>1, <2>2
<1>4. Cardinality(Broadcasters)' <= Cardinality(Broadcasters \cup {t})
  BY <1>2, <1>3, FS_Subset
<1>5. /\ Cardinality(Broadcasters) \in Nat /\ Cardinality(Broadcasters)' \in Nat
      /\ Cardinality(Broadcasters \cup {t}) \in Nat
  BY <1>3, FewBroadcasters, FewBroadcastersNext, FS_CardinalityType
<1>6. seq[Clock] + Cardinality(Broadcasters) <= ticks
  BY DEF WakeInv, BroadcastsOK
<1>7. seq'[Clock] + Cardinality(Broadcasters)' <= ticks'
  BY <1>3, <1>4, <1>5, <1>6, CountTypes
<1> QED
  BY <1>1, <1>7 DEF BroadcastsOK, Clock

\* A broadcast.
LEMMA BroadcastMoves ==
    ASSUME WakeInv, NEW t \in Broadcasters, Alone(t), seq'[Clock] = seq[Clock] + 1,
           ticks' = ticks, pc'[t] \in {"wait_lock", "join"}
    PROVE  BroadcastsOK'
<1>1. Stopped' <=> Stopped
  BY DEF Stopped
<1>2. Broadcasters' \subseteq Broadcasters \ {t}
  BY <1>1 DEF Broadcasters, Alone, Late
<1>3. IsFiniteSet(Broadcasters \ {t})
      /\ Cardinality(Broadcasters \ {t}) = Cardinality(Broadcasters) - 1
  BY FewBroadcasters, FS_RemoveElement
<1>4. Cardinality(Broadcasters)' <= Cardinality(Broadcasters) - 1
  BY <1>2, <1>3, FS_Subset
<1>5. Cardinality(Broadcasters) \in Nat /\ Cardinality(Broadcasters)' \in Nat
  BY FewBroadcasters, FewBroadcastersNext
<1>6. seq[Clock] + Cardinality(Broadcasters) <=
         IF Stopped THEN LastTick + N_NODES + 1 ELSE ticks
  BY DEF WakeInv, BroadcastsOK
<1>7. seq'[Clock] + Cardinality(Broadcasters)' <=
         IF Stopped' THEN LastTick' + N_NODES + 1 ELSE ticks'
  BY <1>1, <1>4, <1>5, <1>6, CountTypes
<1> QED
  BY <1>7 DEF BroadcastsOK, Clock

\* At the stop everybody may broadcast once more.
LEMMA StopBroadcasts ==
    ASSUME WakeInv, seq'[Clock] = seq[Clock], ~Stopped, ticks' = -1
    PROVE  BroadcastsOK'
<1>1. Stopped'
  BY DEF Stopped
<1>2. seq[Clock] + Cardinality(Broadcasters) <= ticks
  BY DEF WakeInv, BroadcastsOK
<1>3. Cardinality(Broadcasters)' \in Nat /\ Cardinality(Broadcasters)' <= N_NODES + 1
  BY FewBroadcastersNext
<1>4. seq'[Clock] + Cardinality(Broadcasters)' <= LastTick' + N_NODES + 1
  BY <1>2, <1>3, CountTypes, FewBroadcasters
<1> QED
  BY <1>1, <1>4 DEF BroadcastsOK, Clock

\* The other nodes.
LEMMA OtherSignals ==
    ASSUME WakeInv, NEW t \in Threads, Alone(t), NEW n \in Nodes, n # t, seq'[n] = seq[n]
    PROVE  SignalsOK(n)'
<1>1. pc'[n] = pc[n] /\ i'[n] = i[n] /\ running'[n] = running[n]
  BY Constants DEF Alone
<1>2. SignalsOK(n)
  BY DEF WakeInv
<1> QED
  BY <1>1, <1>2, CountTypes DEF SignalsOK

\* A step from line to line.
LEMMA LineKeeps ==
    ASSUME WakeInv, NEW t \in Threads, Alone(t), seq' = seq, ticks' = ticks,
           t \in Nodes => i'[t] = i[t] /\ running'[t] = running[t],
           pc'[t] \in Late => pc[t] \in Late,
           pc'[t] # "tick_broadcast",
           t \in Nodes /\ pc[t] \in {"wait_lock", "wait_test"} => pc'[t] = "wait_test",
           t \in Nodes => pc[t] # "done" /\ pc'[t] # "done"
    PROVE  BroadcastsOK' /\ \A n \in Nodes : SignalsOK(n)'
<1>1. BroadcastsOK'
  BY BroadcastsKept
<1>2. ASSUME t \in Nodes PROVE SignalsOK(t)'
  <2>1. SignalsOK(t)
    BY <1>2 DEF WakeInv
  <2> QED
    BY <1>2, <2>1, CountTypes DEF SignalsOK
<1> QED
  BY <1>1, <1>2, OtherSignals

-----------------------------------------------------------------------------
(* The steps of main.c *)

\* What follows from Go.
LEMMA GoFacts ==
    ASSUME WakeInv, NEW t \in Threads, NEW p, NEW q, Go(t, p, q)
    PROVE  /\ pc[t] = p /\ pc'[t] = q /\ op[t] = "idle"
           /\ \A u \in Threads : u # t => pc'[u] = pc[u]
  BY CountTypes DEF Go, GraphTypeOK

LEMMA GoAlone ==
    ASSUME WakeInv, NEW t \in Threads, NEW p, NEW q, Go(t, p, q),
           UNCHANGED <<i, bit, running>>
    PROVE  Alone(t)
  BY GoFacts DEF Alone

\* mutex_lock, and what it leads to.
LEMMA LockSteps ==
    ASSUME WakeInv, NEW t \in Threads, NEW p, NEW q, NEW m \in Mutexes,
           Go(t, p, q), Lock(t, m), UNCHANGED <<ticks, ready, i, bit, running>>,
           <<p, q>> \in {<<"wait_lock", "wait_test">>, <<"tick_lock", "tick_add">>,
                         <<"stop_lock", "stop_set">>, <<"parent_lock", "parent_test">>,
                         <<"signal_lock", "signal_set">>}
    PROVE  WakeOK' /\ LibraryOK' /\ BroadcastsOK' /\ \A n \in Nodes : SignalsOK(n)'
<1>1. pc[t] = p /\ pc'[t] = q /\ op[t] = "idle" /\ Alone(t)
  BY GoFacts, GoAlone
<1>2. LibraryOK' /\ WakeOK' /\ seq' = seq
  BY <1>1, CallWakes, CountTypes DEF AnnounceLabels
<1>3. BroadcastsOK' /\ \A n \in Nodes : SignalsOK(n)'
  BY <1>1, <1>2, LineKeeps DEF Late
<1> QED
  BY <1>2, <1>3

\* cond_wait, and back to the test.
LEMMA WaitSteps ==
    ASSUME WakeInv, NEW t \in Threads, NEW p, NEW m \in Mutexes,
           Go(t, p, p), CondWait(t, m), UNCHANGED <<ticks, ready, i, bit, running>>,
           \/ p = "wait_test" /\ m = Clock /\ MustWait(t)
           \/ t \in Nodes \ {0} /\ p = "parent_test" /\ m = t - 1 /\ ~ready[m]
    PROVE  WakeOK' /\ LibraryOK' /\ BroadcastsOK' /\ \A n \in Nodes : SignalsOK(n)'
<1>1. pc[t] = p /\ pc'[t] = p /\ op[t] = "idle" /\ Alone(t)
  BY GoFacts, GoAlone
<1>2. LibraryOK' /\ WakeOK' /\ seq' = seq
  BY <1>1, CondWaitWakes, CountTypes
<1>3. BroadcastsOK' /\ \A n \in Nodes : SignalsOK(n)'
  BY <1>1, <1>2, LineKeeps DEF Late
<1> QED
  BY <1>2, <1>3

LEMMA ClockWaitReturnKeeps ==
    ASSUME WakeInv, NEW t \in Threads, ClockWaitReturn(t)
    PROVE  WakeOK' /\ LibraryOK' /\ BroadcastsOK' /\ \A n \in Nodes : SignalsOK(n)'
<1> DEFINE reached == ticks >= Target(t)
           q == IF t = Main THEN "stop_lock"
                ELSE IF ~reached THEN "signal_lock"
                ELSE IF t = 0 THEN Work(t) ELSE "parent_lock"
<1>1. /\ Go(t, "wait_test", q) /\ Unlock(t, Clock)
      /\ running' = IF t = Main THEN running ELSE [running EXCEPT ![t] = reached]
      /\ UNCHANGED <<ticks, ready, i, bit>> /\ ~MustWait(t)
  BY DEF ClockWaitReturn
<1>2. /\ pc[t] = "wait_test" /\ pc'[t] = q /\ op[t] = "idle"
      /\ \A u \in Threads : u # t => pc'[u] = pc[u]
  BY <1>1, GoFacts
<1>3. /\ \A n \in Nodes : n # t => running'[n] = running[n]
      /\ t \in Nodes => running'[t] = reached
  BY <1>1, CountTypes, Constants DEF GraphTypeOK
<1>4. Alone(t)
  BY <1>1, <1>2, <1>3 DEF Alone
<1>5. LibraryOK' /\ WakeOK' /\ seq' = seq
  BY <1>1, <1>2, <1>4, CallWakes, CountTypes DEF AnnounceLabels
<1>6. t # Main /\ reached => /\ t \in Nodes /\ i[t] \in Nat /\ i[t] >= 1 /\ ticks >= i[t]
                             /\ ~Stopped
  BY CountTypes, Constants DEF GraphTypeOK, Target, Stopped
<1>7. BroadcastsOK'
  <2>1. pc'[t] # "tick_broadcast"
    BY <1>2 DEF Work
  <2>2. ~(Stopped /\ pc'[t] \in Late)
    BY <1>2, <1>6 DEF Late
  <2> QED
    BY <1>1, <1>4, <1>5, <2>1, <2>2, BroadcastsKept
<1>8. ASSUME t \in Nodes PROVE SignalsOK(t)'
  <2>1. SignalsOK(t) /\ t # Main
    BY <1>8, Constants DEF WakeInv
  <2>2. CASE reached
    <3>1. i[t] <= LastTick
      BY <1>6, <2>1, <2>2, CountTypes
    <3>2. pc'[t] # "done" /\ running'[t] /\ i'[t] = i[t]
      BY <1>1, <1>2, <1>3, <1>8, <2>1, <2>2 DEF Work
    <3> QED
      BY <1>2, <1>5, <2>1, <3>1, <3>2, CountTypes DEF SignalsOK
  <2>3. CASE ~reached
    <3>1. pc'[t] = "signal_lock" /\ ~running'[t] /\ i'[t] = i[t]
      BY <1>1, <1>2, <1>3, <1>8, <2>1, <2>3
    <3> QED
      BY <1>2, <1>5, <2>1, <3>1, CountTypes DEF SignalsOK, Late
  <2> QED
    BY <2>2, <2>3
<1> QED
  BY <1>4, <1>5, <1>7, <1>8, OtherSignals

LEMMA ClockTickAddKeeps ==
    ASSUME WakeInv, NEW t \in Threads, ClockTickAdd(t)
    PROVE  WakeOK' /\ LibraryOK' /\ BroadcastsOK' /\ \A n \in Nodes : SignalsOK(n)'
<1>1. /\ Go(t, "tick_add", "tick_broadcast") /\ ticks' = Tick(ticks) /\ Unlock(t, Clock)
      /\ UNCHANGED <<ready, i, bit, running>>
  BY DEF ClockTickAdd
<1>2. pc[t] = "tick_add" /\ pc'[t] = "tick_broadcast" /\ op[t] = "idle" /\ Alone(t)
  BY <1>1, GoFacts, GoAlone
<1>3. LibraryOK' /\ WakeOK' /\ seq' = seq
  <2>1. Announces(t, Clock)'
    BY <1>2 DEF Announces, Clock
  <2> QED
    BY <1>1, <1>2, <2>1, CallWakes, CountTypes DEF AnnounceLabels
<1>4. BroadcastsOK'
  <2>1. CASE Stopped
    <3>1. ticks' = ticks
      BY <1>1, <2>1, CountTypes DEF Tick, Stopped
    <3> QED
      BY <1>2, <1>3, <2>1, <3>1, BroadcastsKept DEF Late
  <2>2. CASE ~Stopped
    <3>1. ticks' = ticks + 1
      BY <1>1, <2>2, CountTypes DEF Tick, Stopped
    <3> QED
      BY <1>2, <1>3, <2>2, <3>1, TickBroadcasts
  <2> QED
    BY <2>1, <2>2
<1>5. ASSUME t \in Nodes PROVE SignalsOK(t)'
  <2>1. SignalsOK(t)
    BY <1>5 DEF WakeInv
  <2> QED
    BY <1>1, <1>2, <1>3, <2>1, CountTypes DEF SignalsOK, Late
<1> QED
  BY <1>2, <1>3, <1>4, <1>5, OtherSignals

LEMMA ClockTickBroadcastKeeps ==
    ASSUME WakeInv, NEW t \in Threads, ClockTickBroadcast(t)
    PROVE  WakeOK' /\ LibraryOK' /\ BroadcastsOK' /\ \A n \in Nodes : SignalsOK(n)'
<1>1. /\ Go(t, "tick_broadcast", "wait_lock") /\ Notify(t, Clock, "broadcast_requeue")
      /\ IF t = Main THEN UNCHANGED <<i, bit>> ELSE NextIteration(t)
      /\ UNCHANGED <<ticks, ready, running>>
  BY DEF ClockTickBroadcast, CondBroadcast
<1>2. /\ pc[t] = "tick_broadcast" /\ pc'[t] = "wait_lock" /\ op[t] = "idle"
      /\ \A u \in Threads : u # t => pc'[u] = pc[u]
  BY <1>1, GoFacts
<1>3. /\ \A n \in Nodes : n # t => i'[n] = i[n] /\ bit'[n] = bit[n]
      /\ t \in Nodes => i'[t] = i[t] + 1
  BY <1>1, CountTypes, Constants DEF GraphTypeOK, NextIteration
<1>4. Alone(t)
  BY <1>1, <1>2, <1>3 DEF Alone
<1>5. t \in Broadcasters
  BY <1>2 DEF Broadcasters, Late
<1>6. NextSeq(seq[Clock]) = seq[Clock] + 1
  BY <1>5, ClockRoom
<1>7. /\ LibraryOK' /\ WakeOK'
      /\ seq'[Clock] = seq[Clock] + 1 /\ \A k \in Mutexes : k # Clock => seq'[k] = seq[k]
  <2>1. \A k \in Mutexes : Announces(t, k) => k = Clock
    BY <1>2 DEF Announces
  <2> QED
    BY <1>1, <1>2, <1>4, <1>6, <2>1, NotifyWakes, CountTypes
<1>8. BroadcastsOK'
  BY <1>1, <1>2, <1>4, <1>5, <1>7, BroadcastMoves
<1>9. \A n \in Nodes : n \in Mutexes /\ n # Clock
  BY CountTypes, Constants DEF Clock, Main
<1>10. ASSUME t \in Nodes PROVE SignalsOK(t)'
  <2>1. SignalsOK(t) /\ i[t] \in Nat
    BY <1>10, CountTypes DEF WakeInv, GraphTypeOK
  <2>2. running[t] /\ i[t] <= LastTick
    BY <1>2, <2>1 DEF SignalsOK, Late
  <2>3. seq'[t] = seq[t] /\ seq[t] \in Nat
    BY <1>7, <1>9, <1>10, CountTypes
  <2> QED
    BY <1>2, <1>3, <1>10, <2>1, <2>2, <2>3, CountTypes DEF SignalsOK, Late
<1> QED
  BY <1>4, <1>7, <1>8, <1>9, <1>10, OtherSignals

LEMMA ClockStopSetKeeps ==
    ASSUME WakeInv, ClockStopSet
    PROVE  WakeOK' /\ LibraryOK' /\ BroadcastsOK' /\ \A n \in Nodes : SignalsOK(n)'
<1>1. /\ Go(Main, "stop_set", "stop_broadcast") /\ ticks' = -1 /\ Unlock(Main, Clock)
      /\ UNCHANGED <<ready, i, bit, running>>
  BY DEF ClockStopSet
<1>2. /\ pc[Main] = "stop_set" /\ pc'[Main] = "stop_broadcast" /\ op[Main] = "idle"
      /\ Alone(Main) /\ Main \in Threads
  BY <1>1, GoFacts, GoAlone, Constants
<1>3. LibraryOK' /\ WakeOK' /\ seq' = seq
  <2>1. Announces(Main, Clock)'
    BY <1>2 DEF Announces, Clock, Main
  <2> QED
    BY <1>1, <1>2, <2>1, CallWakes, CountTypes DEF AnnounceLabels
<1>4. BroadcastsOK'
  <2>1. ~Stopped
    BY <1>2, CountTypes DEF StopOK
  <2> QED
    BY <1>1, <1>3, <2>1, StopBroadcasts
<1> QED
  BY <1>2, <1>3, <1>4, OtherSignals, Constants

LEMMA ClockStopBroadcastKeeps ==
    ASSUME WakeInv, ClockStopBroadcast
    PROVE  WakeOK' /\ LibraryOK' /\ BroadcastsOK' /\ \A n \in Nodes : SignalsOK(n)'
<1>1. /\ Go(Main, "stop_broadcast", "join") /\ Notify(Main, Clock, "broadcast_requeue")
      /\ UNCHANGED <<ticks, ready, i, bit, running>>
  BY DEF ClockStopBroadcast, CondBroadcast
<1>2. /\ pc[Main] = "stop_broadcast" /\ pc'[Main] = "join" /\ op[Main] = "idle"
      /\ Alone(Main) /\ Main \in Threads
  BY <1>1, GoFacts, GoAlone, Constants
<1>3. Main \in Broadcasters
  <2>1. Stopped
    BY <1>2, CountTypes DEF StopOK
  <2> QED
    BY <1>2, <2>1 DEF Broadcasters, Late
<1>4. NextSeq(seq[Clock]) = seq[Clock] + 1
  BY <1>3, ClockRoom
<1>5. /\ LibraryOK' /\ WakeOK'
      /\ seq'[Clock] = seq[Clock] + 1 /\ \A k \in Mutexes : k # Clock => seq'[k] = seq[k]
  <2>1. \A k \in Mutexes : Announces(Main, k) => k = Clock
    BY <1>2 DEF Announces
  <2> QED
    BY <1>1, <1>2, <1>4, <2>1, NotifyWakes, CountTypes
<1>6. BroadcastsOK'
  BY <1>1, <1>2, <1>3, <1>5, BroadcastMoves
<1>7. \A n \in Nodes : n \in Mutexes /\ n # Clock
  BY CountTypes, Constants DEF Clock, Main
<1> QED
  BY <1>2, <1>5, <1>6, <1>7, OtherSignals, Constants

LEMMA JoinKeeps ==
    ASSUME WakeInv, Join
    PROVE  WakeOK' /\ LibraryOK' /\ BroadcastsOK' /\ \A n \in Nodes : SignalsOK(n)'
<1>1. /\ Go(Main, "join", "done") /\ UNCHANGED <<monitorVars, ticks, ready, i, bit, running>>
  BY DEF Join
<1>2. /\ pc[Main] = "join" /\ pc'[Main] = "done" /\ op[Main] = "idle"
      /\ Alone(Main) /\ Main \in Threads /\ Main \notin Nodes
  BY <1>1, GoFacts, GoAlone, Constants
<1>3. LibraryOK' /\ WakeOK' /\ seq' = seq
  BY <1>1, <1>2, OutsideWakes, CountTypes DEF AnnounceLabels
<1>4. BroadcastsOK' /\ \A n \in Nodes : SignalsOK(n)'
  BY <1>1, <1>2, <1>3, LineKeeps DEF Late
<1> QED
  BY <1>3, <1>4

LEMMA NodeWaitReturnKeeps ==
    ASSUME WakeInv, NEW t \in Nodes, NodeWaitReturn(t)
    PROVE  WakeOK' /\ LibraryOK' /\ BroadcastsOK' /\ \A n \in Nodes : SignalsOK(n)'
<1>1. /\ Go(t, "parent_test", Work(t)) /\ Unlock(t, t - 1)
      /\ ready' = [ready EXCEPT ![t - 1] = FALSE] /\ UNCHANGED <<ticks, i, bit, running>>
  BY DEF NodeWaitReturn, Consumed
<1>2. /\ pc[t] = "parent_test" /\ pc'[t] = Work(t) /\ op[t] = "idle" /\ Alone(t)
      /\ t \in Threads
  BY <1>1, GoFacts, GoAlone, Constants
<1>3. t - 1 \in Mutexes
  <2>1. t # 0
    BY <1>2, CountTypes DEF GraphTypeOK, ParentLabels
  <2> QED
    BY <2>1, CountTypes, Constants
<1>4. LibraryOK' /\ WakeOK' /\ seq' = seq
  <2>1. \A n \in Nodes : ready'[n] => ready[n]
    BY <1>1, CountTypes DEF GraphTypeOK
  <2> QED
    BY <1>1, <1>2, <1>3, <2>1, CallWakes, CountTypes DEF AnnounceLabels
<1>5. BroadcastsOK' /\ \A n \in Nodes : SignalsOK(n)'
  BY <1>1, <1>2, <1>4, LineKeeps DEF Late, Work
<1> QED
  BY <1>4, <1>5

LEMMA NodeSignalSetKeeps ==
    ASSUME WakeInv, NEW t \in Nodes, NodeSignalSet(t)
    PROVE  WakeOK' /\ LibraryOK' /\ BroadcastsOK' /\ \A n \in Nodes : SignalsOK(n)'
<1>1. /\ Go(t, "signal_set", "signal_cond") /\ Unlock(t, t)
      /\ ready' = [ready EXCEPT ![t] = TRUE] /\ UNCHANGED <<ticks, i, bit, running>>
  BY DEF NodeSignalSet
<1>2. /\ pc[t] = "signal_set" /\ pc'[t] = "signal_cond" /\ op[t] = "idle" /\ Alone(t)
      /\ t \in Threads
  BY <1>1, GoFacts, GoAlone, Constants
<1>3. LibraryOK' /\ WakeOK' /\ seq' = seq
  <2>1. \A n \in Nodes : ready'[n] /\ ~ready[n] => n = t
    BY <1>1, CountTypes DEF GraphTypeOK
  <2>2. Announces(t, t)'
    BY <1>2 DEF Announces
  <2> QED
    BY <1>1, <1>2, <2>1, <2>2, CallWakes, CountTypes DEF AnnounceLabels
<1>4. BroadcastsOK' /\ \A n \in Nodes : SignalsOK(n)'
  BY <1>1, <1>2, <1>3, LineKeeps DEF Late
<1> QED
  BY <1>3, <1>4

LEMMA NodeSignalCondKeeps ==
    ASSUME WakeInv, NEW t \in Nodes, NodeSignalCond(t)
    PROVE  WakeOK' /\ LibraryOK' /\ BroadcastsOK' /\ \A n \in Nodes : SignalsOK(n)'
<1>1. /\ Go(t, "signal_cond", IF running[t] THEN "wait_lock" ELSE "done")
      /\ Notify(t, t, "signal_wake")
      /\ IF running[t] THEN NextIteration(t) ELSE UNCHANGED <<i, bit>>
      /\ UNCHANGED <<ticks, ready, running>>
  BY DEF NodeSignalCond, CondSignal
<1>2. /\ pc[t] = "signal_cond" /\ pc'[t] = IF running[t] THEN "wait_lock" ELSE "done"
      /\ op[t] = "idle" /\ t \in Threads
      /\ \A u \in Threads : u # t => pc'[u] = pc[u]
  BY <1>1, GoFacts, Constants
<1>3. /\ \A n \in Nodes : n # t => i'[n] = i[n] /\ bit'[n] = bit[n]
      /\ i'[t] = IF running[t] THEN i[t] + 1 ELSE i[t]
  BY <1>1, CountTypes DEF GraphTypeOK, NextIteration
<1>4. Alone(t)
  BY <1>1, <1>2, <1>3 DEF Alone
<1>5. NextSeq(seq[t]) = seq[t] + 1 /\ t \in Mutexes /\ t # Clock
  BY <1>2, NodeRoom, CountTypes, Constants DEF Clock, Main
<1>6. /\ LibraryOK' /\ WakeOK'
      /\ seq'[t] = seq[t] + 1 /\ \A k \in Mutexes : k # t => seq'[k] = seq[k]
  <2>1. \A k \in Mutexes : Announces(t, k) => k = t
    BY <1>2 DEF Announces
  <2> QED
    BY <1>1, <1>2, <1>4, <1>5, <2>1, NotifyWakes, CountTypes
<1>7. BroadcastsOK'
  <2>1. seq'[Clock] = seq[Clock] /\ pc'[t] \notin Late /\ pc'[t] # "tick_broadcast"
    BY <1>2, <1>5, <1>6, CountTypes DEF Late
  <2> QED
    BY <1>1, <1>2, <1>4, <2>1, BroadcastsKept
<1>8. SignalsOK(t)'
  <2>1. SignalsOK(t) /\ i[t] \in Nat /\ seq[t] \in Nat
    BY <1>5, CountTypes DEF WakeInv, GraphTypeOK
  <2>2. running[t] => i[t] <= LastTick
    BY <1>2, <2>1 DEF SignalsOK
  <2> QED
    BY <1>1, <1>2, <1>3, <1>6, <2>1, <2>2, CountTypes DEF SignalsOK, Late
<1> QED
  BY <1>2, <1>4, <1>6, <1>7, <1>8, OtherSignals, CountTypes

-----------------------------------------------------------------------------
(* The theorem *)

LEMMA WakeInit == Init => WakeInv
<1> SUFFICES ASSUME Init PROVE WakeInv
  OBVIOUS
<1>1. /\ queue = [w \in Words |-> {}] /\ op = [t \in Threads |-> "idle"]
      /\ ret = [t \in Threads |-> "idle"] /\ seq = [m \in Mutexes |-> 0]
      /\ seen = [t \in Threads |-> 0] /\ arg \in [Threads -> Mutexes]
      /\ pc = [t \in Threads |-> IF t = Main THEN "tick_lock" ELSE "wait_lock"]
      /\ ticks = 0 /\ i = [n \in Nodes |-> 1] /\ running = [n \in Nodes |-> TRUE]
  BY DEF Init, MonitorInit, MutexInit, FutexInit
<1>2. GraphInv
  BY GraphInit
<1>3. \A t \in Threads : op[t] = "idle"
  BY <1>1
<1>4. \A m \in Mutexes : queue[SeqWord(m)] = {}
  BY <1>1, TwoWords
<1>5. LibraryOK
  <2>1. \A t \in Threads : Placed(t)
    BY <1>3 DEF Placed, Waiting, Loaded, LockOps, UnlockOps
  <2> QED
    BY <1>1, <1>4, <2>1 DEF LibraryOK, LibraryOps
<1>6. WakeOK
  BY <1>3, <1>4 DEF WakeOK, Loaded, UnlockOps
<1>7. BroadcastsOK
  <2>1. Broadcasters = {}
    <3>1. ~Stopped
      BY <1>1 DEF Stopped
    <3>2. \A t \in Threads : pc[t] # "tick_broadcast"
      BY <1>1
    <3> QED
      BY <3>1, <3>2 DEF Broadcasters
  <2>2. Cardinality(Broadcasters) = 0
    BY <2>1, FS_EmptySet
  <2>3. seq[Clock] = 0
    BY <1>1, GraphAssumption
  <2> QED
    BY <1>1, <2>2, <2>3 DEF BroadcastsOK, Stopped
<1>8. ASSUME NEW n \in Nodes PROVE SignalsOK(n)
  <2>1. pc[n] = "wait_lock" /\ i[n] = 1 /\ seq[n] = 0
    BY <1>1, Constants, GraphAssumption
  <2>2. 1 <= LastTick + 1
    BY Constants, PowersOfTwo DEF LastTick
  <2> QED
    BY <2>1, <2>2 DEF SignalsOK, Late
<1> QED
  BY <1>2, <1>5, <1>6, <1>7, <1>8 DEF WakeInv

LEMMA WakeNext ==
    ASSUME WakeInv, [Next]_vars
    PROVE  WakeInv'
<1>1. GraphInv'
  BY GraphNext DEF WakeInv
<1> DEFINE Kept == WakeOK' /\ LibraryOK' /\ BroadcastsOK' /\ \A n \in Nodes : SignalsOK(n)'
<1>2. ASSUME NEW t \in Threads, LibraryOK', WakeOK', seq' = seq, UNCHANGED graphVars
      PROVE  Kept
  <2>1. pc' = pc /\ i' = i /\ ticks' = ticks /\ running' = running
    BY <1>2 DEF graphVars
  <2>2. BroadcastsOK'
    <3>1. Broadcasters' = Broadcasters /\ (Stopped' <=> Stopped)
      BY <2>1 DEF Broadcasters, Stopped
    <3> QED
      BY <1>2, <2>1, <3>1, CountTypes DEF WakeInv, BroadcastsOK
  <2>3. \A n \in Nodes : SignalsOK(n)'
    BY <1>2, <2>1, CountTypes DEF WakeInv, SignalsOK
  <2> QED
    BY <1>2, <2>2, <2>3
<1>3. ASSUME UNCHANGED vars PROVE Kept
  <2>1. /\ UNCHANGED <<queue, seq, seen, op, ret, arg, pc, i, ticks, ready>>
        /\ UNCHANGED graphVars
    BY <1>3 DEF vars, monitorVars, mutexVars, condVars, graphVars
  <2> QED
    BY <1>2, <2>1, WakeSame, CountTypes, Constants
<1>4. ASSUME NEW t \in Threads, ClockStep(t) PROVE Kept
  <2>1. CASE ClockWaitLock(t)
    BY <2>1, LockSteps, CountTypes DEF ClockWaitLock
  <2>2. CASE ClockWaitAgain(t)
    BY <2>2, WaitSteps, CountTypes DEF ClockWaitAgain
  <2>3. CASE ClockTickLock(t)
    BY <2>3, LockSteps, CountTypes DEF ClockTickLock
  <2> QED
    BY <1>4, <2>1, <2>2, <2>3, ClockWaitReturnKeeps, ClockTickAddKeeps, ClockTickBroadcastKeeps
       DEF ClockStep
<1>5. ASSUME NEW t \in Nodes, NodeStep(t) PROVE Kept
  <2>0. /\ t \in Threads /\ t \in Mutexes
        /\ pc[t] \in ParentLabels => t \in Nodes \ {0} /\ t - 1 \in Mutexes
    BY CountTypes, Constants DEF GraphTypeOK
  <2>1. CASE NodeWaitLock(t)
    <3>1. t - 1 \in Mutexes
      BY <2>0, <2>1 DEF NodeWaitLock, Go, ParentLabels
    <3> QED
      BY <2>0, <2>1, <3>1, LockSteps DEF NodeWaitLock
  <2>2. CASE NodeWaitAgain(t)
    <3>1. t \in Nodes \ {0} /\ t - 1 \in Mutexes
      BY <2>0, <2>2 DEF NodeWaitAgain, Go, ParentLabels
    <3> QED
      BY <2>0, <2>2, <3>1, WaitSteps DEF NodeWaitAgain
  <2>3. CASE NodeSignalLock(t)
    BY <2>0, <2>3, LockSteps DEF NodeSignalLock
  <2> QED
    BY <1>5, <2>1, <2>2, <2>3, NodeWaitReturnKeeps, NodeSignalSetKeeps, NodeSignalCondKeeps
       DEF NodeStep
<1>6. ASSUME MainStep PROVE Kept
  <2>1. CASE ClockStopLock
    BY <2>1, LockSteps, CountTypes, Constants DEF ClockStopLock
  <2> QED
    BY <1>6, <2>1, ClockStopSetKeeps, ClockStopBroadcastKeeps, JoinKeeps DEF MainStep
<1>7. ASSUME NEW t \in Threads, LibraryStep(t), UNCHANGED graphVars PROVE Kept
  BY <1>2, <1>7, LibraryStepWakes, CountTypes
<1>8. Kept
  BY <1>3, <1>4, <1>5, <1>6, <1>7 DEF Next, ThreadStep, Ended
<1> QED
  BY <1>1, <1>8 DEF WakeInv

\* In every state a thread in cond_wait either waits for what has not happened,
\* or will see the counter move, or is going to be woken.
THEOREM WakeInvariant == Spec => []WakeInv
<1>1. Init => WakeInv
  BY WakeInit
<1>2. WakeInv /\ [Next]_vars => WakeInv'
  BY WakeNext
<1> QED
  BY <1>1, <1>2, PTL DEF Spec

\* No thread sleeps on a condition variable of main.c although what it waits for
\* has happened, unless somebody is going to notify (clock_tick, clock_stop and
\* node_signal notify after they have unlocked).
THEOREM NoLostWakeupAlways == Spec => []NoLostWakeup
<1>1. WakeInv => NoLostWakeup
  <2> SUFFICES ASSUME WakeInv PROVE NoLostWakeup
    OBVIOUS
  <2>1. /\ LibraryOK /\ WakeOK /\ Clock \in Mutexes /\ Nodes \subseteq Mutexes
    BY CountTypes
  <2>2. \A u \in Threads : \A m \in Mutexes :
            Announces(u, m) \/ Sends(u, m) => WillNotify(u, m)
    BY DEF Announces, Sends, WillNotify
  <2>3. ASSUME NEW t \in queue[SeqWord(Clock)]
        PROVE  MustWait(t) \/ \E u \in Threads : WillNotify(u, Clock)
    <3>1. arg[t] = Clock
      BY <2>1, <2>3 DEF LibraryOK
    <3>2. Waits(t) \/ \E u \in Threads : Announces(u, Clock) \/ Sends(u, Clock)
      BY <2>1, <2>3 DEF WakeOK
    <3> QED
      BY <2>1, <2>2, <3>1, <3>2 DEF Waits
  <2>4. ASSUME NEW n \in Nodes, queue[SeqWord(n)] # {}, ready[n]
        PROVE  \E u \in Threads : WillNotify(u, n)
    <3>1. PICK t \in queue[SeqWord(n)] : TRUE
      BY <2>4
    <3>2. n \in Mutexes /\ n # Clock
      BY <2>1, Constants DEF Clock, Main
    <3>3. arg[t] = n
      BY <2>1, <3>2 DEF LibraryOK
    <3>4. Waits(t) \/ \E u \in Threads : Announces(u, n) \/ Sends(u, n)
      BY <2>1, <3>2 DEF WakeOK
    <3> QED
      BY <2>2, <2>4, <3>2, <3>3, <3>4 DEF Waits
  <2> QED
    BY <2>3, <2>4 DEF NoLostWakeup
<1> QED
  BY <1>1, WakeInvariant, PTL
=============================================================================
