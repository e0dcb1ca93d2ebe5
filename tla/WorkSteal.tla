----------------------------- MODULE WorkSteal -----------------------------
(***************************************************************************)
(* quiz2/test1/work-steal.c: the scheduler on top of the deques.  Each of  *)
(* N_THREADS threads runs the tasks of its own queue and then steals from  *)
(* the others, until the task that is run last sets `done'.  The deques    *)
(* are those of AbstractDeque, which Deque is shown to implement; take is  *)
(* one step here because it is exact, steal is two.                        *)
(*                                                                         *)
(* main fills the queues before it creates the threads, and no task pushes *)
(* another: the initial state is the one in which the threads start.       *)
(***************************************************************************)
EXTENDS AbstractDeque, FiniteSets

CONSTANTS
    N_THREADS,     \* 24 in the code
    nprints,       \* tasks per queue, 10 in the code
    DoneWork,      \* the work item whose code is done_task
    NULL

ASSUME WorkStealAssumption ==
    /\ N_THREADS \in Nat \ {0}
    /\ nprints \in Nat \ {0}
    /\ Threads = 0 .. N_THREADS - 1
    /\ Queues = Threads
    /\ Items = Queues \X (1 .. nprints)
    /\ \A q \in Queues : Owner(q) = q
    /\ {DoneWork, NULL, EMPTY, ABORT} \cap Items = {}
    /\ EMPTY # ABORT

VARIABLES
    pc,            \* pc[t]: where t is in thread()
    i,             \* i[t]: the queue it looks at in the stealing loop
    work,          \* work[t]: the work item in hand
    join_count,    \* done_work->join_count
    done,          \* the flag
    ran,           \* history: ran[w]: how many times w was executed
    freed          \* work items given to free()

vars == <<dequeVars, pc, i, work, join_count, done, ran, freed>>

Works == Items \cup {DoneWork}

\* Mutant of InitialCount: the count covers the tasks of one queue only.
InitialCountOfOne == nprints

InitialCount == N_THREADS * nprints

Init ==
    /\ items = [q \in Queues |-> [j \in 1 .. nprints |-> <<q, j>>]]
    /\ heads = [q \in Queues |-> 0]
    /\ seen = [t \in Threads |-> 0]
    /\ result = [t \in Threads |-> EMPTY]
    /\ pc = [t \in Threads |-> "take"]
    /\ i = [t \in Threads |-> 0]
    /\ work = [t \in Threads |-> NULL]
    /\ join_count = InitialCount
    /\ done = FALSE
    /\ ran = [w \in Works |-> 0]
    /\ freed = {}

-----------------------------------------------------------------------------
(* thread *)

Goto(t, p) == pc' = [pc EXCEPT ![t] = p]

\* t has found work, which is the result of its take or steal.
Found(t) ==
    /\ Goto(t, "run")
    /\ work' = [work EXCEPT ![t] = result'[t]]

TakeOwn(t) ==
    /\ pc[t] = "take"
    /\ Take(t, t)
    /\ IF result'[t] = EMPTY
         THEN Goto(t, "scan") /\ UNCHANGED work
         ELSE Found(t)
    /\ i' = [i EXCEPT ![t] = 0]
    /\ UNCHANGED <<join_count, done, ran, freed>>

\* The head of the for loop: skip the own queue, begin to steal, or give up.
ScanNext(t) ==
    /\ pc[t] = "scan"
    /\ \/ /\ i[t] = t
          /\ i' = [i EXCEPT ![t] = @ + 1]
          /\ UNCHANGED <<pc, dequeVars>>
       \/ /\ i[t] # t /\ i[t] < N_THREADS
          /\ StealBegin(t, i[t])
          /\ Goto(t, "steal")
          /\ UNCHANGED i
       \/ /\ i[t] = N_THREADS
          /\ Goto(t, "check")
          /\ UNCHANGED <<i, dequeVars>>
    /\ UNCHANGED <<work, join_count, done, ran, freed>>

\* Mutant of NextQueue: an empty queue is tried again, like an aborted steal.
NextQueueSame(q, r) == q

\* The queue to look at after a steal at q that returned r: an aborted one is
\* tried again at the same queue.
NextQueue(q, r) == IF r = EMPTY THEN q + 1 ELSE q

StealOther(t) ==
    /\ pc[t] = "steal"
    /\ StealEnd(t, i[t])
    /\ i' = [i EXCEPT ![t] = NextQueue(@, result'[t])]
    /\ \/ result'[t] \in {EMPTY, ABORT} /\ Goto(t, "scan") /\ UNCHANGED work
       \/ result'[t] \notin {EMPTY, ABORT} /\ Found(t)
    /\ UNCHANGED <<join_count, done, ran, freed>>

CheckDone(t) ==
    /\ pc[t] = "check"
    /\ Goto(t, IF done THEN "end" ELSE "take")
    /\ UNCHANGED <<dequeVars, i, work, join_count, done, ran, freed>>

-----------------------------------------------------------------------------
(* do_work: print_task, join_work and done_task *)

\* print_task prints and frees its work item and goes on to join_work;
\* done_task frees its own and goes on to set the flag.
RunTask(t) ==
    LET w == work[t]
    IN  /\ pc[t] = "run"
        /\ ran' = [ran EXCEPT ![w] = @ + 1]
        /\ freed' = freed \cup {w}
        /\ Goto(t, IF w = DoneWork THEN "set_done" ELSE "join")
        /\ UNCHANGED <<dequeVars, i, work, join_count, done>>

\* Mutant of IsLast: the last two threads both see the end of the count.
IsLastTwice(count) == count <= 2

\* Mutant of IsLast: the new count is taken for the old one.
IsLastEarly(count) == count = 2

\* fetch_sub returned the count before it.
IsLast(count) == count = 1

\* The thread that brings the count to zero gets the continuation to run.
JoinWork(t) ==
    /\ pc[t] = "join"
    /\ join_count' = join_count - 1
    /\ \/ IsLast(join_count) /\ work' = [work EXCEPT ![t] = DoneWork] /\ Goto(t, "run")
       \/ ~IsLast(join_count) /\ work' = [work EXCEPT ![t] = NULL] /\ Goto(t, "take")
    /\ UNCHANGED <<dequeVars, i, done, ran, freed>>

SetDone(t) ==
    /\ pc[t] = "set_done"
    /\ done' = TRUE
    /\ work' = [work EXCEPT ![t] = NULL]
    /\ Goto(t, "take")
    /\ UNCHANGED <<dequeVars, i, join_count, ran, freed>>

-----------------------------------------------------------------------------
ThreadStep(t) ==
    \/ TakeOwn(t) \/ ScanNext(t) \/ StealOther(t) \/ CheckDone(t)
    \/ RunTask(t) \/ JoinWork(t) \/ SetDone(t)

\* main has joined every thread.
Ended == (\A t \in Threads : pc[t] = "end") /\ UNCHANGED vars

Next == Ended \/ \E t \in Threads : ThreadStep(t)

\* The threads are scheduled again and again.
Spec == Init /\ [][Next]_vars /\ \A t \in Threads : WF_vars(ThreadStep(t))

-----------------------------------------------------------------------------
\* No work item is executed twice, nor is it freed twice, whoever takes or
\* steals it.
RunsAtMostOnce == \A w \in Works : ran[w] <= 1

\* The count of the continuation is the number of tasks that have not been
\* joined, wherever they are: in a queue, or in the hands of a thread.
Queued == {w \in Items : \E q \in Queues : w \in Range(items[q])}
InHand(t) == work[t] \in Items /\ pc[t] \in {"run", "join"}
Holders == {t \in Threads : InHand(t)}

CountIsOutstanding == join_count = Cardinality(Queued) + Cardinality(Holders)

\* The continuation is still allocated whenever a thread is about to use it.
NoUseAfterFree ==
    \A t \in Threads :
        /\ pc[t] = "join" => DoneWork \notin freed
        /\ pc[t] = "run" => work[t] \notin freed

\* All threads end, and all tasks, the continuation included, are done then:
\* the last task is found and run by somebody, although no thread sees all
\* queues empty at one moment, and the retries after ABORT do not go on for ever.
Termination ==
    <>(/\ \A t \in Threads : pc[t] = "end"
       /\ \A w \in Works : ran[w] = 1)
=============================================================================
