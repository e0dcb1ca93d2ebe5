----------------------------- MODULE QsortPool -----------------------------
(***************************************************************************)
(* qsort_mt.c: a pool of threads that sort pieces of one array and hand    *)
(* pieces to each other.                                                   *)
(*                                                                         *)
(* A pass of qsort_algo over its piece is one step: the pieces of          *)
(* different threads do not overlap (PiecesDisjoint).  The mutexes are     *)
(* abstract (module Lock): they are taken in a step that finds them free.  *)
(* What a thread does while it holds mtx_st and calls nothing that blocks  *)
(* is one step with the acquisition and the release.  A thread that waits  *)
(* for its condition variable is "asleep" until it is signalled, or for no *)
(* reason at all.                                                          *)
(***************************************************************************)
EXTENDS Qsort

CONSTANTS
    Calls,      \* the arguments [a, maxthreads, forkelem] of qsort_mt
    NULL

ASSUME PoolAssumption ==
    /\ Calls \subseteq [a : Seq(Elements), maxthreads : Nat \ {0}, forkelem : Nat \ {0}]
    /\ NULL \notin Nat

VARIABLES
    call,     \* the arguments of qsort_mt
    main,     \* main.at: where qsort_mt is; main.i: its loop counter
    bailout,
    arr,      \* the array
    idle,     \* c.idlethreads
    mtx_al,   \* the owner of c.mtx_al, or NULL
    mtx_st,   \* mtx_st[i]: the owner of pool[i].mtx_st, or NULL
    st,       \* pool[i].st
    pc,       \* pc[i]: where thread i is; "none" before it is created
    todo,     \* todo[i]: the pieces thread i has to sort, the current one first
    other     \* other[i]: the thread that i deals with (qs2)

vars == <<call, main, bailout, arr, idle, mtx_al, mtx_st, st, pc, todo, other>>

Pool == 0 .. call.maxthreads - 1
Created == {i \in Pool : pc[i] # "none"}

\* A piece: where it begins and how many elements it has.
Piece(a, n) == IF n > 0 THEN <<[a |-> a, n |-> n]>> ELSE <<>>
Positions(p) == p.a .. p.a + p.n - 1
Input == Piece(1, Len(call.a))

Init ==
    /\ call \in Calls
    /\ main = [at |-> IF Len(call.a) < call.forkelem THEN "libc" ELSE "create", i |-> 0]
    /\ bailout = TRUE
    /\ arr = call.a
    /\ idle = 0
    /\ mtx_al = NULL
    /\ mtx_st = [i \in Pool |-> NULL]
    /\ st = [i \in Pool |-> "idle"]
    /\ pc = [i \in Pool |-> "none"]
    /\ todo = [i \in Pool |-> <<>>]
    /\ other = [i \in Pool |-> 0]

\* Mutant of AfterWait: an if instead of the while around cond_wait.
AfterWaitUnchecked == "check"

\* Where a thread goes on after cond_wait.
AfterWait == "lock"

\* cond_signal on pool[j].cond_st: only thread j waits there.  Thread i goes on
\* at l.
SignalAndGo(j, i, l) ==
    pc' = [pc EXCEPT ![j] = IF @ = "asleep" THEN AfterWait ELSE @, ![i] = l]

\* Mutant of Signal: nobody is woken.
SignalNobody(j) == UNCHANGED pc

Signal(j) ==
    pc' = [pc EXCEPT ![j] = IF @ = "asleep" THEN AfterWait ELSE @]

-----------------------------------------------------------------------------
(* qsort_mt *)

Create ==
    /\ main.at = "create" /\ main.i < call.maxthreads
    /\ main' = [main EXCEPT !.i = @ + 1]
    /\ pc' = [pc EXCEPT ![main.i] = "lock"]
    /\ UNCHANGED <<call, bailout, arr, idle, mtx_al, mtx_st, st, todo, other>>

CreateFails ==
    /\ main.at = "create" /\ main.i < call.maxthreads
    /\ main' = [at |-> "tell", i |-> 0]
    /\ UNCHANGED <<call, bailout, arr, idle, mtx_al, mtx_st, st, pc, todo, other>>

\* All threads are there: the whole array goes to the first one.
HandOut ==
    /\ main.at = "create" /\ main.i = call.maxthreads
    /\ mtx_st[0] = NULL
    /\ bailout' = FALSE
    /\ idle' = call.maxthreads - 1
    /\ todo' = [todo EXCEPT ![0] = Input]
    /\ st' = [st EXCEPT ![0] = "work"]
    /\ Signal(0)
    /\ main' = [at |-> "join", i |-> 0]
    /\ UNCHANGED <<call, arr, mtx_al, mtx_st, other>>

\* After a failure the threads that were created are told to end.
Tell ==
    /\ main.at = "tell" /\ main.i \in Created
    /\ mtx_st[main.i] = NULL
    /\ st' = [st EXCEPT ![main.i] = "term"]
    /\ Signal(main.i)
    /\ main' = [main EXCEPT !.at = "join"]
    /\ UNCHANGED <<call, bailout, arr, idle, mtx_al, mtx_st, todo, other>>

\* Mutant of Gone: after a failure the threads are not waited for.
GoneOrFailed(k) == bailout \/ pc[k] = "ended"

\* pthread_join of thread k returns.
Gone(k) == pc[k] = "ended"

Join ==
    /\ main.at = "join" /\ main.i \in Created
    /\ Gone(main.i)
    /\ main' = [at |-> IF bailout THEN "tell" ELSE "join", i |-> main.i + 1]
    /\ UNCHANGED <<call, bailout, arr, idle, mtx_al, mtx_st, st, pc, todo, other>>

\* The pool is freed.
Free ==
    /\ main.at \in {"tell", "join"} /\ main.i \notin Created
    /\ main' = [main EXCEPT !.at = IF bailout THEN "libc" ELSE "returned"]
    /\ UNCHANGED <<call, bailout, arr, idle, mtx_al, mtx_st, st, pc, todo, other>>

\* qsort of the C library sorts a short array, or after a failure.
Libc ==
    /\ main.at = "libc"
    /\ arr' = SortedBy(arr, LAMBDA x, y : num_compare(x, y) < 0)
    /\ main' = [main EXCEPT !.at = "returned"]
    /\ UNCHANGED <<call, bailout, idle, mtx_al, mtx_st, st, pc, todo, other>>

MainStep == Create \/ CreateFails \/ HandOut \/ Tell \/ Join \/ Free \/ Libc

-----------------------------------------------------------------------------
(* qsort_thread and allocate_thread *)

\* Under mtx_st: sleep while there is nothing to do.
WaitForWork(i) ==
    /\ pc[i] = "lock"
    /\ mtx_st[i] = NULL
    /\ pc' = [pc EXCEPT ![i] = IF st[i] = "idle" THEN "asleep" ELSE "check"]
    /\ UNCHANGED <<call, main, bailout, arr, idle, mtx_al, mtx_st, st, todo, other>>

\* cond_wait may return without a signal: the loop around it tests again.
SpuriousReturn(i) ==
    /\ pc[i] = "asleep"
    /\ pc' = [pc EXCEPT ![i] = AfterWait]
    /\ UNCHANGED <<call, main, bailout, arr, idle, mtx_al, mtx_st, st, todo, other>>

\* The state is read again without the mutex.
CheckState(i) ==
    /\ pc[i] = "check"
    /\ pc' = [pc EXCEPT ![i] = IF st[i] = "term" THEN "ended" ELSE "algo"]
    /\ UNCHANGED <<call, main, bailout, arr, idle, mtx_al, mtx_st, st, todo, other>>

\* One pass over the current piece.  Of the two new pieces the left one may
\* be for another thread if both are large enough; else both are sorted here.
Algo(i) ==
    LET p == Head(todo[i])
    IN  /\ pc[i] = "algo"
        /\ \E s \in {Pass(arr, p.a, p.n)} :
              LET rest == Piece(p.a, s.nl) \o Piece(p.a + p.n - s.nr, s.nr)
                              \o Tail(todo[i])
              IN  /\ arr' = s.arr
                  /\ todo' = [todo EXCEPT ![i] = rest]
                  /\ pc' = [pc EXCEPT ![i] =
                               IF s.nl > call.forkelem /\ s.nr > call.forkelem
                                 THEN "allocate"
                               ELSE IF rest = <<>> THEN "finish" ELSE "algo"]
        /\ UNCHANGED <<call, main, bailout, idle, mtx_al, mtx_st, st, other>>

Idle == {j \in Pool : st[j] = "idle"}

\* Mutant of Allocated: the count is not kept.
AllocatedSame(count) == count

\* idlethreads after a thread has been found.
Allocated(count) == count - 1

\* allocate_thread: the first idle thread, found under mtx_al, which everybody
\* holds who changes a state while there is work.  Without one the left piece is
\* sorted here.
AllocateThread(i) ==
    /\ pc[i] = "allocate"
    /\ mtx_al = NULL
    /\ IF Idle = {}
         THEN /\ pc' = [pc EXCEPT ![i] = "algo"]
              /\ UNCHANGED <<idle, mtx_al, other>>
         ELSE /\ pc' = [pc EXCEPT ![i] = "claim"]
              /\ other' = [other EXCEPT ![i] = Min(Idle)]
              /\ mtx_al' = i
              /\ idle' = Allocated(idle)
    /\ UNCHANGED <<call, main, bailout, arr, mtx_st, st, todo>>

\* allocate_thread goes on: it returns with the mutex of the thread it found.
ClaimThread(i) ==
    LET j == other[i]
    IN  /\ pc[i] = "claim"
        /\ mtx_st[j] = NULL
        /\ mtx_st' = [mtx_st EXCEPT ![j] = i]
        /\ st' = [st EXCEPT ![j] = "work"]
        /\ mtx_al' = NULL
        /\ pc' = [pc EXCEPT ![i] = "hand"]
        /\ UNCHANGED <<call, main, bailout, arr, idle, todo, other>>

\* Mutant of Kept: the piece is handed over and sorted here too.
KeptAll(pieces) == pieces

\* What stays with the thread that hands over its first piece.
Kept(pieces) == Tail(pieces)

\* The left piece is for thread j.
HandOver(i) ==
    LET j == other[i]
    IN  /\ pc[i] = "hand"
        /\ todo' = [todo EXCEPT ![j] = <<Head(todo[i])>>, ![i] = Kept(@)]
        /\ mtx_st' = [mtx_st EXCEPT ![j] = NULL]
        /\ SignalAndGo(j, i, "algo")
        /\ UNCHANGED <<call, main, bailout, arr, idle, mtx_al, st, other>>

\* Under mtx_al: the last thread to become idle keeps it and ends the others.
Finish(i) ==
    /\ pc[i] = "finish"
    /\ mtx_al = NULL
    /\ st' = [st EXCEPT ![i] = "idle"]
    /\ idle' = idle + 1
    /\ IF idle' = call.maxthreads
         THEN /\ mtx_al' = i
              /\ other' = [other EXCEPT ![i] = 0]
              /\ pc' = [pc EXCEPT ![i] = "terminate"]
         ELSE /\ pc' = [pc EXCEPT ![i] = "lock"]
              /\ UNCHANGED <<mtx_al, other>>
    /\ UNCHANGED <<call, main, bailout, arr, mtx_st, todo>>

Terminate(i) ==
    LET j == other[i]
    IN  /\ pc[i] = "terminate"
        /\ j \in Pool
        /\ other' = [other EXCEPT ![i] = j + 1]
        /\ IF j = i
             THEN UNCHANGED <<st, pc>>
             ELSE /\ mtx_st[j] = NULL
                  /\ st' = [st EXCEPT ![j] = "term"]
                  /\ Signal(j)
        /\ UNCHANGED <<call, main, bailout, arr, idle, mtx_al, mtx_st, todo>>

TerminateEnd(i) ==
    /\ pc[i] = "terminate"
    /\ other[i] \notin Pool
    /\ mtx_al' = NULL
    /\ pc' = [pc EXCEPT ![i] = "ended"]
    /\ UNCHANGED <<call, main, bailout, arr, idle, mtx_st, st, todo, other>>

ThreadStep(i) ==
    \/ WaitForWork(i) \/ CheckState(i) \/ Algo(i)
    \/ AllocateThread(i) \/ ClaimThread(i) \/ HandOver(i)
    \/ Finish(i) \/ Terminate(i) \/ TerminateEnd(i)

Ended == main.at = "returned" /\ UNCHANGED vars

Next ==
    \/ MainStep
    \/ \E i \in Pool : ThreadStep(i) \/ SpuriousReturn(i)
    \/ Ended

\* Every thread that can go on does.
Threads == UNION {0 .. c.maxthreads - 1 : c \in Calls}
Fairness ==
    /\ WF_vars(MainStep)
    /\ \A i \in Threads : WF_vars(i \in Pool /\ ThreadStep(i))

Spec == Init /\ [][Next]_vars /\ Fairness

-----------------------------------------------------------------------------
(* Properties *)

\* A thread that stops waiting was given work or told to end, as the assertion
\* in qsort_thread says, although the state is read again without the mutex;
\* and a thread that works has a piece, inside the array.
WokenForAReason ==
    \A i \in Pool :
        /\ pc[i] = "check" => st[i] # "idle"
        /\ pc[i] \in {"algo", "allocate", "claim", "hand"} => todo[i] # <<>>
        /\ \A k \in DOMAIN todo[i] :
              todo[i][k].n > 0 /\ Positions(todo[i][k]) \subseteq DOMAIN arr

\* No element is in two pieces, of one thread or of two: threads that sort
\* without a lock never touch the same element.
PiecesDisjoint ==
    \A i, j \in Pool : \A k \in DOMAIN todo[i], l \in DOMAIN todo[j] :
        <<i, k>> # <<j, l>> => Positions(todo[i][k]) \cap Positions(todo[j][l]) = {}

SortedInput == SortedBy(call.a, LAMBDA x, y : x < y)

\* Every element that is not yet where it belongs is in a piece that some
\* thread has to sort: no piece is forgotten or overwritten on its way from one
\* thread to another, and the passes leave what they finish in its place.
NothingLost ==
    ~bailout =>
        \A k \in DOMAIN arr :
            \/ arr[k] = SortedInput[k]
            \/ \E i \in Pool : \E l \in DOMAIN todo[i] : k \in Positions(todo[i][l])

\* While the array is being sorted, idlethreads counts the threads whose state
\* is idle, except for one that is about to be given work.
IdleIsCounted ==
    (\A i \in Pool : st[i] # "term") /\ ~bailout =>
        idle = Cardinality(Idle) - Cardinality({i \in Pool : pc[i] = "claim"})

\* The pool is freed, and common goes out of scope, when no thread can use it.
PoolOutlivesThreads ==
    main.at \in {"libc", "returned"} => \A i \in Created : pc[i] = "ended"

\* The array is sorted when qsort_mt returns, and as soon as a thread of the
\* complete pool is told to end.
Sorts ==
    main.at = "returned" \/ (~bailout /\ \E i \in Pool : st[i] = "term") =>
        arr = SortedInput

\* qsort_mt returns.
Returns == <>(main.at = "returned")
=============================================================================
