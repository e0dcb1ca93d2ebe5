-------------------------- MODULE PriorityInversion --------------------------
(***************************************************************************)
(* quiz1/question3/priority_inversion/main.c in its two builds:            *)
(* test_pthread, whose mutexes know nothing of priorities, and             *)
(* test_pthread_fix_pi, whose mutexes lend their owner the priority of     *)
(* those who wait for it.  The threads low, mid and high are SCHED_FIFO    *)
(* threads on one processor (`taskset -c 1').  main is an ordinary thread; *)
(* the kernel leaves it a share of the processor even while a real-time    *)
(* thread spins.  How long a sleep lasts is left open.                     *)
(***************************************************************************)
EXTENDS Naturals, FiniteSets, FiniteSetsExt

CONSTANT NULL

RealTime == {"low", "mid", "high"}

\* get_priroity_num
priority == [low |-> 10, mid |-> 50, high |-> 90]

\* The mutex of its context: mid has one of its own.
mutex == [low |-> "ctx", mid |-> "ctx2", high |-> "ctx"]

VARIABLES
    FIX_PI,            \* which build is run
    share_resource,
    owner,             \* owner[m]: the owner of mutex m
    pc                 \* pc[t]: next step of t; "waiting" for its mutex,
                       \* "asleep" in usleep, "none" before it is created

vars == <<FIX_PI, share_resource, owner, pc>>

Init ==
    /\ FIX_PI \in BOOLEAN
    /\ share_resource = 0
    /\ owner = [m \in {"ctx", "ctx2"} |-> NULL]
    /\ pc = [t \in RealTime \cup {"main"} |-> IF t = "main" THEN "create low" ELSE "none"]

Goto(t, p) == pc' = [pc EXCEPT ![t] = p]

-----------------------------------------------------------------------------
(* The scheduler *)

\* Mutant of Inherits: the attributes are not given to the mutex.
InheritsNot == FALSE

\* The protocol that mutex_init gives the mutexes.  (Its other attributes are
\* not initialised; no thread locks twice, or ends as an owner, so that they make
\* no difference.)
Inherits == FIX_PI

Runnable(t) == pc[t] \notin {"none", "waiting", "asleep", "done"}

\* The priority of t, or that of a thread that waits for its mutex.
Effective(t) ==
    LET lenders == {w \in RealTime : pc[w] = "waiting" /\ owner[mutex[w]] = t}
    IN  Max({priority[u] : u \in {t} \cup (IF Inherits THEN lenders ELSE {})})

\* t has the processor and stands at p.
Runs(t, p) ==
    /\ pc[t] = p
    /\ \A u \in RealTime : Runnable(u) => Effective(u) <= Effective(t)

-----------------------------------------------------------------------------
(* The three threads *)

Lock(t, next) ==
    /\ Runs(t, "lock")
    /\ IF owner[mutex[t]] = NULL
         THEN owner' = [owner EXCEPT ![mutex[t]] = t] /\ Goto(t, next)
         ELSE Goto(t, "waiting") /\ UNCHANGED owner
    /\ UNCHANGED <<FIX_PI, share_resource>>

\* The waiters try again.
Unlock(t) ==
    /\ Runs(t, "unlock")
    /\ owner' = [owner EXCEPT ![mutex[t]] = NULL]
    /\ pc' = [u \in DOMAIN pc |->
                IF u = t THEN "done"
                ELSE IF pc[u] = "waiting" /\ mutex[u] = mutex[t] THEN "lock" ELSE pc[u]]
    /\ UNCHANGED <<FIX_PI, share_resource>>

\* The end of usleep needs no processor.
Wake(t, next) ==
    /\ pc[t] = "asleep"
    /\ Goto(t, next)
    /\ UNCHANGED <<FIX_PI, share_resource, owner>>

Low == Lock("low", "asleep") \/ Wake("low", "unlock") \/ Unlock("low")

\* The loop keeps the processor busy until there is something to take away.
Spin ==
    /\ Runs("mid", "spin")
    /\ Goto("mid", IF share_resource = 0 THEN "spin" ELSE "sub")
    /\ UNCHANGED <<FIX_PI, share_resource, owner>>

Sub ==
    /\ Runs("mid", "sub")
    /\ share_resource' = share_resource - 1
    /\ Goto("mid", "unlock")
    /\ UNCHANGED <<FIX_PI, owner>>

Mid == Lock("mid", "spin") \/ Spin \/ Sub \/ Unlock("mid")

HighAdd ==
    /\ Runs("high", "add")
    /\ share_resource' = share_resource + 1
    /\ Goto("high", "unlock")
    /\ UNCHANGED <<FIX_PI, owner>>

High == Lock("high", "asleep") \/ Wake("high", "add") \/ HighAdd \/ Unlock("high")

-----------------------------------------------------------------------------
(* main *)

Create(t, at, next) ==
    /\ pc["main"] = at
    /\ pc' = [pc EXCEPT ![t] = "lock", !["main"] = next]
    /\ UNCHANGED <<FIX_PI, share_resource, owner>>

\* Mutant of MayAdd: main joins the first thread before it adds.
MayAddJoined == pc["low"] = "done"

\* After its usleep main adds at once.
MayAdd == TRUE

Add ==
    /\ pc["main"] = "add" /\ MayAdd
    /\ share_resource' = share_resource + 1
    /\ Goto("main", "join")
    /\ UNCHANGED <<FIX_PI, owner>>

Join ==
    /\ pc["main"] = "join"
    /\ \A t \in RealTime : pc[t] = "done"
    /\ Goto("main", "done")
    /\ UNCHANGED <<FIX_PI, share_resource, owner>>

MainStep ==
    \/ Create("low", "create low", "create mid")
    \/ Create("mid", "create mid", "create high") \/ Create("high", "create high", "asleep")
    \/ Wake("main", "add") \/ Add \/ Join

Ended == pc["main"] = "done" /\ UNCHANGED vars

Next == Low \/ Mid \/ High \/ MainStep \/ Ended

\* main has its share of the processor, sleeps end, and a thread that keeps
\* the processor uses it; a thread below others has no such promise.
Spec ==
    /\ Init /\ [][Next]_vars
    /\ WF_vars(Low) /\ WF_vars(Mid) /\ WF_vars(High) /\ WF_vars(MainStep)

-----------------------------------------------------------------------------
\* In the build with inheritance mid makes no progress while high waits for a
\* thread that could run: the wait of high is as long as the critical section
\* it waits for, not as long as whatever mid does.
NoInversion ==
    [][FIX_PI /\ pc["high"] = "waiting" /\ Runnable(owner["ctx"])
         => pc'["mid"] = pc["mid"] \/ pc["mid"] = "none"]_vars

\* Both builds end, although mid spins above the owner of the mutex that high
\* waits for: what mid waits for comes from main, which waits for nobody then.
Termination == <>(pc["main"] = "done")
=============================================================================
