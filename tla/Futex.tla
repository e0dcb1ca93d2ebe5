------------------------------- MODULE Futex -------------------------------
(***************************************************************************)
(* The kernel's futex wait queues as the wrappers of quiz1/futex.h use     *)
(* them.  A futex word is an address; the kernel keeps one queue of        *)
(* sleeping threads per word.  Every caller in the repository passes       *)
(* limit = 1 to FUTEX_WAKE and FUTEX_REQUEUE, so the limit is built in.    *)
(* Which waiter is woken is not specified by futex(2): it is a choice.     *)
(***************************************************************************)

CONSTANT Threads

VARIABLE queue    \* queue[w]: the threads asleep in futex_wait on word w

\* No thread sleeps on any of the words of W.
FutexInit(W) == queue = [w \in W |-> {}]

\* t is not asleep in the kernel (it never slept, or it has been woken).
Awake(t) == \A w \in DOMAIN queue : t \notin queue[w]

\* futex_wait: the kernel compares the word with the caller's value and queues
\* the caller in one atomic step; `equal' is the outcome of that comparison.
FutexWait(t, w, equal) ==
    queue' = IF equal THEN [queue EXCEPT ![w] = @ \cup {t}] ELSE queue

\* futex_wake(w, 1): one of the sleepers of w, if there is one.
FutexWake(w) ==
    \/ queue[w] = {} /\ UNCHANGED queue
    \/ \E t \in queue[w] : queue' = [queue EXCEPT ![w] = @ \ {t}]

\* futex_requeue(w, 1, other): wake one sleeper of w and move all the others,
\* without waking them, to the queue of the other word.
FutexRequeue(w, other) ==
    \/ queue[w] = {} /\ UNCHANGED queue
    \/ \E t \in queue[w] :
          queue' = [queue EXCEPT ![w] = {}, ![other] = @ \cup (queue[w] \ {t})]

\* futex_wait may also return although nobody called futex_wake: a signal, or
\* a wake-up meant for an earlier user of the address.
FutexSpurious(t) ==
    \E w \in DOMAIN queue :
        t \in queue[w] /\ queue' = [queue EXCEPT ![w] = @ \ {t}]
=============================================================================
