----------------------------- MODULE FifoMutex -----------------------------
(***************************************************************************)
(* What the async Mutex (ejcineque/sync/mutex.rs) promises: one owner at a *)
(* time, and waiters that are woken one per release, in the order in which *)
(* they queued up.  It promises no hand-over: a released mutex is free for *)
(* whoever tries next.  A waiter that is polled or dropped by others can   *)
(* leave the queue by itself; its place stays taken, and from then on a    *)
(* release may wake nobody.                                                *)
(***************************************************************************)
EXTENDS Naturals, Sequences

CONSTANTS Tasks, Nobody,
          Strays    \* the tasks that may leave the queue by themselves

VARIABLES
    owner,      \* the task that holds the guard, or Nobody
    queue,      \* the waiters, the longest waiting one first
    woken,      \* the waiters that were woken and have not run since
    releasing,  \* the tasks that released and have not woken a waiter yet
    left        \* the tasks that left the queue by themselves

absVars == <<owner, queue, woken, releasing, left>>

InQueue(t) == \E i \in 1 .. Len(queue) : queue[i] = t

AbsInit ==
    /\ owner = Nobody
    /\ queue = <<>>
    /\ woken = {}
    /\ releasing = {}
    /\ left = {}

Leaves(t) == left' = IF InQueue(t) THEN left \union {t} ELSE left

Acquire(t) ==
    /\ owner = Nobody
    /\ InQueue(t) => t \in Strays
    /\ owner' = t
    /\ Leaves(t)
    /\ UNCHANGED <<queue, woken, releasing>>

Enqueue(t) ==
    /\ owner # t
    /\ ~InQueue(t)
    /\ queue' = Append(queue, t)
    /\ UNCHANGED <<owner, woken, releasing, left>>

GiveUp(t) ==
    /\ t \in Strays
    /\ owner # t
    /\ Leaves(t)
    /\ woken' = woken \ {t}
    /\ UNCHANGED <<owner, queue, releasing>>

Release(t) ==
    /\ owner = t
    /\ owner' = Nobody
    /\ releasing' = releasing \union {t}
    /\ UNCHANGED <<queue, woken, left>>

(* The end of a release: the longest waiting task is woken, if there is    *)
(* one; it is still waiting.                                               *)
Signal(t) ==
    /\ t \in releasing
    /\ releasing' = releasing \ {t}
    /\ IF queue = <<>>
       THEN UNCHANGED <<queue, woken>>
       ELSE /\ Head(queue) \notin left
            /\ queue' = Tail(queue)
            /\ woken' = woken \union {Head(queue)}
    /\ UNCHANGED <<owner, left>>

(* A release that wakes nobody, after some task has left the queue. *)
Fail(t) ==
    /\ t \in releasing
    /\ left # {}
    /\ releasing' = releasing \ {t}
    /\ UNCHANGED <<owner, queue, woken, left>>

(* A woken task runs again and tries anew. *)
Resume(t) ==
    /\ t \in woken
    /\ woken' = woken \ {t}
    /\ UNCHANGED <<owner, queue, releasing, left>>

AbsNext ==
    \E t \in Tasks :
        Acquire(t) \/ Enqueue(t) \/ GiveUp(t) \/ Release(t) \/ Signal(t) \/ Fail(t) \/ Resume(t)

AbsSpec == AbsInit /\ [][AbsNext]_absVars
=============================================================================
