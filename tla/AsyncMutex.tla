----------------------------- MODULE AsyncMutex -----------------------------
(***************************************************************************)
(* The async Mutex of ejcineque/sync/mutex.rs: an atomic lock word, and an *)
(* intrusive circular doubly linked list of waker nodes guarded by a spin  *)
(* lock of its own.  A node lives inside the MutexFuture of the waiting    *)
(* task, so a node is named by its task.                                   *)
(*                                                                         *)
(* Each task loops: lock().await (or spin_acquire_lock), use the guard,    *)
(* drop it.  A step is one atomic access, or the pointer surgery done      *)
(* under the list lock.                                                    *)
(*                                                                         *)
(* A parked task is polled after its waker was called.  The waker is that  *)
(* of the whole task: wakers it left elsewhere (a race leaves one in the   *)
(* channel that lost) and the wakers of a second task with its ID poll it  *)
(* too, and the second task replaces, and so drops, its future.  The tasks *)
(* to which this can happen are the Strays.  A MutexFuture has no Drop,    *)
(* and try_lock succeeds without a look at the list, so that the node of a *)
(* stray can be freed while it is linked.  What the code does once it uses *)
(* such a node is undefined: the CPU stops there in the model, and the     *)
(* properties speak of what happens before.                                *)
(***************************************************************************)
EXTENDS Naturals, Sequences

CONSTANTS
    Tasks,      \* the tasks that share the mutex
    Strays,     \* those that others may poll, or drop, while they wait here
    Null        \* the null pointer, also used for "nobody"

ASSUME NullIsNoTask == Null \notin Tasks
ASSUME StraysAreTasks == Strays \subseteq Tasks

VARIABLES
    state,              \* Mutex::state
    wakers_list_state,  \* the spin lock of the list
    wakers_list_head,
    wakers_list_tail,
    next, prev,         \* the pointers of the node of each task
    node,               \* the tasks whose future has node = Some(..)
    woken,              \* the tasks whose waker was called since they last ran
    pc,
    queue,              \* auxiliary: the tasks whose nodes are linked, in the
                        \* order in which they were inserted
    freed               \* auxiliary: the tasks whose node was freed while linked

vars == <<state, wakers_list_state, wakers_list_head, wakers_list_tail, next,
          prev, node, woken, pc, queue, freed>>

links == <<wakers_list_head, wakers_list_tail, next, prev, queue>>

Locked == "Locked"
Unlocked == "Unlocked"

Goto(t, label) == pc' = [pc EXCEPT ![t] = label]

Listed(t) == \E i \in 1 .. Len(queue) : queue[i] = t

(* A MutexFuture goes away, the node inside it too; nothing unlinks it.    *)
FreeNode(t) ==
    /\ node' = node \ {t}
    /\ freed' = IF Listed(t) THEN freed \union {t} ELSE freed

(* Mutex::new, and no task has a future yet. *)
Init ==
    /\ state = Unlocked
    /\ wakers_list_state = Unlocked
    /\ wakers_list_head = Null
    /\ wakers_list_tail = Null
    /\ next = [t \in Tasks |-> Null]
    /\ prev = [t \in Tasks |-> Null]
    /\ node = {}
    /\ woken = {}
    /\ pc = [t \in Tasks |-> "idle"]
    /\ queue = <<>>
    /\ freed = {}

-----------------------------------------------------------------------------
(* Mutations: plausible mistakes in the code, used to confirm that each    *)
(* property can fail.  No specification of this module uses them.          *)

(* The lock word is stored without a compare. *)
TryLock_Blind(t) ==
    /\ pc[t] = "try"
    /\ state' = Locked
    /\ FreeNode(t)
    /\ Goto(t, "guard")
    /\ UNCHANGED <<wakers_list_state, links, woken>>

(* The old head keeps its back pointer. *)
InsertAtHead_NoPrev(t) ==
    /\ wakers_list_head' = t
    /\ next' = [next EXCEPT ![t] = wakers_list_head, ![wakers_list_tail] = t]
    /\ prev' = [prev EXCEPT ![t] = wakers_list_tail]
    /\ UNCHANGED wakers_list_tail

(* A guard is dropped without a look at the waiters. *)
DropGuard_NoWake(t) ==
    /\ pc[t] = "guard"
    /\ state' = Unlocked
    /\ Goto(t, "idle")
    /\ UNCHANGED <<wakers_list_state, links, node, freed, woken>>

(* The tail is woken and stays linked. *)
PopTail_KeepsNode(t) ==
    /\ pc[t] = "pop"
    /\ woken' = IF wakers_list_tail = Null THEN woken ELSE woken \union {wakers_list_tail}
    /\ Goto(t, "drop_unlock_list")
    /\ UNCHANGED <<state, wakers_list_state, links, node, freed>>

(* The newest waiter is woken in the place of the oldest. *)
PopTail_PopsHead(t) ==
    /\ pc[t] = "pop"
    /\ IF wakers_list_tail = Null
       THEN UNCHANGED <<links, woken>>
       ELSE LET n == wakers_list_head
            IN  /\ woken' = woken \union {n}
                /\ queue' = SubSeq(queue, 1, Len(queue) - 1)
                /\ wakers_list_head' = IF next[n] = n THEN Null ELSE next[n]
                /\ wakers_list_tail' = IF next[n] = n THEN Null ELSE wakers_list_tail
                /\ prev' = [prev EXCEPT ![next[n]] = wakers_list_tail]
                /\ next' = [next EXCEPT ![wakers_list_tail] = next[n]]
    /\ Goto(t, "drop_unlock_list")
    /\ UNCHANGED <<state, wakers_list_state, node, freed>>

-----------------------------------------------------------------------------
(* Mutex::lock makes a future without a node; its first poll follows. *)
Lock(t) ==
    /\ pc[t] = "idle"
    /\ Goto(t, "try")
    /\ UNCHANGED <<state, wakers_list_state, links, node, freed, woken>>

(* The compare_exchange of try_lock, by the first poll or by a later one:  *)
(* on success the future is Ready and dropped, its node with it.           *)
TryLock(t) ==
    /\ pc[t] = "try"
    /\ IF state = Unlocked
       THEN /\ state' = Locked
            /\ FreeNode(t)
            /\ Goto(t, "guard")
       ELSE /\ Goto(t, "lock_list")
            /\ UNCHANGED <<state, node, freed>>
    /\ UNCHANGED <<wakers_list_state, links, woken>>

(* spin_acquire_lock: the iteration of the loop that succeeds. *)
SpinAcquire(t) ==
    /\ pc[t] = "idle"
    /\ state = Unlocked
    /\ state' = Locked
    /\ Goto(t, "guard")
    /\ UNCHANGED <<wakers_list_state, links, node, freed, woken>>

(* lock_wakers_list: the iteration of the loop that succeeds, called by    *)
(* poll and by the drop of a guard.                                        *)
LockWakersList(t) ==
    /\ pc[t] \in {"lock_list", "drop_lock_list"}
    /\ wakers_list_state = Unlocked
    /\ wakers_list_state' = Locked
    /\ Goto(t, IF pc[t] = "lock_list" THEN "insert" ELSE "pop")
    /\ UNCHANGED <<state, links, node, freed, woken>>

(* The first node of an empty list points at itself. *)
InsertIntoEmpty(t) ==
    /\ wakers_list_head' = t
    /\ wakers_list_tail' = t
    /\ next' = [next EXCEPT ![t] = t]
    /\ prev' = [prev EXCEPT ![t] = t]

(* A node goes between the tail and the head, and becomes the head. *)
InsertAtHead(t) ==
    LET h == wakers_list_head
        l == wakers_list_tail
    IN  /\ wakers_list_head' = t
        /\ next' = [next EXCEPT ![t] = h, ![l] = t]
        /\ prev' = [prev EXCEPT ![t] = l, ![h] = t]
        /\ UNCHANGED wakers_list_tail

(* The nodes that poll and the drop of a guard follow a pointer to.  A new *)
(* node is taken to be where the last node of its task was.                *)
Touched(t) ==
    IF pc[t] = "insert"
    THEN IF t \in node THEN {} ELSE {t, wakers_list_head, wakers_list_tail}
    ELSE IF wakers_list_tail = Null THEN {}
         ELSE {wakers_list_head, wakers_list_tail, prev[wakers_list_tail]}

(* A freed node is read or written: nothing is known of what follows.      *)
UseFreed(t) ==
    /\ pc[t] \in {"insert", "pop"}
    /\ Touched(t) \intersect freed # {}
    /\ Goto(t, "undefined")
    /\ UNCHANGED <<state, wakers_list_state, links, node, freed, woken>>

(* poll, under the list lock: a future that has no node yet makes one. *)
InsertNode(t) ==
    /\ pc[t] = "insert"
    /\ Touched(t) \intersect freed = {}
    /\ IF t \in node
       THEN UNCHANGED <<links, node>>
       ELSE /\ node' = node \union {t}
            /\ queue' = Append(queue, t)
            /\ IF wakers_list_head = Null \/ wakers_list_tail = Null
               THEN InsertIntoEmpty(t)
               ELSE InsertAtHead(t)
    /\ Goto(t, "unlock_list")
    /\ UNCHANGED <<state, wakers_list_state, freed, woken>>

(* unlock_wakers_list; poll then returns Pending, drop returns. *)
UnlockWakersList(t) ==
    /\ pc[t] \in {"unlock_list", "drop_unlock_list"}
    /\ wakers_list_state' = Unlocked
    /\ Goto(t, IF pc[t] = "unlock_list" THEN "parked" ELSE "idle")
    /\ UNCHANGED <<state, links, node, freed, woken>>

(* The executor runs a task whose waker was called by this mutex ... *)
Repoll(t) ==
    /\ pc[t] = "parked"
    /\ t \in woken
    /\ woken' = woken \ {t}
    /\ Goto(t, "try")
    /\ UNCHANGED <<state, wakers_list_state, links, node, freed>>

(* ... or by somebody else ... *)
StrayPoll(t) ==
    /\ t \in Strays
    /\ pc[t] = "parked"
    /\ t \notin woken
    /\ Goto(t, "try")
    /\ UNCHANGED <<state, wakers_list_state, links, node, freed, woken>>

(* ... or drops it, when tasks_map.insert replaces it by another task.     *)
DropFuture(t) ==
    /\ t \in Strays
    /\ pc[t] = "parked"
    /\ FreeNode(t)
    /\ woken' = woken \ {t}
    /\ Goto(t, "gone")
    /\ UNCHANGED <<state, wakers_list_state, links>>

(* MutexGuard::drop opens the mutex first ... *)
DropGuard(t) ==
    /\ pc[t] = "guard"
    /\ state' = Unlocked
    /\ Goto(t, "drop_lock_list")
    /\ UNCHANGED <<wakers_list_state, links, node, freed, woken>>

(* ... and then, under the list lock, unlinks the tail node and wakes it.  *)
PopTail(t) ==
    /\ pc[t] = "pop"
    /\ Touched(t) \intersect freed = {}
    /\ IF wakers_list_tail = Null \/ wakers_list_head = Null
       THEN UNCHANGED <<links, woken>>
       ELSE LET n == wakers_list_tail
            IN  /\ woken' = woken \union {n}
                /\ queue' = Tail(queue)
                /\ IF prev[n] = n
                   THEN /\ wakers_list_head' = Null
                        /\ wakers_list_tail' = Null
                        /\ UNCHANGED <<next, prev>>
                   ELSE /\ wakers_list_tail' = prev[n]
                        /\ next' = [next EXCEPT ![prev[n]] = wakers_list_head]
                        /\ prev' = [prev EXCEPT ![wakers_list_head] = prev[n]]
                        /\ UNCHANGED wakers_list_head
    /\ Goto(t, "drop_unlock_list")
    /\ UNCHANGED <<state, wakers_list_state, node, freed>>

Step(t) ==
    \/ Lock(t) \/ TryLock(t) \/ SpinAcquire(t) \/ LockWakersList(t) \/ InsertNode(t)
    \/ UnlockWakersList(t) \/ Repoll(t) \/ StrayPoll(t) \/ DropFuture(t)
    \/ DropGuard(t) \/ PopTail(t) \/ UseFreed(t)

Next == \E t \in Tasks : Step(t)

Spec == Init /\ [][Next]_vars

(* A woken task is polled (Executor), a poll and a drop run to their end,  *)
(* guards are dropped, and a CPU that spins on the list lock gets it when  *)
(* it is released again and again.  Nothing makes a task call lock(), and  *)
(* nothing makes a stray poll or drop happen.                              *)
Fairness ==
    \A t \in Tasks :
        /\ WF_vars(TryLock(t) \/ InsertNode(t) \/ UnlockWakersList(t) \/ Repoll(t)
                   \/ DropGuard(t) \/ PopTail(t))
        /\ SF_vars(LockWakersList(t))

FairSpec == Spec /\ Fairness

-----------------------------------------------------------------------------
Pointers == Tasks \union {Null}

Pcs == {"idle", "try", "lock_list", "insert", "unlock_list", "parked", "guard",
        "drop_lock_list", "pop", "drop_unlock_list", "gone", "undefined"}

TypeOK ==
    /\ state \in {Unlocked, Locked}
    /\ wakers_list_state \in {Unlocked, Locked}
    /\ wakers_list_head \in Pointers
    /\ wakers_list_tail \in Pointers
    /\ next \in [Tasks -> Pointers]
    /\ prev \in [Tasks -> Pointers]
    /\ node \in SUBSET Tasks
    /\ woken \in SUBSET Tasks
    /\ pc \in [Tasks -> Pcs]
    /\ queue \in Seq(Tasks)
    /\ freed \in SUBSET Tasks

(* Two tasks never hold a guard of the mutex at the same time. *)
MutualExclusion ==
    \A t, u \in Tasks : pc[t] = "guard" /\ pc[u] = "guard" => t = u

(* The pointers of the list are only touched by one CPU at a time. *)
ListExclusion ==
    LET inside == {t \in Tasks :
                     pc[t] \in {"insert", "unlock_list", "pop", "drop_unlock_list"}}
    IN  \A t, u \in inside : t = u

(* "a circular linked list": the pointers form the ring of the waiters.    *)
(* The tail is the oldest waiter and the head the newest, prev leads from  *)
(* each waiter to the next younger one and from the head to the tail, next *)
(* is the inverse, no node is linked twice.                                *)
ListIsRing ==
    LET n == Len(queue)
    IN  /\ wakers_list_head = (IF n = 0 THEN Null ELSE queue[n])
        /\ wakers_list_tail = (IF n = 0 THEN Null ELSE queue[1])
        /\ \A i \in 1 .. n :
             /\ prev[queue[i]] = (IF i = n THEN queue[1] ELSE queue[i + 1])
             /\ next[queue[i]] = (IF i = 1 THEN queue[n] ELSE queue[i - 1])
        /\ \A i, j \in 1 .. n : queue[i] = queue[j] => i = j

(* A linked node is inside a live future: its owner is parked (or about to *)
(* park) and has not been woken, so that no poll can complete and free a   *)
(* node that the list still points to.  This is so of every task that only *)
(* this mutex wakes, whatever the strays do.                               *)
LinkedNodesAreAlive ==
    \A t \in Tasks \ Strays : Listed(t) => /\ t \in node \ (woken \union freed)
                                          /\ pc[t] \in {"unlock_list", "parked"}

(* The waker list is intact until a freed node is used: it is a ring in    *)
(* arrival order, and the nodes of the tasks nobody else wakes are alive.  *)
ListIsSound == ListIsRing /\ LinkedNodesAreAlive

(* "now the location of node is constant": poll and the drop of a guard    *)
(* follow the pointers of the list to nodes that are still there.          *)
NoFreedNodeIsUsed == \A t \in Tasks : pc[t] # "undefined"

(* "new wakes go here": a task that waits for its waker has it in the list. *)
ParkedWaiterIsListed ==
    \A t \in Tasks : pc[t] = "parked" /\ t \notin woken => Listed(t)

(* While somebody holds the mutex every listed waiter will be woken,       *)
(* unless a waiter is freed while it is linked, or dropped (with the       *)
(* wake-up it may have got).                                               *)
ListedWaiterIsWoken ==
    \A t \in Tasks : (Listed(t) /\ state = Locked)
                        ~> \/ t \in woken
                           \/ freed # {}
                           \/ \E u \in Tasks : pc[u] = "gone"

-----------------------------------------------------------------------------
(* The mutex implements FifoMutex: exclusive ownership, and wake-ups in    *)
(* arrival order, one for each guard that is dropped, as long as no waiter *)
(* has left the queue by itself.                                           *)
Holder ==
    IF \E t \in Tasks : pc[t] = "guard"
    THEN CHOOSE t \in Tasks : pc[t] = "guard" ELSE Null

Abstract == INSTANCE FifoMutex WITH
    Nobody <- Null,
    owner <- Holder,
    left <- freed,
    releasing <- {t \in Tasks : pc[t] \in {"drop_lock_list", "pop"}}

ImplementsFifoMutex == Abstract!AbsSpec
=============================================================================
