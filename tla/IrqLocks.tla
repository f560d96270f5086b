------------------------------ MODULE IrqLocks ------------------------------
(***************************************************************************)
(* The spin locks of the async runtime (ejcineque/sync/spin.rs, and the    *)
(* spin::Mutex of the unbounded channel) under interrupts.  Each CPU runs  *)
(* a task context that an interrupt handler may preempt wherever           *)
(* interrupts are enabled; the task continues when the handler returns.    *)
(*                                                                         *)
(* What matters here is which locks a piece of code takes, in which order, *)
(* and whether it masks interrupts first, so each code path is written as  *)
(* the sequence of its lock operations.  Sections between which nothing is *)
(* held and interrupts are enabled may be paths of their own.              *)
(***************************************************************************)
EXTENDS Naturals, Sequences

CONSTANTS
    NCpus,      \* number of CPUs
    Paths,      \* the task paths that are taken, a subset of TaskPaths
    Nobody

Cpus == 0 .. NCpus - 1

ASSUME NCpusOK == NCpus \in Nat \ {0}

ASSUME NobodyOK == Nobody \notin Cpus \X {"task", "handler"}

(* The paths that take every lock with interrupts masked, and the others.  *)
MaskedPaths == {"pop", "compare", "spawn", "wait", "drop_guard"}
UnmaskedPaths == {"register", "recv", "set", "send", "yield"}
TaskPaths == MaskedPaths \union UnmaskedPaths

ASSUME PathsOK == Paths \subseteq TaskPaths

Mask == [op |-> "mask"]
Unmask == [op |-> "unmask"]
Acquire(l) == [op |-> "lock", lock |-> l]
Release(l) == [op |-> "unlock", lock |-> l]

(* The locks: the queue of each executor context, TIMER_WAKERS, the        *)
(* AHCI_SENDERS_MAP entry of a port and its channel, the list of a Mutex,  *)
(* a SpscCell and a channel between tasks.                                 *)
Queue(c) == <<"tasks", c>>
Timer == <<"timer_wakers", 0>>
Senders == <<"ahci_sender", 0>>
Channel == <<"ahci_channel", 0>>
WakersList == <<"wakers_list", 0>>
Cell == <<"cell", 0>>
TaskChannel == <<"task_channel", 0>>

Locks ==
    {Queue(c) : c \in Cpus}
        \union {Timer, Senders, Channel, WakersList, Cell, TaskChannel}

(* Mutations: plausible mistakes in the code, used to confirm that each    *)
(* property can fail: a run loop that pops with interrupts enabled, a      *)
(* handler that never unlocks the channel.                                 *)
PopPath_Unmasked(c) ==
    <<Mask, Acquire(Queue(c)), Release(Queue(c)), Unmask,
      Acquire(Queue(c)), Release(Queue(c))>>

AhciHandlerPath_NoUnlock(d) ==
    <<Acquire(Senders), Acquire(Channel), Acquire(Queue(d)), Release(Queue(d)),
      Release(Senders)>>

(* TaskWaker::wake on a task of CPU d: the lock of the queue, no mask. *)
WakePath(d) == <<Acquire(Queue(d)), Release(Queue(d))>>

(* ExecutorContext::run on CPU c: emptiness test, then pop. *)
PopPath(c) ==
    <<Mask, Acquire(Queue(c)), Release(Queue(c)), Unmask,
      Mask, Acquire(Queue(c)), Release(Queue(c)), Unmask>>

(* Spawner::spawn.  First min_by compares the shortest queue so far, that  *)
(* of CPU i, with the one of each further CPU j in turn: the guards of     *)
(* both live to the end of the comparison ...                              *)
ComparePath(i, j) ==
    <<Mask, Acquire(Queue(i)), Acquire(Queue(j)),
      Release(Queue(j)), Release(Queue(i)), Unmask>>

(* ... and then the ID goes into the shortest queue, that of CPU d.        *)
SpawnPath(d) == <<Mask, Acquire(Queue(d)), Release(Queue(d)), Unmask>>

(* WaitFuture::poll *)
WaitPath == <<Mask, Acquire(Timer), Release(Timer), Unmask>>

(* MutexGuard::drop with a waiter on CPU d. *)
DropGuardPath(d) ==
    <<Mask, Acquire(WakersList)>> \o WakePath(d) \o <<Release(WakersList), Unmask>>

(* run_task stores the sender of the interrupt channel. *)
RegisterPath == <<Acquire(Senders), Release(Senders)>>

(* RecvFuture::poll of the AHCI task on its interrupt channel. *)
RecvPath == <<Acquire(Channel), Release(Channel)>>

(* SpscCellSetter::set with a getter parked on CPU d. *)
SetPath(d) == <<Acquire(Cell)>> \o WakePath(d) \o <<Release(Cell)>>

(* UnboundedSender::send by a task, with a receiver parked on CPU d. *)
SendPath(d) == <<Acquire(TaskChannel)>> \o WakePath(d) \o <<Release(TaskChannel)>>

(* YieldFuture::poll, which wakes its own task. *)
YieldPath(c) == WakePath(c)

PathsOf(c, p) ==
    CASE p = "pop" -> {PopPath(c)}
      [] p = "compare" -> {ComparePath(ij[1], ij[2]) : ij \in {x \in Cpus \X Cpus : x[1] < x[2]}}
      [] p = "spawn" -> {SpawnPath(d) : d \in Cpus}
      [] p = "wait" -> {WaitPath}
      [] p = "drop_guard" -> {DropGuardPath(d) : d \in Cpus}
      [] p = "register" -> {RegisterPath}
      [] p = "recv" -> {RecvPath}
      [] p = "set" -> {SetPath(d) : d \in Cpus}
      [] p = "send" -> {SendPath(d) : d \in Cpus}
      [] p = "yield" -> {YieldPath(c)}

(* timer_handler_inner: every waker of TIMER_WAKERS is woken under the     *)
(* lock; d is the CPU of the task that is waiting.                         *)
TimerHandlerPath(d) == <<Acquire(Timer)>> \o WakePath(d) \o <<Release(Timer)>>

(* port_interrupt_handler: send() on the channel of the port, which wakes  *)
(* the AHCI task if it is parked on CPU d.                                 *)
AhciHandlerPath(d) ==
    <<Acquire(Senders), Acquire(Channel)>> \o WakePath(d)
        \o <<Release(Channel), Release(Senders)>>

(* Every CPU has a timer; the MSI of the AHCI controller goes to the CPU   *)
(* that initialised it, the boot CPU.                                      *)
HandlerPaths(c) ==
    {TimerHandlerPath(d) : d \in Cpus}
        \union (IF c = 0 THEN {AhciHandlerPath(d) : d \in Cpus} ELSE {})

-----------------------------------------------------------------------------
VARIABLES
    task,       \* task[c]: what is left of the path the task of CPU c is on
    handler,    \* handler[c]: what is left of the running interrupt handler
    masked,     \* masked[c]: interrupts are disabled in the task context
    holder,     \* holder[l]: <<c, "task">> or <<c, "handler">>, or Nobody
    on          \* auxiliary: on[c] is the path the task of CPU c is on

vars == <<task, handler, masked, holder, on>>

Init ==
    /\ task = [c \in Cpus |-> <<>>]
    /\ handler = [c \in Cpus |-> <<>>]
    /\ masked = [c \in Cpus |-> FALSE]
    /\ holder = [l \in Locks |-> Nobody]
    /\ on = [c \in Cpus |-> "none"]

TakePath(c) ==
    /\ task[c] = <<>>
    /\ handler[c] = <<>>
    /\ \E p \in Paths : \E path \in PathsOf(c, p) :
         /\ task' = [task EXCEPT ![c] = path]
         /\ on' = [on EXCEPT ![c] = p]
    /\ UNCHANGED <<handler, masked, holder>>

(* Interrupts stay off while a handler runs. *)
Interrupt(c) ==
    /\ handler[c] = <<>>
    /\ ~masked[c]
    /\ \E path \in HandlerPaths(c) : handler' = [handler EXCEPT ![c] = path]
    /\ UNCHANGED <<task, masked, holder, on>>

Advance(c) ==
    /\ task' = [task EXCEPT ![c] = Tail(@)]
    /\ on' = [on EXCEPT ![c] = IF Tail(task[c]) = <<>> THEN "none" ELSE @]

(* without_interrupts *)
SetMask(c) ==
    /\ handler[c] = <<>>
    /\ task[c] # <<>>
    /\ Head(task[c]).op \in {"mask", "unmask"}
    /\ masked' = [masked EXCEPT ![c] = Head(task[c]).op = "mask"]
    /\ Advance(c)
    /\ UNCHANGED <<handler, holder>>

(* The compare_exchange of lock() that succeeds, and the drop of a guard.  *)
LockOp(who, instr) ==
    \/ /\ instr.op = "lock"
       /\ holder[instr.lock] = Nobody
       /\ holder' = [holder EXCEPT ![instr.lock] = who]
    \/ /\ instr.op = "unlock"
       /\ holder' = [holder EXCEPT ![instr.lock] = Nobody]

TaskLockOp(c) ==
    /\ handler[c] = <<>>
    /\ task[c] # <<>>
    /\ LockOp(<<c, "task">>, Head(task[c]))
    /\ Advance(c)
    /\ UNCHANGED <<handler, masked>>

HandlerLockOp(c) ==
    /\ handler[c] # <<>>
    /\ LockOp(<<c, "handler">>, Head(handler[c]))
    /\ handler' = [handler EXCEPT ![c] = Tail(@)]
    /\ UNCHANGED <<task, masked, on>>

Next ==
    \E c \in Cpus : TakePath(c) \/ Interrupt(c) \/ SetMask(c) \/ TaskLockOp(c)
                    \/ HandlerLockOp(c)

Spec == Init /\ [][Next]_vars

(* A CPU that spins on a lock gets it when the lock is free again and      *)
(* again, and interrupts leave the task context time to run.               *)
FairSpec ==
    /\ Spec
    /\ \A c \in Cpus : SF_vars(SetMask(c) \/ TaskLockOp(c)) /\ SF_vars(HandlerLockOp(c))

-----------------------------------------------------------------------------
Spinning(code) == code # <<>> /\ Head(code).op = "lock"

TypeOK ==
    /\ \A c \in Cpus : /\ task[c] \in Seq([op : {"mask", "unmask"}]
                                          \union [op : {"lock", "unlock"}, lock : Locks])
                       /\ handler[c] \in Seq([op : {"lock", "unlock"}, lock : Locks])
    /\ masked \in [Cpus -> BOOLEAN]
    /\ holder \in [Locks -> {Nobody} \union (Cpus \X {"task", "handler"})]
    /\ on \in [Cpus -> TaskPaths \union {"none"}]

(* The handler on CPU c spins on a lock that the task it preempted holds:  *)
(* the task cannot run until the handler returns.                          *)
SelfDeadlock(c) ==
    Spinning(handler[c]) /\ holder[Head(handler[c]).lock] = <<c, "task">>

(* lock() panics with "potential deadlock detected!" when it spins too     *)
(* long: no handler spins on a lock that the task it preempted holds.      *)
NoSelfDeadlock == \A c \in Cpus : ~SelfDeadlock(c)

(* A handler runs on CPU c on top of a task that holds a lock.  Then it    *)
(* may spin on that lock, or on one held by a handler of another CPU that  *)
(* spins on that lock in turn.                                             *)
Caught(c) == handler[c] # <<>> /\ \E l \in Locks : holder[l] = <<c, "task">>

(* Only on a path that takes its locks with interrupts enabled is a task   *)
(* caught like that, whatever paths the other tasks are on: the run loop,  *)
(* spawn, WaitFuture and the drop of a MutexGuard never are.               *)
MaskedPathsAreSafe == \A c \in Cpus : Caught(c) => on[c] \notin MaskedPaths

(* A context that spins on a lock gets it, when only paths are taken that  *)
(* mask interrupts: no cycle of CPUs, tasks and handlers that wait for     *)
(* each other.                                                             *)
SpinningEnds ==
    [](\A c \in Cpus : on[c] \notin UnmaskedPaths) =>
        \A c \in Cpus : /\ Spinning(handler[c]) ~> ~Spinning(handler[c])
                        /\ Spinning(task[c]) ~> ~Spinning(task[c])
=============================================================================
