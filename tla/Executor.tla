------------------------------ MODULE Executor ------------------------------
(***************************************************************************)
(* The async executor (ejcineque/executor.rs) and the part of the boot     *)
(* sequence that publishes it (arch/x86_64/init.rs, arch/x86_64/mp/mod.rs, *)
(* scheduler/mod.rs).                                                      *)
(*                                                                         *)
(* Every CPU owns an ExecutorContext: a FIFO of task IDs, a map from IDs   *)
(* to tasks and a cache of wakers.  A CPU alternates between its run loop  *)
(* and the task it polls; spawning happens inside a poll.  A step is one   *)
(* critical section of a SpinMutex or one access to an atomic, so CPUs     *)
(* interleave exactly between the lock() calls of the source.              *)
(***************************************************************************)
EXTENDS Naturals, Sequences

CONSTANTS
    NCpus,      \* number of CPUs; their ids, the keys of `contexts', are 0..NCpus-1
    Bsp,        \* the boot CPU
    Futures,    \* the futures that may be spawned
    Main,       \* the future kernel_main, spawned by the boot CPU
    NoFuture,   \* stands for None
    U64Max,     \* u64::MAX, the last task ID
    MaxQueue    \* bound of the model: wake-ups stop when a queue is this long

Cpus == 0 .. NCpus - 1
TaskIDs == 0 .. U64Max

ASSUME ConstantsOK ==
    /\ NCpus \in Nat \ {0}
    /\ Bsp \in Cpus
    /\ Main \in Futures
    /\ NoFuture \notin Futures
    /\ U64Max \in Nat
    /\ MaxQueue \in Nat

VARIABLES
    counter,    \* Spawner::counter
    tasks,      \* tasks[c]: the FIFO of task IDs of CPU c
    tasks_map,  \* tasks_map[c][id]: the task of that ID, NoFuture if absent
    wakers,     \* wakers[c]: the IDs with a cached TaskWaker
    held,       \* waker clones <<cpu, id>> handed to whoever will wake a task
    pc,         \* where each CPU is
    cur,        \* cur[c]: the ID the run loop of CPU c popped
    running,    \* running[c]: the task whose Arc the run loop of CPU c cloned
    sp,         \* sp[c]: the local variables of a spawn in progress on CPU c
    life,       \* life[f]: "unborn", "spawned" or "done" (returned Ready)
    executor,   \* EXECUTOR is set
    spawner,    \* SPAWNER is set
    ready       \* IS_EXECUTOR_READY

vars == <<counter, tasks, tasks_map, wakers, held, pc, cur, running, sp, life,
          executor, spawner, ready>>

contexts == <<tasks, tasks_map, wakers>>
boot == <<executor, spawner, ready>>

SpawnPcs == {"spawn_load", "spawn_test", "spawn_swap", "spawn_balance",
             "spawn_push", "spawn_insert"}

BootPcs == {"boot", "publish_executor", "publish_spawner", "publish_ready",
            "wait_ready", "kernel_thread"}

RunPcs == {"check", "hlt", "pop", "lookup", "get_waker", "poll",
           "remove_task", "remove_waker"}

Idle == [future |-> NoFuture, id |-> 0, wrap |-> FALSE, best |-> 0, next |-> 0,
         ret |-> "check"]

(* The CPUs that are executing the body of a task: between the call of     *)
(* Task::poll and its return, spawns made by the task included.            *)
InPoll(c) == pc[c] = "poll" \/ (pc[c] \in SpawnPcs /\ sp[c].ret = "poll")

(* The ID is somewhere in the queue of the CPU. *)
Queued(c, i) == \E k \in 1 .. Len(tasks[c]) : tasks[c][k] = i

Goto(c, label) == pc' = [pc EXCEPT ![c] = label]

(* Executor::new: an empty context per CPU, the counter at 0. The boot CPU *)
(* is in init(), the others spin on IS_EXECUTOR_READY in ap_init.          *)
Init ==
    /\ counter = 0
    /\ tasks = [c \in Cpus |-> <<>>]
    /\ tasks_map = [c \in Cpus |-> [i \in TaskIDs |-> NoFuture]]
    /\ wakers = [c \in Cpus |-> {}]
    /\ held = {}
    /\ pc = [c \in Cpus |-> IF c = Bsp THEN "boot" ELSE "wait_ready"]
    /\ cur = [c \in Cpus |-> 0]
    /\ running = [c \in Cpus |-> NoFuture]
    /\ sp = [c \in Cpus |-> Idle]
    /\ life = [f \in Futures |-> "unborn"]
    /\ executor = FALSE
    /\ spawner = FALSE
    /\ ready = FALSE

-----------------------------------------------------------------------------
(* Mutations: plausible mistakes in the code, used to confirm that each    *)
(* property can fail.  No specification of this module uses them.          *)

(* An AP does not wait for IS_EXECUTOR_READY. *)
WaitReady_NoSpin(c) ==
    /\ pc[c] = "wait_ready"
    /\ Goto(c, "kernel_thread")
    /\ UNCHANGED <<counter, contexts, held, cur, running, sp, life, boot>>

(* The queue is drained to its last entry, and only that one is run. *)
Pop_Drain(c) ==
    /\ pc[c] = "pop"
    /\ IF tasks[c] = <<>>
       THEN /\ Goto(c, "check")
            /\ UNCHANGED <<tasks, cur>>
       ELSE /\ cur' = [cur EXCEPT ![c] = tasks[c][Len(tasks[c])]]
            /\ tasks' = [tasks EXCEPT ![c] = <<>>]
            /\ Goto(c, "lookup")
    /\ UNCHANGED <<counter, tasks_map, wakers, held, running, sp, life, boot>>

(* A task that is not in the map of this CPU is looked up in the others. *)
Lookup_AnyCpu(c) ==
    /\ pc[c] = "lookup"
    /\ \E d \in Cpus :
         /\ tasks_map[c][cur[c]] # NoFuture => d = c
         /\ running' = [running EXCEPT ![c] = tasks_map[d][cur[c]]]
         /\ Goto(c, IF tasks_map[d][cur[c]] = NoFuture THEN "check" ELSE "get_waker")
    /\ UNCHANGED <<counter, contexts, held, cur, sp, life, boot>>

(* A finished task stays in the map. *)
RemoveTask_Skipped(c) ==
    /\ pc[c] = "remove_task"
    /\ Goto(c, "remove_waker")
    /\ UNCHANGED <<counter, contexts, held, cur, running, sp, life, boot>>

-----------------------------------------------------------------------------
(* Spawner::spawn, one action per atomic access or critical section.       *)

StartSpawn(c, f, ret) ==
    /\ life[f] = "unborn"
    /\ life' = [life EXCEPT ![f] = "spawned"]
    /\ sp' = [sp EXCEPT ![c] = [Idle EXCEPT !.future = f, !.ret = ret]]
    /\ Goto(c, "spawn_load")

(* The first load of the counter. *)
SpawnLoad(c) ==
    /\ pc[c] = "spawn_load"
    /\ sp' = [sp EXCEPT ![c].id = counter]
    /\ Goto(c, "spawn_test")
    /\ UNCHANGED <<counter, contexts, held, cur, running, life, boot>>

(* The second load, compared with u64::MAX. *)
SpawnTest(c) ==
    /\ pc[c] = "spawn_test"
    /\ sp' = [sp EXCEPT ![c].wrap = (counter = U64Max)]
    /\ Goto(c, "spawn_swap")
    /\ UNCHANGED <<counter, contexts, held, cur, running, life, boot>>

(* The swap, which overwrites whatever another CPU stored meanwhile. *)
SpawnSwap(c) ==
    /\ pc[c] = "spawn_swap"
    /\ counter' = IF sp[c].wrap THEN 0 ELSE (sp[c].id + 1) % (U64Max + 1)
    /\ sp' = [sp EXCEPT ![c].best = 0, ![c].next = 1]
    /\ Goto(c, IF NCpus = 1 THEN "spawn_push" ELSE "spawn_balance")
    /\ UNCHANGED <<contexts, held, cur, running, life, boot>>

(* One comparison of min_by: both queues are locked, ties keep the first. *)
SpawnBalance(c) ==
    /\ pc[c] = "spawn_balance"
    /\ LET k == sp[c].next
           shorter == Len(tasks[k]) < Len(tasks[sp[c].best])
       IN  /\ sp' = [sp EXCEPT ![c].best = IF shorter THEN k ELSE @,
                               ![c].next = k + 1]
           /\ Goto(c, IF k + 1 = NCpus THEN "spawn_push" ELSE "spawn_balance")
    /\ UNCHANGED <<counter, contexts, held, cur, running, life, boot>>

SpawnPush(c) ==
    /\ pc[c] = "spawn_push"
    /\ tasks' = [tasks EXCEPT ![sp[c].best] = Append(@, sp[c].id)]
    /\ Goto(c, "spawn_insert")
    /\ UNCHANGED <<counter, tasks_map, wakers, held, cur, running, sp, life, boot>>

SpawnInsert(c) ==
    /\ pc[c] = "spawn_insert"
    /\ tasks_map' = [tasks_map EXCEPT ![sp[c].best][sp[c].id] = sp[c].future]
    /\ Goto(c, sp[c].ret)
    /\ sp' = [sp EXCEPT ![c] = Idle]
    /\ UNCHANGED <<counter, tasks, wakers, held, cur, running, life, boot>>

-----------------------------------------------------------------------------
(* Boot: init() spawns kernel_main, publishes the executor and the spawner *)
(* and then the ready flag; every CPU ends in load_kernel_thread.          *)

BootSpawn(c) ==
    /\ pc[c] = "boot"
    /\ StartSpawn(c, Main, "publish_executor")
    /\ UNCHANGED <<counter, contexts, held, cur, running, boot>>

PublishExecutor(c) ==
    /\ pc[c] = "publish_executor"
    /\ executor' = TRUE
    /\ Goto(c, "publish_spawner")
    /\ UNCHANGED <<counter, contexts, held, cur, running, sp, life, spawner, ready>>

PublishSpawner(c) ==
    /\ pc[c] = "publish_spawner"
    /\ spawner' = TRUE
    /\ Goto(c, "publish_ready")
    /\ UNCHANGED <<counter, contexts, held, cur, running, sp, life, executor, ready>>

PublishReady(c) ==
    /\ pc[c] = "publish_ready"
    /\ ready' = TRUE
    /\ Goto(c, "kernel_thread")
    /\ UNCHANGED <<counter, contexts, held, cur, running, sp, life, executor, spawner>>

(* ap_init spins until the flag is set. *)
WaitReady(c) ==
    /\ pc[c] = "wait_ready"
    /\ ready
    /\ Goto(c, "kernel_thread")
    /\ UNCHANGED <<counter, contexts, held, cur, running, sp, life, boot>>

(* kernel_thread_entry_point: EXECUTOR.get().expect(..), then run(). *)
KernelThreadEntry(c) ==
    /\ pc[c] = "kernel_thread"
    /\ Goto(c, IF executor THEN "check" ELSE "panic")
    /\ UNCHANGED <<counter, contexts, held, cur, running, sp, life, boot>>

-----------------------------------------------------------------------------
(* ExecutorContext::run                                                    *)

CheckEmpty(c) ==
    /\ pc[c] = "check"
    /\ Goto(c, IF tasks[c] = <<>> THEN "hlt" ELSE "pop")
    /\ UNCHANGED <<counter, contexts, held, cur, running, sp, life, boot>>

(* hlt returns on the next interrupt, at the latest the periodic timer. *)
HltReturns(c) ==
    /\ pc[c] = "hlt"
    /\ Goto(c, "check")
    /\ UNCHANGED <<counter, contexts, held, cur, running, sp, life, boot>>

Pop(c) ==
    /\ pc[c] = "pop"
    /\ IF tasks[c] = <<>>
       THEN /\ Goto(c, "check")
            /\ UNCHANGED <<tasks, cur>>
       ELSE /\ cur' = [cur EXCEPT ![c] = Head(tasks[c])]
            /\ tasks' = [tasks EXCEPT ![c] = Tail(@)]
            /\ Goto(c, "lookup")
    /\ UNCHANGED <<counter, tasks_map, wakers, held, running, sp, life, boot>>

Lookup(c) ==
    /\ pc[c] = "lookup"
    /\ running' = [running EXCEPT ![c] = tasks_map[c][cur[c]]]
    /\ Goto(c, IF tasks_map[c][cur[c]] = NoFuture THEN "check" ELSE "get_waker")
    /\ UNCHANGED <<counter, contexts, held, cur, sp, life, boot>>

GetWaker(c) ==
    /\ pc[c] = "get_waker"
    /\ wakers' = [wakers EXCEPT ![c] = @ \union {cur[c]}]
    /\ Goto(c, "poll")
    /\ UNCHANGED <<counter, tasks, tasks_map, held, cur, running, sp, life, boot>>

(* TaskWaker::wake: push the ID on the queue of the CPU that owns the task. *)
WakeTask(w) ==
    /\ Len(tasks[w[1]]) < MaxQueue
    /\ tasks' = [tasks EXCEPT ![w[1]] = Append(@, w[2])]

(* What the body of a task may do while it is polled: spawn another future *)
(* (through SPAWNER, or through the Spawner kernel_main was given), wake   *)
(* itself (yield_now), or hand its waker to a channel, a cell, a mutex or  *)
(* the timer list.                                                         *)
PollSpawn(c, f) ==
    /\ pc[c] = "poll"
    /\ IF spawner \/ running[c] = Main
       THEN StartSpawn(c, f, "poll")
       ELSE Goto(c, "panic") /\ UNCHANGED <<sp, life>>
    /\ UNCHANGED <<counter, contexts, held, cur, running, boot>>

PollYield(c) ==
    /\ pc[c] = "poll"
    /\ WakeTask(<<c, cur[c]>>)
    /\ UNCHANGED <<counter, tasks_map, wakers, held, pc, cur, running, sp, life, boot>>

PollPark(c) ==
    /\ pc[c] = "poll"
    /\ <<c, cur[c]>> \notin held
    /\ held' = held \union {<<c, cur[c]>>}
    /\ UNCHANGED <<counter, contexts, pc, cur, running, sp, life, boot>>

PollPending(c) ==
    /\ pc[c] = "poll"
    /\ running' = [running EXCEPT ![c] = NoFuture]
    /\ Goto(c, "check")
    /\ UNCHANGED <<counter, contexts, held, cur, sp, life, boot>>

PollReady(c) ==
    /\ pc[c] = "poll"
    /\ life' = [life EXCEPT ![running[c]] = "done"]
    /\ running' = [running EXCEPT ![c] = NoFuture]
    /\ Goto(c, "remove_task")
    /\ UNCHANGED <<counter, contexts, held, cur, sp, boot>>

RemoveTask(c) ==
    /\ pc[c] = "remove_task"
    /\ tasks_map' = [tasks_map EXCEPT ![c][cur[c]] = NoFuture]
    /\ Goto(c, "remove_waker")
    /\ UNCHANGED <<counter, tasks, wakers, held, cur, running, sp, life, boot>>

RemoveWaker(c) ==
    /\ pc[c] = "remove_waker"
    /\ wakers' = [wakers EXCEPT ![c] = @ \ {cur[c]}]
    /\ Goto(c, "check")
    /\ UNCHANGED <<counter, tasks, tasks_map, held, cur, running, sp, life, boot>>

(* A waker clone is used by an interrupt handler or by a task of any CPU:  *)
(* wake() gives the clone up, wake_by_ref() keeps it.                      *)
Wake(w) ==
    /\ WakeTask(w)
    /\ held' \in {held, held \ {w}}
    /\ UNCHANGED <<counter, tasks_map, wakers, pc, cur, running, sp, life, boot>>

-----------------------------------------------------------------------------
SpawnStep(c) == SpawnLoad(c) \/ SpawnTest(c) \/ SpawnSwap(c) \/ SpawnBalance(c)
                \/ SpawnPush(c) \/ SpawnInsert(c)

BootStep(c) == BootSpawn(c) \/ PublishExecutor(c) \/ PublishSpawner(c)
               \/ PublishReady(c) \/ WaitReady(c) \/ KernelThreadEntry(c)

RunStep(c) == CheckEmpty(c) \/ HltReturns(c) \/ Pop(c) \/ Lookup(c) \/ GetWaker(c)
              \/ (\E f \in Futures : PollSpawn(c, f)) \/ PollYield(c) \/ PollPark(c)
              \/ PollPending(c) \/ PollReady(c) \/ RemoveTask(c) \/ RemoveWaker(c)

CpuStep(c) == SpawnStep(c) \/ BootStep(c) \/ RunStep(c)

Next ==
    \/ \E c \in Cpus : CpuStep(c)
    \/ \E w \in held : Wake(w)

Spec == Init /\ [][Next]_vars

(* A CPU never stops: nothing blocks a CPU except hlt, which the periodic  *)
(* local APIC timer ends, and a poll always returns to the run loop.       *)
FairSpec == Spec /\ \A c \in Cpus : WF_vars(CpuStep(c))

-----------------------------------------------------------------------------
TypeOK ==
    /\ counter \in TaskIDs
    /\ tasks \in [Cpus -> Seq(TaskIDs)]
    /\ tasks_map \in [Cpus -> [TaskIDs -> Futures \union {NoFuture}]]
    /\ wakers \in [Cpus -> SUBSET TaskIDs]
    /\ held \in SUBSET (Cpus \X TaskIDs)
    /\ pc \in [Cpus -> SpawnPcs \union BootPcs \union RunPcs \union {"panic"}]
    /\ cur \in [Cpus -> TaskIDs]
    /\ running \in [Cpus -> Futures \union {NoFuture}]
    /\ sp \in [Cpus -> [future : Futures \union {NoFuture}, id : TaskIDs,
                        wrap : BOOLEAN, best : Cpus, next : 0 .. NCpus,
                        ret : {"poll", "publish_executor", "check"}]]
    /\ life \in [Futures -> {"unborn", "spawned", "done"}]
    /\ executor \in BOOLEAN
    /\ spawner \in BOOLEAN
    /\ ready \in BOOLEAN

(* A future that returned Ready is never polled again, whatever stale IDs  *)
(* its wakers left in the queue (run() removes it from tasks_map before it *)
(* pops the next ID; resuming a finished future would panic).              *)
NeverPolledAfterReady ==
    \A c \in Cpus : running[c] # NoFuture => life[running[c]] = "spawned"

(* "they stay in the same core": no future is polled by two CPUs at once.  *)
PolledByOneCpu ==
    \A c, d \in Cpus : c # d /\ InPoll(c) /\ InPoll(d) => running[c] # running[d]

(* A future is polled by one CPU at a time and never after it is Ready,    *)
(* however often and from wherever it is woken.                            *)
PollsAreSound == NeverPolledAfterReady /\ PolledByOneCpu

(* The waker cache does not leak: an entry belongs to a task that is in    *)
(* the map or that this CPU is polling or removing.                        *)
WakersMatchTasks ==
    \A c \in Cpus : \A i \in wakers[c] :
        \/ tasks_map[c][i] # NoFuture
        \/ cur[c] = i /\ (InPoll(c) \/ pc[c] \in {"remove_task", "remove_waker"})

(* No expect() of the boot hand-over fails: whoever enters the kernel      *)
(* thread sees EXECUTOR, and whoever spawns from a task sees SPAWNER.      *)
NoBootPanic == \A c \in Cpus : pc[c] # "panic"

(* run() is a FIFO without lost entries: a queued ID whose task is in the  *)
(* map is eventually polled (or the task has left the map).                *)
QueuedTaskIsPolled ==
    \A c \in Cpus, i \in TaskIDs :
        (Queued(c, i) /\ tasks_map[c][i] # NoFuture)
            ~> (tasks_map[c][i] = NoFuture \/ (cur[c] = i /\ InPoll(c)))

(* spawn() says "Get ID and increment counter atomically": two tasks that  *)
(* are in the maps at the same time have different IDs.                    *)
TaskIDsAreUnique ==
    \A c, d \in Cpus, i \in TaskIDs :
        c # d /\ tasks_map[c][i] # NoFuture => tasks_map[d][i] = NoFuture

(* kernel_main yields "to let the tasks actually initialize": a spawned    *)
(* future is eventually polled.                                            *)
SpawnedTaskIsPolled ==
    \A f \in Futures :
        life[f] = "spawned" ~> \E c \in Cpus : running[c] = f
=============================================================================
