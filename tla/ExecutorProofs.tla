--------------------------- MODULE ExecutorProofs ---------------------------
(***************************************************************************)
(* PollsAreSound and NoBootPanic for any number of CPUs, any set of        *)
(* futures, any width of the task ID and any length of the queues.         *)
(*                                                                         *)
(* Task IDs are not unique (two spawns may read the same counter), so the  *)
(* argument cannot rest on them.  It follows each future instead: from the *)
(* spawn that carries it, to the one entry of tasks_map it is put in, to   *)
(* the one CPU that polls it, and an insert that overwrites an entry only  *)
(* makes a future disappear.                                               *)
(***************************************************************************)
EXTENDS Executor, TLAPS

(* The entries of all maps, and the future in an entry. *)
Places == Cpus \X TaskIDs
At(p) == tasks_map[p[1]][p[2]]
(* The CPU is inside spawn(); it has a future to poll. *)
InSpawn(c) == pc[c] \in SpawnPcs
Polls(c) == pc[c] = "get_waker" \/ InPoll(c)

(* The locals of a spawn.  The fields are typed where they are read. *)
SpawnsAreTyped ==
    \A c \in Cpus : /\ DOMAIN sp[c] = {"future", "id", "wrap", "best", "next", "ret"}
                    /\ sp[c].id \in TaskIDs /\ sp[c].best \in Cpus
                    /\ pc[c] = "spawn_balance" => sp[c].next \in Cpus
                    /\ InSpawn(c) => sp[c].future \in Futures /\ sp[c].ret \in {"poll", "publish_executor"}

(* The types the proof needs. *)
ExecutorTypeOK ==
    /\ counter \in TaskIDs
    /\ tasks \in [Cpus -> Seq(TaskIDs)]
    /\ tasks_map \in [Cpus -> [TaskIDs -> Futures \union {NoFuture}]]
    /\ held \in SUBSET Places
    /\ pc \in [Cpus -> SpawnPcs \union BootPcs \union RunPcs \union {"panic"}]
    /\ cur \in [Cpus -> TaskIDs]
    /\ running \in [Cpus -> Futures \union {NoFuture}]
    /\ DOMAIN sp = Cpus /\ SpawnsAreTyped
    /\ life \in [Futures -> {"unborn", "spawned", "done"}]

(* The hand-over of the boot: the flag is raised after both cells are set, *)
(* and whoever is in the run loop, or spawns from a task, saw it.          *)
BootIsOrdered ==
    /\ ready => executor /\ spawner
    /\ \A c \in Cpus :
         /\ pc[c] \in {"publish_spawner", "publish_ready"} => executor
         /\ pc[c] = "publish_ready" => spawner
         /\ pc[c] \in RunPcs \union {"kernel_thread"} \/ (InSpawn(c) /\ sp[c].ret = "poll") => ready
         /\ pc[c] # "panic"

(* Spawns in progress carry different futures. *)
SpawnsDiffer ==
    /\ \A c \in Cpus : InSpawn(c) => life[sp[c].future] = "spawned"
    /\ \A c, d \in Cpus : InSpawn(c) /\ InSpawn(d) /\ c # d => sp[c].future # sp[d].future

(* A future is in at most one entry, never while its spawn is in progress, *)
(* and once it is done only in the entry that its CPU is about to remove.  *)
EntryDiffers(p) ==
    At(p) # NoFuture =>
        /\ life[At(p)] = "spawned" \/ (life[At(p)] = "done" /\ pc[p[1]] = "remove_task" /\ cur[p[1]] = p[2])
        /\ \A q \in Places : At(q) = At(p) => q = p
        /\ \A c \in Cpus : InSpawn(c) => sp[c].future # At(p)

EntriesDiffer == \A p \in Places : EntryDiffers(p)

(* A future that is polled is not done, is polled by one CPU, and if it is *)
(* in a map at all (an ID that was reused may have overwritten it) then it *)
(* is in the entry it was taken from.                                      *)
PollIsOwn(c) ==
    /\ running[c] # NoFuture <=> Polls(c)
    /\ running[c] # NoFuture =>
         /\ life[running[c]] = "spawned"
         /\ \A p \in Places : At(p) = running[c] => p = <<c, cur[c]>>
         /\ \A d \in Cpus : d # c => running[d] # running[c]
         /\ \A d \in Cpus : InSpawn(d) => sp[d].future # running[c]

PolledIsOwn == \A c \in Cpus : PollIsOwn(c)

(* The inductive invariant of the futures. *)
TasksInv == ExecutorTypeOK /\ SpawnsDiffer /\ EntriesDiffer /\ PolledIsOwn

-----------------------------------------------------------------------------
(* The points of a CPU and the fields of the locals of a spawn. *)
Pcs == SpawnPcs \union BootPcs \union RunPcs \union {"panic"}
Fields == {"future", "id", "wrap", "best", "next", "ret"}

(* The queues hold task IDs. *)
LEMMA Pushed == ASSUME NEW S, NEW q \in Seq(S), NEW i \in S PROVE Append(q, i) \in Seq(S)
OBVIOUS

LEMMA Popped == ASSUME NEW S, NEW q \in Seq(S), q # <<>> PROVE Head(q) \in S /\ Tail(q) \in Seq(S)
OBVIOUS

(* The steps of the boot and of the run loop between two tasks leave the   *)
(* futures alone.                                                          *)
LEMMA QuietStep ==
    ASSUME ExecutorTypeOK, NEW c \in Cpus,
           PublishExecutor(c) \/ PublishSpawner(c) \/ PublishReady(c) \/ WaitReady(c) \/ KernelThreadEntry(c)
           \/ CheckEmpty(c) \/ HltReturns(c) \/ Pop(c) \/ RemoveWaker(c)
    PROVE  /\ UNCHANGED <<tasks_map, running, life, sp>> /\ pc[c] # "remove_task"
           /\ InSpawn(c)' = InSpawn(c) /\ ~InSpawn(c) /\ Polls(c)' = Polls(c) /\ ~Polls(c)
<1>1. DOMAIN pc = Cpus
  BY DEF ExecutorTypeOK
<1>2. /\ UNCHANGED <<tasks_map, running, life, sp>>
      /\ pc[c] \in BootPcs \union {"check", "hlt", "pop", "remove_waker"}
      /\ pc'[c] \in BootPcs \union {"check", "hlt", "pop", "lookup", "panic"}
  BY <1>1 DEF PublishExecutor, PublishSpawner, PublishReady, WaitReady, KernelThreadEntry, CheckEmpty,
              HltReturns, Pop, RemoveWaker, contexts, BootPcs, Goto
<1> QED BY <1>2 DEF InSpawn, Polls, InPoll, SpawnPcs, BootPcs

(* A step of a CPU moves no other CPU. *)
LEMMA CpuTurn ==
    ASSUME ExecutorTypeOK, NEW c \in Cpus, CpuStep(c), NEW d \in Cpus, d # c
    PROVE  pc'[d] = pc[d] /\ cur'[d] = cur[d] /\ running'[d] = running[d] /\ sp'[d] = sp[d]
<1>1. DOMAIN pc = Cpus /\ DOMAIN cur = Cpus /\ DOMAIN running = Cpus /\ DOMAIN sp = Cpus
  BY DEF ExecutorTypeOK
<1>2. CASE SpawnStep(c)
  BY <1>1, <1>2 DEF SpawnStep, SpawnLoad, SpawnTest, SpawnSwap, SpawnBalance, SpawnPush, SpawnInsert, Goto
<1>3. CASE BootStep(c)
  BY <1>1, <1>3 DEF BootStep, BootSpawn, PublishExecutor, PublishSpawner, PublishReady, WaitReady,
                    KernelThreadEntry, StartSpawn, Goto
<1>4. CASE RunStep(c)
  BY <1>1, <1>4, Zenon
     DEF RunStep, CheckEmpty, HltReturns, Pop, Lookup, GetWaker, PollSpawn, PollYield, PollPark,
                    PollPending, PollReady, RemoveTask, RemoveWaker, StartSpawn, Goto
<1> QED BY <1>2, <1>3, <1>4 DEF CpuStep

(* What a spawn does to the CPU that makes it. *)
LEMMA StartSpawnEffect ==
    ASSUME ExecutorTypeOK, NEW c \in Cpus, NEW f \in Futures, NEW r \in {"poll", "publish_executor"},
           StartSpawn(c, f, r)
    PROVE  /\ life[f] = "unborn" /\ life' = [life EXCEPT ![f] = "spawned"]
           /\ pc' = [pc EXCEPT ![c] = "spawn_load"] /\ pc'[c] = "spawn_load"
           /\ DOMAIN sp' = Cpus /\ DOMAIN sp'[c] = Fields
           /\ sp'[c].future = f /\ sp'[c].ret = r /\ sp'[c].id \in TaskIDs /\ sp'[c].best \in Cpus
<1>1. sp'[c] = [Idle EXCEPT !.future = f, !.ret = r] /\ DOMAIN sp' = Cpus
  BY DEF StartSpawn, ExecutorTypeOK
<1>2. DOMAIN sp'[c] = Fields /\ sp'[c].future = f /\ sp'[c].ret = r /\ sp'[c].id = 0 /\ sp'[c].best = 0
  BY <1>1 DEF Idle, Fields
<1>3. 0 \in TaskIDs /\ 0 \in Cpus
  BY ConstantsOK DEF TaskIDs, Cpus
<1> QED BY <1>1, <1>2, <1>3 DEF StartSpawn, Goto, ExecutorTypeOK

(* What the later steps of a spawn do. *)
LEMMA SpawnEffect ==
    ASSUME ExecutorTypeOK, NEW c \in Cpus,
           SpawnLoad(c) \/ SpawnTest(c) \/ SpawnSwap(c) \/ SpawnBalance(c) \/ SpawnPush(c)
    PROVE  /\ pc[c] \in SpawnPcs /\ DOMAIN sp' = Cpus /\ DOMAIN sp'[c] = Fields
           /\ sp'[c].future = sp[c].future /\ sp'[c].ret = sp[c].ret
           /\ sp'[c].id \in TaskIDs /\ sp'[c].best \in Cpus /\ counter' \in TaskIDs
           /\ \E l \in SpawnPcs : /\ pc' = [pc EXCEPT ![c] = l] /\ pc'[c] = l
                                  /\ l = "spawn_balance" => sp'[c].next \in Cpus
           /\ tasks_map' = tasks_map /\ held' = held /\ cur' = cur /\ running' = running /\ life' = life
           /\ tasks' \in [Cpus -> Seq(TaskIDs)] /\ UNCHANGED boot
<1>1. /\ DOMAIN sp = Cpus /\ DOMAIN sp[c] = Fields /\ sp[c].id \in TaskIDs /\ sp[c].best \in Cpus
      /\ pc[c] = "spawn_balance" => sp[c].next \in Cpus
      /\ counter \in TaskIDs /\ tasks \in [Cpus -> Seq(TaskIDs)] /\ DOMAIN pc = Cpus
      /\ NCpus \in Nat \ {0} /\ U64Max \in Nat
  BY ConstantsOK DEF ExecutorTypeOK, SpawnsAreTyped, Fields
<1>2. CASE SpawnLoad(c)
  <2>1. /\ pc[c] = "spawn_load" /\ pc' = [pc EXCEPT ![c] = "spawn_test"] /\ sp' = [sp EXCEPT ![c].id = counter]
        /\ UNCHANGED <<counter, tasks, tasks_map, held, cur, running, life, boot>>
    BY <1>2 DEF SpawnLoad, Goto, contexts
  <2>2. sp'[c] = [sp[c] EXCEPT !.id = counter] /\ DOMAIN sp' = Cpus
    BY <1>1, <2>1
  <2> QED BY <1>1, <2>1, <2>2 DEF SpawnPcs, Fields, boot
<1>3. CASE SpawnTest(c)
  <2>1. /\ pc[c] = "spawn_test" /\ pc' = [pc EXCEPT ![c] = "spawn_swap"]
        /\ sp' = [sp EXCEPT ![c].wrap = (counter = U64Max)]
        /\ UNCHANGED <<counter, tasks, tasks_map, held, cur, running, life, boot>>
    BY <1>3 DEF SpawnTest, Goto, contexts
  <2>2. sp'[c] = [sp[c] EXCEPT !.wrap = (counter = U64Max)] /\ DOMAIN sp' = Cpus
    BY <1>1, <2>1
  <2> QED BY <1>1, <2>1, <2>2 DEF SpawnPcs, Fields, boot
<1>4. CASE SpawnSwap(c)
  <2> DEFINE l == IF NCpus = 1 THEN "spawn_push" ELSE "spawn_balance"
  <2>1. /\ pc[c] = "spawn_swap" /\ pc' = [pc EXCEPT ![c] = l]
        /\ sp' = [sp EXCEPT ![c].best = 0, ![c].next = 1]
        /\ counter' = IF sp[c].wrap THEN 0 ELSE (sp[c].id + 1) % (U64Max + 1)
        /\ UNCHANGED <<tasks, tasks_map, held, cur, running, life, boot>>
    BY <1>4 DEF SpawnSwap, Goto, contexts
  <2>2. sp'[c] = [sp[c] EXCEPT !.best = 0, !.next = 1] /\ DOMAIN sp' = Cpus
    BY <1>1, <2>1
  <2>3. /\ DOMAIN sp'[c] = Fields /\ sp'[c].best = 0 /\ sp'[c].next = 1 /\ sp'[c].id = sp[c].id
        /\ sp'[c].future = sp[c].future /\ sp'[c].ret = sp[c].ret
    BY <1>1, <2>2 DEF Fields
  <2>4. counter' \in TaskIDs /\ 0 \in Cpus /\ (NCpus # 1 => 1 \in Cpus)
    <3>1. 0 \in TaskIDs /\ (sp[c].id + 1) % (U64Max + 1) \in 0 .. U64Max
      BY <1>1 DEF TaskIDs
    <3> QED BY <1>1, <2>1, <3>1 DEF TaskIDs, Cpus
  <2> QED BY <1>1, <2>1, <2>2, <2>3, <2>4, Zenon DEF SpawnPcs, boot
<1>5. CASE SpawnBalance(c)
  <2> DEFINE k == sp[c].next
             shorter == Len(tasks[k]) < Len(tasks[sp[c].best])
             b == IF shorter THEN k ELSE sp[c].best
             l == IF k + 1 = NCpus THEN "spawn_push" ELSE "spawn_balance"
  <2>1. /\ pc[c] = "spawn_balance" /\ pc' = [pc EXCEPT ![c] = l]
        /\ sp' = [sp EXCEPT ![c].best = IF shorter THEN k ELSE @, ![c].next = k + 1]
        /\ UNCHANGED <<counter, tasks, tasks_map, held, cur, running, life, boot>>
    BY <1>5 DEF SpawnBalance, Goto, contexts
  <2>2. k \in Cpus /\ (k + 1 # NCpus => k + 1 \in Cpus) /\ b \in Cpus
    <3>1. k \in Cpus /\ b \in Cpus
      BY <1>1, <2>1
    <3> HIDE DEF k
    <3> QED BY <1>1, <3>1 DEF Cpus
  <2>3. sp'[c] = [sp[c] EXCEPT !.best = b, !.next = k + 1] /\ DOMAIN sp' = Cpus
    BY <1>1, <2>1
  <2> HIDE DEF b, shorter
  <2>4. /\ DOMAIN sp'[c] = Fields /\ sp'[c].best = b /\ sp'[c].next = k + 1 /\ sp'[c].id = sp[c].id
        /\ sp'[c].future = sp[c].future /\ sp'[c].ret = sp[c].ret
    BY <1>1, <2>3 DEF Fields
  <2> QED BY <1>1, <2>1, <2>2, <2>3, <2>4, Zenon DEF SpawnPcs, boot
<1>6. CASE SpawnPush(c)
  <2>1. /\ pc[c] = "spawn_push" /\ pc' = [pc EXCEPT ![c] = "spawn_insert"]
        /\ tasks' = [tasks EXCEPT ![sp[c].best] = Append(tasks[sp[c].best], sp[c].id)]
        /\ UNCHANGED <<counter, sp, tasks_map, held, cur, running, life, boot>>
    BY <1>6 DEF SpawnPush, Goto
  <2>2. tasks[sp[c].best] \in Seq(TaskIDs)
    BY <1>1
  <2>3. Append(tasks[sp[c].best], sp[c].id) \in Seq(TaskIDs)
    BY <1>1, <2>2, Pushed
  <2>4. tasks' \in [Cpus -> Seq(TaskIDs)]
    BY <1>1, <2>1, <2>3
  <2> QED BY <1>1, <2>1, <2>4 DEF SpawnPcs, boot
<1> QED BY <1>2, <1>3, <1>4, <1>5, <1>6

(* Every step keeps the types. *)
LEMMA CpuKeepsTypes ==
    ASSUME ExecutorTypeOK, BootIsOrdered, NEW c \in Cpus, CpuStep(c)
    PROVE  ExecutorTypeOK'
<1> USE DEF Goto
<1>0. /\ tasks_map \in [Cpus -> [TaskIDs -> Futures \union {NoFuture}]]
      /\ pc \in [Cpus -> Pcs] /\ cur \in [Cpus -> TaskIDs] /\ tasks \in [Cpus -> Seq(TaskIDs)]
      /\ running \in [Cpus -> Futures \union {NoFuture}] /\ DOMAIN sp = Cpus
      /\ life \in [Futures -> {"unborn", "spawned", "done"}] /\ counter \in TaskIDs /\ held \in SUBSET Places
      /\ DOMAIN sp[c] = Fields /\ sp[c].id \in TaskIDs /\ sp[c].best \in Cpus
      /\ Main \in Futures /\ SpawnsAreTyped
  BY ConstantsOK DEF ExecutorTypeOK, Pcs, SpawnsAreTyped, Fields
<1>1. ASSUME /\ counter' \in TaskIDs
             /\ tasks' \in [Cpus -> Seq(TaskIDs)]
             /\ tasks_map' \in [Cpus -> [TaskIDs -> Futures \union {NoFuture}]]
             /\ held' \in SUBSET Places
             /\ pc' \in [Cpus -> Pcs]
             /\ cur' \in [Cpus -> TaskIDs]
             /\ running' \in [Cpus -> Futures \union {NoFuture}]
             /\ life' \in [Futures -> {"unborn", "spawned", "done"}]
             /\ DOMAIN sp' = Cpus /\ DOMAIN sp'[c] = Fields
             /\ sp'[c].id \in TaskIDs /\ sp'[c].best \in Cpus
             /\ pc'[c] = "spawn_balance" => sp'[c].next \in Cpus
             /\ pc'[c] \in SpawnPcs => sp'[c].future \in Futures /\ sp'[c].ret \in {"poll", "publish_executor"}
      PROVE  ExecutorTypeOK'
  <2>1. SpawnsAreTyped'
    <3>1. ASSUME NEW d \in Cpus, d # c PROVE pc'[d] = pc[d] /\ sp'[d] = sp[d]
      BY <3>1, CpuTurn
    <3> QED BY <1>0, <1>1, <3>1, Zenon DEF SpawnsAreTyped, InSpawn, Fields
  <2> QED BY <1>1, <2>1 DEF ExecutorTypeOK, Pcs
<1>2. ASSUME NEW l \in Pcs \ SpawnPcs, pc' = [pc EXCEPT ![c] = l]
      PROVE  pc' \in [Cpus -> Pcs] /\ pc'[c] \notin SpawnPcs /\ pc'[c] # "spawn_balance"
  BY <1>0, <1>2 DEF SpawnPcs
<1>3. CASE SpawnStep(c) /\ ~SpawnInsert(c)
  <2>1. /\ pc[c] \in SpawnPcs /\ DOMAIN sp' = Cpus /\ DOMAIN sp'[c] = Fields
        /\ sp'[c].future = sp[c].future /\ sp'[c].ret = sp[c].ret
        /\ sp'[c].id \in TaskIDs /\ sp'[c].best \in Cpus /\ counter' \in TaskIDs
        /\ \E l \in SpawnPcs : /\ pc' = [pc EXCEPT ![c] = l] /\ pc'[c] = l
                               /\ l = "spawn_balance" => sp'[c].next \in Cpus
        /\ tasks_map' = tasks_map /\ held' = held /\ cur' = cur /\ running' = running /\ life' = life
        /\ tasks' \in [Cpus -> Seq(TaskIDs)]
    BY <1>3, SpawnEffect DEF SpawnStep
  <2>2. pc' \in [Cpus -> Pcs]
    BY <1>0, <2>1 DEF Pcs
  <2>3. sp[c].future \in Futures /\ sp[c].ret \in {"poll", "publish_executor"}
    BY <1>0, <2>1 DEF SpawnsAreTyped, InSpawn
  <2> QED BY <1>0, <1>1, <2>1, <2>2, <2>3
<1>4. CASE SpawnInsert(c)
  <2>1. /\ pc[c] = "spawn_insert" /\ pc' = [pc EXCEPT ![c] = sp[c].ret] /\ sp' = [sp EXCEPT ![c] = Idle]
        /\ tasks_map' = [tasks_map EXCEPT ![sp[c].best][sp[c].id] = sp[c].future]
        /\ UNCHANGED <<counter, tasks, held, cur, running, life>>
    BY <1>4 DEF SpawnInsert
  <2>2. sp[c].future \in Futures /\ sp[c].ret \in {"poll", "publish_executor"}
    BY <1>0, <2>1 DEF SpawnsAreTyped, InSpawn, SpawnPcs
  <2>3. pc' \in [Cpus -> Pcs] /\ pc'[c] \notin SpawnPcs /\ pc'[c] # "spawn_balance"
    BY <1>2, <2>1, <2>2, Zenon DEF Pcs, BootPcs, RunPcs, SpawnPcs
  <2>4. tasks_map' \in [Cpus -> [TaskIDs -> Futures \union {NoFuture}]]
    BY <1>0, <2>1, <2>2
  <2>5. DOMAIN sp' = Cpus /\ sp'[c] = Idle /\ 0 \in TaskIDs /\ 0 \in Cpus
    BY <1>0, <2>1, ConstantsOK DEF TaskIDs, Cpus
  <2>6. DOMAIN sp'[c] = Fields /\ sp'[c].id \in TaskIDs /\ sp'[c].best \in Cpus
    BY <2>5 DEF Idle, Fields
  <2> QED BY <1>0, <1>1, <2>1, <2>3, <2>4, <2>5, <2>6
<1>5. ASSUME NEW f \in Futures, NEW r \in {"poll", "publish_executor"}, StartSpawn(c, f, r),
             UNCHANGED <<counter, contexts, held, cur, running, boot>>
      PROVE  ExecutorTypeOK'
  <2>1. /\ life[f] = "unborn" /\ life' = [life EXCEPT ![f] = "spawned"]
        /\ pc' = [pc EXCEPT ![c] = "spawn_load"] /\ pc'[c] = "spawn_load"
        /\ DOMAIN sp' = Cpus /\ DOMAIN sp'[c] = Fields
        /\ sp'[c].future = f /\ sp'[c].ret = r /\ sp'[c].id \in TaskIDs /\ sp'[c].best \in Cpus
    BY <1>5, StartSpawnEffect
  <2>2. pc' \in [Cpus -> Pcs] /\ pc'[c] # "spawn_balance"
    BY <1>0, <2>1 DEF Pcs, SpawnPcs
  <2>3. life' \in [Futures -> {"unborn", "spawned", "done"}]
    BY <1>0, <2>1
  <2> QED BY <1>0, <1>1, <1>5, <2>1, <2>2, <2>3 DEF contexts
<1>6. CASE BootSpawn(c)
  BY <1>0, <1>5, <1>6 DEF BootSpawn
<1>7. ASSUME NEW f \in Futures, PollSpawn(c, f) PROVE ExecutorTypeOK'
  <2>1. spawner
    BY <1>7 DEF PollSpawn, BootIsOrdered, RunPcs
  <2> QED BY <1>5, <1>7, <2>1 DEF PollSpawn
<1>8. ASSUME NEW l \in Pcs \ SpawnPcs, pc' = [pc EXCEPT ![c] = l], sp' = sp,
             UNCHANGED <<counter, held>>,
             tasks' \in [Cpus -> Seq(TaskIDs)], cur' \in [Cpus -> TaskIDs],
             tasks_map' \in [Cpus -> [TaskIDs -> Futures \union {NoFuture}]],
             running' \in [Cpus -> Futures \union {NoFuture}],
             life' \in [Futures -> {"unborn", "spawned", "done"}]
      PROVE  ExecutorTypeOK'
  BY <1>0, <1>1, <1>2, <1>8, Zenon
<1>9. CASE PublishExecutor(c) \/ PublishSpawner(c) \/ PublishReady(c) \/ WaitReady(c) \/ KernelThreadEntry(c)
           \/ CheckEmpty(c) \/ HltReturns(c) \/ GetWaker(c) \/ RemoveWaker(c)
  <2>1. /\ sp' = sp /\ counter' = counter /\ held' = held /\ tasks' = tasks /\ cur' = cur
        /\ tasks_map' = tasks_map /\ running' = running /\ life' = life
    BY <1>9 DEF PublishExecutor, PublishSpawner, PublishReady, WaitReady, KernelThreadEntry, CheckEmpty,
                HltReturns, GetWaker, RemoveWaker, contexts
  <2>2. PICK l \in Pcs \ SpawnPcs : pc' = [pc EXCEPT ![c] = l]
    BY <1>9 DEF PublishExecutor, PublishSpawner, PublishReady, WaitReady, KernelThreadEntry, CheckEmpty,
                HltReturns, GetWaker, RemoveWaker, Pcs, SpawnPcs, BootPcs, RunPcs
  <2> QED BY <1>0, <1>8, <2>1, <2>2, Zenon
<1>10. CASE Pop(c)
  <2>1. tasks[c] \in Seq(TaskIDs)
    BY <1>0
  <2>2. CASE tasks[c] = <<>>
    BY <1>0, <1>8, <1>10, <2>2 DEF Pop, Pcs, SpawnPcs, RunPcs
  <2>3. CASE tasks[c] # <<>>
    <3>1. Head(tasks[c]) \in TaskIDs /\ Tail(tasks[c]) \in Seq(TaskIDs)
      BY <2>1, <2>3, Popped
    <3>2. /\ cur' = [cur EXCEPT ![c] = Head(tasks[c])] /\ tasks' = [tasks EXCEPT ![c] = Tail(tasks[c])]
          /\ pc' = [pc EXCEPT ![c] = "lookup"]
          /\ UNCHANGED <<counter, tasks_map, held, running, sp, life>>
      BY <1>10, <2>3 DEF Pop
    <3>3. tasks' \in [Cpus -> Seq(TaskIDs)] /\ cur' \in [Cpus -> TaskIDs]
      BY <1>0, <3>1, <3>2
    <3> QED BY <1>0, <1>8, <3>2, <3>3, Zenon DEF Pcs, SpawnPcs, RunPcs
  <2> QED BY <2>2, <2>3
<1>11. CASE Lookup(c)
  <2>1. /\ running' = [running EXCEPT ![c] = tasks_map[c][cur[c]]]
        /\ \E l \in {"check", "get_waker"} : pc' = [pc EXCEPT ![c] = l]
        /\ UNCHANGED <<counter, tasks, tasks_map, held, cur, sp, life>>
    BY <1>11, Zenon DEF Lookup, contexts
  <2>2. running' \in [Cpus -> Futures \union {NoFuture}]
    BY <1>0, <2>1
  <2> QED BY <1>0, <1>8, <2>1, <2>2, Zenon DEF Pcs, SpawnPcs, RunPcs
<1>12. CASE PollPending(c)
  BY <1>0, <1>8, <1>12, Zenon DEF PollPending, contexts, Pcs, SpawnPcs, RunPcs
<1>13. CASE PollReady(c)
  <2>1. life' \in [Futures -> {"unborn", "spawned", "done"}]
    BY <1>0, <1>13, Zenon DEF PollReady
  <2> QED BY <1>0, <1>8, <1>13, <2>1, Zenon DEF PollReady, contexts, Pcs, SpawnPcs, RunPcs
<1>14. CASE RemoveTask(c)
  <2>1. tasks_map' \in [Cpus -> [TaskIDs -> Futures \union {NoFuture}]]
    BY <1>0, <1>14 DEF RemoveTask
  <2> QED BY <1>0, <1>8, <1>14, <2>1, Zenon DEF RemoveTask, Pcs, SpawnPcs, RunPcs
<1>15. CASE PollYield(c)
  <2>1. /\ tasks' = [tasks EXCEPT ![c] = Append(tasks[c], cur[c])] /\ pc[c] = "poll"
        /\ UNCHANGED <<counter, tasks_map, held, pc, cur, running, sp, life>>
    BY <1>15 DEF PollYield, WakeTask
  <2>2. Append(tasks[c], cur[c]) \in Seq(TaskIDs)
    BY <1>0, Pushed
  <2>3. tasks' \in [Cpus -> Seq(TaskIDs)]
    BY <1>0, <2>1, <2>2
  <2> QED BY <1>0, <1>1, <2>1, <2>3 DEF SpawnPcs
<1>16. CASE PollPark(c)
  <2>1. /\ held' = held \union {<<c, cur[c]>>} /\ pc[c] = "poll"
        /\ UNCHANGED <<counter, tasks, tasks_map, pc, cur, running, sp, life>>
    BY <1>16 DEF PollPark, contexts
  <2>2. <<c, cur[c]>> \in Places
    BY <1>0 DEF Places
  <2> QED BY <1>0, <1>1, <2>1, <2>2, Zenon DEF SpawnPcs
<1> QED BY <1>3, <1>4, <1>6, <1>7, <1>9, <1>10, <1>11, <1>12, <1>13, <1>14, <1>15, <1>16
        DEF CpuStep, SpawnStep, BootStep, RunStep

(* A wake-up from outside pushes an ID on a queue, and nothing more. *)
LEMMA WakeEffect ==
    ASSUME ExecutorTypeOK, NEW w \in held, Wake(w)
    PROVE  ExecutorTypeOK' /\ UNCHANGED <<tasks_map, pc, cur, running, sp, life, boot>>
<1>1. /\ UNCHANGED <<counter, tasks_map, wakers, pc, cur, running, sp, life, boot>>
      /\ tasks' = [tasks EXCEPT ![w[1]] = Append(tasks[w[1]], w[2])] /\ held' \in {held, held \ {w}}
  BY DEF Wake, WakeTask
<1>2. w[1] \in Cpus /\ w[2] \in TaskIDs /\ tasks \in [Cpus -> Seq(TaskIDs)]
  BY DEF ExecutorTypeOK, Places
<1>3. Append(tasks[w[1]], w[2]) \in Seq(TaskIDs)
  BY <1>2, Pushed
<1>4. tasks' \in [Cpus -> Seq(TaskIDs)] /\ held' \in SUBSET Places
  BY <1>1, <1>2, <1>3 DEF ExecutorTypeOK
<1>5. SpawnsAreTyped'
  BY <1>1 DEF ExecutorTypeOK, SpawnsAreTyped, InSpawn
<1> QED BY <1>1, <1>4, <1>5 DEF ExecutorTypeOK

-----------------------------------------------------------------------------
(* The boot hand-over goes on in its order. *)
LEMMA CpuKeepsBoot ==
    ASSUME ExecutorTypeOK, BootIsOrdered, NEW c \in Cpus, CpuStep(c)
    PROVE  BootIsOrdered'
<1> USE DEF Goto
<1>0. /\ DOMAIN pc = Cpus /\ pc[c] # "panic"
      /\ pc[c] \in SpawnPcs => sp[c].ret \in {"poll", "publish_executor"}
  BY DEF ExecutorTypeOK, BootIsOrdered, SpawnsAreTyped, InSpawn
<1>1. ASSUME NEW d \in Cpus, d # c PROVE pc'[d] = pc[d] /\ sp'[d] = sp[d]
  BY <1>1, CpuTurn
<1>2. ASSUME executor => executor', spawner => spawner', ready => ready',
             ready' => executor' /\ spawner',
             pc'[c] \in {"publish_spawner", "publish_ready"} => executor',
             pc'[c] = "publish_ready" => spawner',
             pc'[c] \in RunPcs \union {"kernel_thread"} \/ (pc'[c] \in SpawnPcs /\ sp'[c].ret = "poll") => ready',
             pc'[c] # "panic"
      PROVE  BootIsOrdered'
  BY <1>1, <1>2 DEF BootIsOrdered, InSpawn
<1> USE DEF RunPcs, SpawnPcs
<1>3. CASE SpawnStep(c) /\ ~SpawnInsert(c)
  <2>1. /\ pc[c] \in SpawnPcs /\ pc'[c] \in SpawnPcs /\ sp'[c].ret = sp[c].ret /\ UNCHANGED boot
    BY <1>3, SpawnEffect DEF SpawnStep
  <2> QED BY <1>2, <2>1, Zenon DEF BootIsOrdered, boot, InSpawn
<1>4. CASE SpawnInsert(c)
  <2>1. pc[c] = "spawn_insert" /\ pc'[c] = sp[c].ret /\ UNCHANGED boot
    BY <1>0, <1>4, Zenon DEF SpawnInsert
  <2> QED BY <1>0, <1>2, <2>1 DEF BootIsOrdered, boot, InSpawn
<1>5. CASE BootSpawn(c)
  <2>1. pc'[c] = "spawn_load" /\ sp'[c].ret = "publish_executor" /\ UNCHANGED boot
    BY <1>5, StartSpawnEffect, ConstantsOK DEF BootSpawn
  <2> QED BY <1>2, <2>1 DEF BootIsOrdered, boot
<1>6. ASSUME NEW f \in Futures, PollSpawn(c, f) PROVE BootIsOrdered'
  <2>1. pc[c] = "poll" /\ ready /\ spawner /\ UNCHANGED boot
    BY <1>6 DEF PollSpawn, BootIsOrdered
  <2>2. pc'[c] = "spawn_load" /\ sp'[c].ret = "poll"
    BY <1>6, <2>1, StartSpawnEffect DEF PollSpawn
  <2> QED BY <1>2, <2>1, <2>2 DEF BootIsOrdered, boot
<1>7. CASE PublishExecutor(c) \/ PublishSpawner(c) \/ PublishReady(c)
  BY <1>0, <1>2, <1>7 DEF PublishExecutor, PublishSpawner, PublishReady, BootIsOrdered
<1>8. CASE WaitReady(c) \/ KernelThreadEntry(c)
  BY <1>0, <1>2, <1>8, Zenon DEF WaitReady, KernelThreadEntry, BootIsOrdered, boot
<1>9. CASE CheckEmpty(c) \/ HltReturns(c) \/ Pop(c) \/ Lookup(c) \/ GetWaker(c) \/ PollYield(c) \/ PollPark(c)
           \/ PollPending(c) \/ PollReady(c) \/ RemoveTask(c) \/ RemoveWaker(c)
  <2>1. pc[c] \in RunPcs /\ pc'[c] \in RunPcs /\ UNCHANGED boot
    BY <1>0, <1>9
       DEF CheckEmpty, HltReturns, Pop, Lookup, GetWaker, PollYield, PollPark, PollPending, PollReady,
                      RemoveTask, RemoveWaker
  <2> QED BY <1>2, <2>1 DEF BootIsOrdered, boot
<1> QED BY <1>3, <1>4, <1>5, <1>6, <1>7, <1>8, <1>9 DEF CpuStep, SpawnStep, BootStep, RunStep

(* What an entry must satisfy after a step that leaves the maps alone. *)
LEMMA EntryMoves ==
    ASSUME NEW p \in Places, \A q \in Places : At(q)' = At(q),
           At(p) # NoFuture =>
               /\ life'[At(p)] = "spawned"
                  \/ (life'[At(p)] = "done" /\ pc'[p[1]] = "remove_task" /\ cur'[p[1]] = p[2])
               /\ \A q \in Places : At(q) = At(p) => q = p
               /\ \A d \in Cpus : InSpawn(d)' => sp'[d].future # At(p)
    PROVE  EntryDiffers(p)'
BY DEF EntryDiffers

(* A step that neither starts nor ends a spawn, a poll or a task keeps     *)
(* each future in its place.                                               *)
LEMMA AsideOfTasks ==
    ASSUME SpawnsDiffer, EntriesDiffer, PolledIsOwn,
           UNCHANGED <<tasks_map, running, life>>,
           \A d \in Cpus : /\ InSpawn(d)' = InSpawn(d) /\ (InSpawn(d) => sp'[d].future = sp[d].future)
                           /\ Polls(d)' = Polls(d)
                           /\ Polls(d) \/ pc[d] = "remove_task" => cur'[d] = cur[d]
                           /\ pc[d] = "remove_task" => pc'[d] = "remove_task"
    PROVE  SpawnsDiffer' /\ EntriesDiffer' /\ PolledIsOwn'
<1>1. SpawnsDiffer'
  BY DEF SpawnsDiffer
<1>2. \A p \in Places : At(p)' = At(p) /\ p[1] \in Cpus
  BY DEF At, Places
<1>3. EntriesDiffer'
  <2>1. ASSUME NEW p \in Places PROVE EntryDiffers(p)'
    <3>1. EntryDiffers(p) /\ At(p)' = At(p) /\ p[1] \in Cpus
      BY <1>2 DEF EntriesDiffer
    <3> QED BY <1>2, <3>1 DEF EntryDiffers
  <2> QED BY <2>1 DEF EntriesDiffer, Places
<1>4. PolledIsOwn'
  <2>1. ASSUME NEW d \in Cpus PROVE PollIsOwn(d)'
    <3>1. PollIsOwn(d)
      BY DEF PolledIsOwn
    <3> QED BY <1>2, <3>1 DEF PollIsOwn
  <2> QED BY <2>1 DEF PolledIsOwn
<1> QED BY <1>1, <1>3, <1>4, Zenon

(* A future that is spawned is in no other place. *)
LEMMA SpawnKeepsTasks ==
    ASSUME TasksInv, NEW c \in Cpus, NEW f \in Futures, NEW r \in {"poll", "publish_executor"},
           StartSpawn(c, f, r), UNCHANGED <<tasks_map, cur, running>>, ~InSpawn(c), pc[c] # "remove_task",
           Polls(c) <=> r = "poll", \A d \in Cpus : d # c => pc'[d] = pc[d] /\ sp'[d] = sp[d]
    PROVE  SpawnsDiffer' /\ EntriesDiffer' /\ PolledIsOwn'
<1> USE DEF TasksInv
<1>1. /\ life[f] = "unborn" /\ life' = [life EXCEPT ![f] = "spawned"]
      /\ pc'[c] = "spawn_load" /\ sp'[c].future = f /\ sp'[c].ret = r
      /\ life \in [Futures -> {"unborn", "spawned", "done"}]
      /\ running \in [Cpus -> Futures \union {NoFuture}]
      /\ tasks_map \in [Cpus -> [TaskIDs -> Futures \union {NoFuture}]]
  <2>1. ExecutorTypeOK
    OBVIOUS
  <2>2. /\ life[f] = "unborn" /\ life' = [life EXCEPT ![f] = "spawned"]
        /\ pc'[c] = "spawn_load" /\ sp'[c].future = f /\ sp'[c].ret = r
    BY <2>1, StartSpawnEffect
  <2> QED BY <2>1, <2>2 DEF ExecutorTypeOK
<1>2. \A d \in Cpus : InSpawn(d) => sp[d].future # f /\ sp[d].future \in Futures
  BY <1>1 DEF SpawnsDiffer, ExecutorTypeOK, SpawnsAreTyped
<1>3. \A p \in Places : At(p) # f /\ At(p) \in Futures \union {NoFuture}
  <2>1. ASSUME NEW p \in Places PROVE At(p) # f /\ At(p) \in Futures \union {NoFuture}
    <3>1. At(p) \in Futures \union {NoFuture} /\ f # NoFuture
      BY <1>1, ConstantsOK DEF At, Places
    <3> QED BY <1>1, <3>1 DEF EntriesDiffer, EntryDiffers
  <2> QED BY <2>1
<1>4. \A d \in Cpus : running[d] # f /\ running[d] \in Futures \union {NoFuture}
  BY <1>1, ConstantsOK, Zenon DEF PolledIsOwn, PollIsOwn
<1>5. \A g \in Futures : g # f => life'[g] = life[g]
  BY <1>1
<1>6. \A d \in Cpus : InSpawn(d)' <=> d = c \/ InSpawn(d)
  BY <1>1 DEF InSpawn, SpawnPcs
<1>7. \A d \in Cpus : Polls(d)' = Polls(d)
  <2>1. Polls(c)' = Polls(c)
    BY <1>1 DEF Polls, InPoll, SpawnPcs
  <2>2. ASSUME NEW d \in Cpus, d # c PROVE Polls(d)' = Polls(d)
    BY <2>2, Zenon DEF Polls, InPoll
  <2> QED BY <2>1, <2>2
<1>8. SpawnsDiffer'
  <2>1. life'[f] = "spawned"
    BY <1>1
  <2>2. ASSUME NEW d \in Cpus, InSpawn(d)' PROVE life'[sp'[d].future] = "spawned"
    <3>1. CASE d = c
      BY <1>1, <2>1, <3>1, Zenon
    <3>2. CASE d # c
      BY <1>2, <1>5, <1>6, <2>2, <3>2 DEF SpawnsDiffer
    <3> QED BY <3>1, <3>2
  <2>3. ASSUME NEW d \in Cpus, NEW e \in Cpus, InSpawn(d)', InSpawn(e)', d # e PROVE sp'[d].future # sp'[e].future
    <3>1. CASE d = c
      BY <1>1, <1>2, <1>6, <2>3, <3>1, Zenon
    <3>2. CASE e = c
      BY <1>1, <1>2, <1>6, <2>3, <3>2
    <3>3. CASE d # c /\ e # c
      BY <1>6, <2>3, <3>3 DEF SpawnsDiffer
    <3> QED BY <3>1, <3>2, <3>3, Zenon
  <2> QED BY <2>2, <2>3 DEF SpawnsDiffer
<1>9. \A p \in Places : At(p)' = At(p)
  BY DEF At
<1>10. EntriesDiffer'
  <2>1. ASSUME NEW p \in Places, At(p) # NoFuture
        PROVE  /\ life'[At(p)] = "spawned"
                  \/ (life'[At(p)] = "done" /\ pc'[p[1]] = "remove_task" /\ cur'[p[1]] = p[2])
               /\ \A q \in Places : At(q) = At(p) => q = p
               /\ \A d \in Cpus : InSpawn(d)' => sp'[d].future # At(p)
    <3>1. life'[At(p)] = life[At(p)]
      BY <1>3, <1>5, <2>1
    <3>2. p[1] \in Cpus
      BY Zenon DEF Places
    <3>3. EntryDiffers(p)
      BY Zenon DEF EntriesDiffer
    <3>4. \A d \in Cpus : InSpawn(d)' => sp'[d].future # At(p)
      BY <1>1, <1>3, <1>6, <2>1, <3>3 DEF EntryDiffers
    <3> QED BY <2>1, <3>1, <3>2, <3>3, <3>4 DEF EntryDiffers
  <2>2. ASSUME NEW p \in Places PROVE EntryDiffers(p)'
    BY <1>9, <2>1, <2>2, EntryMoves, Zenon
  <2> QED BY <2>2, Zenon DEF EntriesDiffer, Places
<1>11. PolledIsOwn'
  <2>1. ASSUME NEW d \in Cpus, running[d] # NoFuture
        PROVE  /\ life'[running[d]] = "spawned"
               /\ \A e \in Cpus : InSpawn(e)' => sp'[e].future # running[d]
    <3>1. PollIsOwn(d) /\ running[d] \in Futures /\ running[d] # f
      BY <1>4, <2>1, Zenon DEF PolledIsOwn
    <3> QED BY <1>1, <1>5, <1>6, <2>1, <3>1, Zenon DEF PollIsOwn
  <2>2. ASSUME NEW d \in Cpus PROVE PollIsOwn(d)'
    <3>1. PollIsOwn(d)
      BY Zenon DEF PolledIsOwn
    <3> QED BY <1>7, <1>9, <2>1, <3>1 DEF PollIsOwn
  <2> QED BY <2>2, Zenon DEF PolledIsOwn
<1> QED BY <1>8, <1>10, <1>11

(* What was spawned moves into the map of the CPU chosen for it. *)
LEMMA InsertKeepsTasks ==
    ASSUME TasksInv, NEW c \in Cpus, SpawnInsert(c), \A d \in Cpus : d # c => pc'[d] = pc[d] /\ sp'[d] = sp[d]
    PROVE  SpawnsDiffer' /\ EntriesDiffer' /\ PolledIsOwn'
<1> USE DEF TasksInv
<1> DEFINE f == sp[c].future
           r == sp[c].ret
           h == <<sp[c].best, sp[c].id>>
<1>1. /\ pc[c] = "spawn_insert" /\ pc' = [pc EXCEPT ![c] = r]
      /\ tasks_map' = [tasks_map EXCEPT ![sp[c].best][sp[c].id] = f]
      /\ cur' = cur /\ running' = running /\ life' = life
  BY DEF SpawnInsert, Goto
<1>2. /\ f \in Futures /\ f # NoFuture /\ r \in {"poll", "publish_executor"} /\ InSpawn(c) /\ h \in Places
      /\ sp[c].best \in Cpus /\ sp[c].id \in TaskIDs
      /\ tasks_map \in [Cpus -> [TaskIDs -> Futures \union {NoFuture}]] /\ DOMAIN pc = Cpus
  BY <1>1, ConstantsOK DEF ExecutorTypeOK, SpawnsAreTyped, InSpawn, SpawnPcs, Places
<1>3. /\ pc'[c] = r
      /\ \A d \in Cpus : InSpawn(d)' <=> d # c /\ InSpawn(d)
  BY <1>1, <1>2 DEF InSpawn, SpawnPcs
<1>4. \A d \in Cpus : Polls(d)' = Polls(d)
  <2>1. Polls(c)' = Polls(c)
    BY <1>1, <1>2, <1>3 DEF Polls, InPoll, SpawnPcs
  <2>2. ASSUME NEW d \in Cpus, d # c PROVE Polls(d)' = Polls(d)
    BY <2>2 DEF Polls, InPoll
  <2> QED BY <2>1, <2>2, Zenon
<1>5. \A p \in Places : At(p)' = IF p = h THEN f ELSE At(p)
  <2>1. ASSUME NEW d \in Cpus, NEW i \in TaskIDs
        PROVE  tasks_map'[d][i] = IF d = sp[c].best /\ i = sp[c].id THEN f ELSE tasks_map[d][i]
    BY <1>1, <1>2
  <2>2. ASSUME NEW p \in Places PROVE At(p)' = IF p = h THEN f ELSE At(p)
    <3>1. p[1] \in Cpus /\ p[2] \in TaskIDs /\ p = <<p[1], p[2]>>
      BY DEF Places
    <3>2. p = h <=> p[1] = sp[c].best /\ p[2] = sp[c].id
      BY <3>1
    <3> HIDE DEF f, h
    <3> QED BY <2>1, <3>1, <3>2 DEF At
  <2> QED BY <2>2
<1>6. /\ life[f] = "spawned" /\ \A d \in Cpus : InSpawn(d) /\ d # c => sp[d].future # f
      /\ \A d \in Cpus : running[d] # f
      /\ \A p \in Places : At(p) # f
  BY <1>2 DEF SpawnsDiffer, EntriesDiffer, EntryDiffers, PolledIsOwn, PollIsOwn
<1> HIDE DEF f, h, r
<1>7. SpawnsDiffer'
  BY <1>1, <1>3 DEF SpawnsDiffer
<1>8. EntriesDiffer'
  <2>1. ASSUME NEW p \in Places, At(p)' # NoFuture
        PROVE  /\ life[At(p)'] = "spawned"
                  \/ (life[At(p)'] = "done" /\ pc'[p[1]] = "remove_task" /\ cur[p[1]] = p[2])
               /\ \A q \in Places : At(q)' = At(p)' => q = p
               /\ \A d \in Cpus : InSpawn(d)' => sp'[d].future # At(p)'
    <3>1. CASE p = h
      BY <1>3, <1>5, <1>6, <3>1, Zenon
    <3>2. CASE p # h
      <4>1. At(p)' = At(p) /\ At(p) # NoFuture
        BY <1>5, <2>1, <3>2
      <4>2. pc[p[1]] = "remove_task" => pc'[p[1]] = "remove_task"
        <5>1. p[1] \in Cpus
          BY DEF Places
        <5> QED BY <1>1, <5>1
      <4>3. EntryDiffers(p)
        BY Zenon DEF EntriesDiffer
      <4>4. \A q \in Places : At(q)' = At(p)' => q = p
        BY <1>5, <1>6, <4>1, <4>3 DEF EntryDiffers
      <4> QED BY <1>3, <4>1, <4>2, <4>3, <4>4 DEF EntryDiffers
    <3> QED BY <3>1, <3>2, Zenon
  <2>2. ASSUME NEW p \in Places PROVE EntryDiffers(p)'
    BY <1>1, <2>1 DEF EntryDiffers
  <2> QED BY <2>2 DEF EntriesDiffer, Places
<1>9. PolledIsOwn'
  <2>1. ASSUME NEW d \in Cpus, running[d] # NoFuture
        PROVE  /\ \A p \in Places : At(p)' = running[d] => p = <<d, cur[d]>>
               /\ \A e \in Cpus : InSpawn(e)' => sp'[e].future # running[d]
    <3>1. PollIsOwn(d)
      BY DEF PolledIsOwn
    <3> QED BY <1>3, <1>5, <1>6, <2>1, <3>1, Zenon DEF PollIsOwn
  <2>2. ASSUME NEW d \in Cpus PROVE PollIsOwn(d)'
    <3>1. PollIsOwn(d)
      BY DEF PolledIsOwn
    <3> QED BY <1>1, <1>4, <2>1, <3>1, Zenon DEF PollIsOwn
  <2> QED BY <2>2, Zenon DEF PolledIsOwn
<1> QED BY <1>7, <1>8, <1>9

(* The run loop takes a future out of its own map to poll it. *)
LEMMA LookupKeepsTasks ==
    ASSUME TasksInv, NEW c \in Cpus, Lookup(c), \A d \in Cpus : d # c => pc'[d] = pc[d] /\ sp'[d] = sp[d]
    PROVE  SpawnsDiffer' /\ EntriesDiffer' /\ PolledIsOwn'
<1> USE DEF TasksInv
<1> DEFINE h == <<c, cur[c]>>
<1>1. /\ pc[c] = "lookup" /\ running' = [running EXCEPT ![c] = At(h)]
      /\ pc' = [pc EXCEPT ![c] = IF At(h) = NoFuture THEN "check" ELSE "get_waker"]
      /\ UNCHANGED <<tasks_map, cur, sp, life>>
  BY DEF Lookup, Goto, contexts, At
<1>2. h \in Places /\ DOMAIN pc = Cpus /\ DOMAIN running = Cpus
  BY DEF ExecutorTypeOK, Places
<1>3. /\ pc'[c] = IF At(h) = NoFuture THEN "check" ELSE "get_waker"
      /\ running'[c] = At(h) /\ \A d \in Cpus : d # c => running'[d] = running[d]
  BY <1>1, <1>2
<1>4. \A d \in Cpus : InSpawn(d)' = InSpawn(d)
  BY <1>1, <1>3 DEF InSpawn, SpawnPcs
<1>5. \A d \in Cpus : d # c => Polls(d)' = Polls(d)
  BY <1>1 DEF Polls, InPoll
<1>6. Polls(c)' <=> At(h) # NoFuture
  BY <1>3 DEF Polls, InPoll, SpawnPcs
<1>7. \A p \in Places : At(p)' = At(p)
  BY <1>1, Zenon DEF At
<1>8. SpawnsDiffer'
  BY <1>1, <1>4, Zenon DEF SpawnsDiffer
<1>9. EntriesDiffer'
  <2>1. ASSUME NEW p \in Places, pc[p[1]] = "remove_task" PROVE pc'[p[1]] = "remove_task"
    <3>1. p[1] \in Cpus
      BY DEF Places
    <3> QED BY <1>1, <2>1, <3>1, Zenon
  <2>2. ASSUME NEW p \in Places PROVE EntryDiffers(p)'
    <3>1. EntryDiffers(p)
      BY DEF EntriesDiffer
    <3> QED BY <1>1, <1>4, <1>7, <2>1, <3>1 DEF EntryDiffers
  <2> QED BY <2>2 DEF EntriesDiffer, Places
<1>10. PolledIsOwn'
  <2>1. ASSUME At(h) # NoFuture
        PROVE  /\ life[At(h)] = "spawned"
               /\ \A p \in Places : At(p) = At(h) => p = h
               /\ \A d \in Cpus : d # c => running[d] # At(h)
               /\ \A d \in Cpus : InSpawn(d) => sp[d].future # At(h)
    <3>1. life[At(h)] = "spawned"
      BY <1>1, <1>2, <2>1, Zenon DEF EntriesDiffer, EntryDiffers
    <3>2. \A d \in Cpus : d # c => running[d] # At(h)
      BY <1>2, <2>1, Zenon DEF PolledIsOwn, PollIsOwn
    <3> QED BY <1>2, <2>1, <3>1, <3>2, Zenon DEF EntriesDiffer, EntryDiffers
  <2> HIDE DEF h
  <2>2. ASSUME NEW d \in Cpus, d # c PROVE PollIsOwn(d)'
    <3>1. PollIsOwn(d) /\ running'[d] = running[d]
      BY <1>3, <2>2, Zenon DEF PolledIsOwn
    <3>2. \A e \in Cpus : e # d /\ running[d] # NoFuture => running'[e] # running'[d]
      <4>1. running[d] # NoFuture => \A e \in Cpus : e # d => running[e] # running[d]
        BY <3>1, Zenon DEF PollIsOwn
      <4>2. running[d] # NoFuture => At(h) # running[d]
        BY <2>1, <2>2, Zenon
      <4> QED BY <1>3, <3>1, <4>1, <4>2
    <3> QED BY <1>1, <1>4, <1>5, <1>7, <2>2, <3>1, <3>2 DEF PollIsOwn
  <2>3. PollIsOwn(c)'
    BY <1>1, <1>3, <1>4, <1>6, <1>7, <2>1 DEF PollIsOwn, h
  <2> QED BY <2>2, <2>3, Zenon DEF PolledIsOwn
<1> QED BY <1>8, <1>9, <1>10

-----------------------------------------------------------------------------
(* A poll ends; a future that is done is at most where it is about to be   *)
(* removed from.                                                           *)
LEMMA PollEndKeepsTasks ==
    ASSUME TasksInv, NEW c \in Cpus, PollPending(c) \/ PollReady(c),
           \A d \in Cpus : d # c => pc'[d] = pc[d] /\ sp'[d] = sp[d]
    PROVE  SpawnsDiffer' /\ EntriesDiffer' /\ PolledIsOwn'
<1> USE DEF TasksInv
<1> DEFINE f == running[c]
<1>1. /\ pc[c] = "poll" /\ running' = [running EXCEPT ![c] = NoFuture]
      /\ UNCHANGED <<tasks_map, cur, sp>>
      /\ \/ pc' = [pc EXCEPT ![c] = "check"] /\ life' = life
         \/ pc' = [pc EXCEPT ![c] = "remove_task"] /\ life' = [life EXCEPT ![f] = "done"]
  BY Zenon DEF PollPending, PollReady, Goto, contexts
<1>2. /\ DOMAIN pc = Cpus /\ DOMAIN running = Cpus /\ DOMAIN life = Futures
      /\ f \in Futures \union {NoFuture} /\ Polls(c)
  BY <1>1 DEF ExecutorTypeOK, Polls, InPoll
<1>3. /\ f \in Futures /\ f # NoFuture /\ life[f] = "spawned"
      /\ \A p \in Places : At(p) = f => p = <<c, cur[c]>>
      /\ \A d \in Cpus : d # c => running[d] # f
      /\ \A d \in Cpus : InSpawn(d) => sp[d].future # f
  BY <1>2, Zenon DEF PolledIsOwn, PollIsOwn
<1>4. /\ pc'[c] \in {"check", "remove_task"} /\ (pc'[c] = "check" => life' = life)
      /\ \A g \in Futures : g # f => life'[g] = life[g]
      /\ life'[f] = "spawned" \/ (life'[f] = "done" /\ pc'[c] = "remove_task")
      /\ running'[c] = NoFuture /\ \A d \in Cpus : d # c => running'[d] = running[d]
  <2>1. running'[c] = NoFuture /\ \A d \in Cpus : d # c => running'[d] = running[d]
    BY <1>1, <1>2
  <2>2. pc'[c] \in {"check", "remove_task"} /\ (pc'[c] = "check" => life' = life)
    BY <1>1, <1>2, Zenon
  <2> HIDE DEF f
  <2>3. /\ \A g \in Futures : g # f => life'[g] = life[g]
        /\ life'[f] = "spawned" \/ (life'[f] = "done" /\ pc'[c] = "remove_task")
    BY <1>1, <1>2, <1>3, Zenon
  <2> QED BY <2>1, <2>2, <2>3, Zenon
<1>5. /\ \A d \in Cpus : InSpawn(d)' = InSpawn(d)
      /\ \A d \in Cpus : d # c => Polls(d)' = Polls(d)
      /\ ~Polls(c)'
  <2>1. \A d \in Cpus : InSpawn(d)' = InSpawn(d)
    BY <1>1, <1>4 DEF InSpawn, SpawnPcs
  <2>2. \A d \in Cpus : d # c => Polls(d)' = Polls(d)
    BY <1>1 DEF Polls, InPoll
  <2>3. ~Polls(c)'
    BY <1>4 DEF Polls, InPoll, SpawnPcs
  <2> QED BY <2>1, <2>2, <2>3, Zenon
<1>6. \A p \in Places : At(p)' = At(p) /\ At(p) \in Futures \union {NoFuture} /\ p[1] \in Cpus
  BY <1>1 DEF At, Places, ExecutorTypeOK
<1>7. \A d \in Cpus : InSpawn(d) => sp[d].future \in Futures
  BY Zenon DEF ExecutorTypeOK, SpawnsAreTyped
<1> HIDE DEF f
<1>8. SpawnsDiffer'
  <2>1. ASSUME NEW d \in Cpus, InSpawn(d) PROVE life'[sp[d].future] = life[sp[d].future]
    BY <1>3, <1>4, <1>7, <2>1, Zenon
  <2>2. sp' = sp /\ \A d \in Cpus : InSpawn(d)' = InSpawn(d)
    BY <1>1, <1>5, Zenon
  <2> QED BY <2>1, <2>2 DEF SpawnsDiffer
<1>9. EntriesDiffer'
  <2>1. ASSUME NEW p \in Places, At(p) # NoFuture
        PROVE  /\ life'[At(p)] = "spawned"
                  \/ (life'[At(p)] = "done" /\ pc'[p[1]] = "remove_task" /\ cur[p[1]] = p[2])
               /\ \A q \in Places : At(q) = At(p) => q = p
               /\ \A d \in Cpus : InSpawn(d) => sp[d].future # At(p)
    <3>1. CASE At(p) = f
      <4>0. p = <<c, cur[c]>>
        BY <1>3, <3>1, Zenon
      <4>1. p[1] = c /\ p[2] = cur[c]
        BY <4>0
      <4>2. EntryDiffers(p)
        BY Zenon DEF EntriesDiffer
      <4> QED BY <1>4, <2>1, <3>1, <4>1, <4>2, Zenon DEF EntryDiffers
    <3>2. CASE At(p) # f
      <4>1. life'[At(p)] = life[At(p)]
        BY <1>4, <1>6, <2>1, <3>2, Zenon
      <4>2. pc[p[1]] = "remove_task" => pc'[p[1]] = pc[p[1]]
        <5>1. pc[c] = "poll" /\ p[1] \in Cpus
          BY <1>1, <1>6, Zenon
        <5> QED BY <5>1
      <4>3. EntryDiffers(p)
        BY Zenon DEF EntriesDiffer
      <4> QED BY <2>1, <4>1, <4>2, <4>3, Zenon DEF EntryDiffers
    <3> QED BY <3>1, <3>2, Zenon
  <2>2. ASSUME NEW p \in Places PROVE EntryDiffers(p)'
    <3>1. \A q \in Places : At(q)' = At(q)
      BY <1>6, Zenon
    <3>2. cur' = cur /\ \A d \in Cpus : InSpawn(d)' => InSpawn(d) /\ sp'[d] = sp[d]
      BY <1>1, <1>5, Zenon
    <3> QED BY <2>1, <2>2, <3>1, <3>2, EntryMoves
  <2> QED BY <2>2, Zenon DEF EntriesDiffer, Places
<1>10. PolledIsOwn'
  <2>1. ASSUME NEW d \in Cpus, d # c, running[d] # NoFuture
        PROVE  /\ life'[running[d]] = "spawned"
               /\ \A e \in Cpus : e # d => running'[e] # running[d]
    <3>1. running[d] \in Futures /\ running[d] # f
      BY <1>3, <2>1 DEF ExecutorTypeOK
    <3>2. PollIsOwn(d)
      BY DEF PolledIsOwn
    <3> QED BY <1>4, <2>1, <3>1, <3>2, Zenon DEF PollIsOwn
  <2>2. ASSUME NEW d \in Cpus, d # c PROVE PollIsOwn(d)'
    <3>1. PollIsOwn(d) /\ running'[d] = running[d]
      BY <1>4, <2>2, Zenon DEF PolledIsOwn
    <3>2. running'[d] # NoFuture <=> Polls(d)'
      BY <1>5, <2>2, <3>1, Zenon DEF PollIsOwn
    <3>3. ASSUME running[d] # NoFuture
          PROVE  /\ \A p \in Places : At(p)' = running[d] => p = <<d, cur'[d]>>
                 /\ \A e \in Cpus : InSpawn(e)' => sp'[e].future # running[d]
      BY <1>1, <1>5, <1>6, <3>1, <3>3 DEF PollIsOwn
    <3> QED BY <2>1, <2>2, <3>1, <3>2, <3>3, Zenon DEF PollIsOwn
  <2>3. PollIsOwn(c)'
    BY <1>4, <1>5 DEF PollIsOwn
  <2> QED BY <2>2, <2>3, Zenon DEF PolledIsOwn
<1> QED BY <1>8, <1>9, <1>10, Zenon

(* A future that is done leaves the map. *)
LEMMA RemoveKeepsTasks ==
    ASSUME TasksInv, NEW c \in Cpus, RemoveTask(c), \A d \in Cpus : d # c => pc'[d] = pc[d] /\ sp'[d] = sp[d]
    PROVE  SpawnsDiffer' /\ EntriesDiffer' /\ PolledIsOwn'
<1> USE DEF TasksInv
<1> DEFINE h == <<c, cur[c]>>
<1>1. /\ pc[c] = "remove_task" /\ pc' = [pc EXCEPT ![c] = "remove_waker"]
      /\ tasks_map' = [tasks_map EXCEPT ![c][cur[c]] = NoFuture]
      /\ UNCHANGED <<cur, running, sp, life>>
  BY DEF RemoveTask, Goto
<1>2. /\ DOMAIN pc = Cpus /\ cur[c] \in TaskIDs
      /\ tasks_map \in [Cpus -> [TaskIDs -> Futures \union {NoFuture}]]
  BY Zenon DEF ExecutorTypeOK
<1>3. \A p \in Places : At(p)' = IF p = h THEN NoFuture ELSE At(p)
  <2>1. ASSUME NEW d \in Cpus, NEW i \in TaskIDs
        PROVE  tasks_map'[d][i] = IF d = c /\ i = cur[c] THEN NoFuture ELSE tasks_map[d][i]
    BY <1>1, <1>2
  <2>2. ASSUME NEW p \in Places PROVE At(p)' = IF p = h THEN NoFuture ELSE At(p)
    <3>1. p[1] \in Cpus /\ p[2] \in TaskIDs /\ p = <<p[1], p[2]>>
      BY DEF Places
    <3>2. p = h <=> p[1] = c /\ p[2] = cur[c]
      BY <3>1
    <3> HIDE DEF h
    <3> QED BY <2>1, <3>1, <3>2 DEF At
  <2> QED BY <2>2
<1>4. pc'[c] = "remove_waker"
  BY <1>1, <1>2
<1>5. \A d \in Cpus : InSpawn(d)' = InSpawn(d)
  BY <1>1, <1>4 DEF InSpawn, SpawnPcs
<1>6. \A d \in Cpus : Polls(d)' = Polls(d)
  BY <1>1, <1>4 DEF Polls, InPoll, SpawnPcs
<1>7. SpawnsDiffer'
  BY <1>1, <1>5 DEF SpawnsDiffer
<1>8. EntriesDiffer'
  <2>1. ASSUME NEW p \in Places, At(p)' # NoFuture
        PROVE  /\ life[At(p)'] = "spawned"
                  \/ (life[At(p)'] = "done" /\ pc'[p[1]] = "remove_task" /\ cur[p[1]] = p[2])
               /\ \A q \in Places : At(q)' = At(p)' => q = p
               /\ \A d \in Cpus : InSpawn(d) => sp[d].future # At(p)'
    <3>1. At(p)' = At(p) /\ At(p) # NoFuture /\ p # h
      BY <1>3, <2>1
    <3>2. p[1] \in Cpus /\ p = <<p[1], p[2]>>
      BY DEF Places
    <3>3. pc[p[1]] = "remove_task" /\ cur[p[1]] = p[2] => pc'[p[1]] = "remove_task"
      BY <1>1, <3>1, <3>2
    <3>4. EntryDiffers(p)
      BY DEF EntriesDiffer
    <3>5. \A q \in Places : At(q)' = At(p)' => q = p
      BY <1>3, <3>1, <3>4 DEF EntryDiffers
    <3> QED BY <3>1, <3>3, <3>4, <3>5 DEF EntryDiffers
  <2>2. ASSUME NEW p \in Places PROVE EntryDiffers(p)'
    BY <1>1, <1>5, <2>1 DEF EntryDiffers
  <2> QED BY <2>2 DEF EntriesDiffer, Places
<1>9. PolledIsOwn'
  <2>1. ASSUME NEW d \in Cpus, running[d] # NoFuture
        PROVE  \A p \in Places : At(p)' = running[d] => p = <<d, cur[d]>>
    <3>1. PollIsOwn(d)
      BY DEF PolledIsOwn
    <3> QED BY <1>3, <2>1, <3>1, Zenon DEF PollIsOwn
  <2>2. ASSUME NEW d \in Cpus PROVE PollIsOwn(d)'
    <3>1. PollIsOwn(d)
      BY DEF PolledIsOwn
    <3> QED BY <1>1, <1>5, <1>6, <2>1, <3>1 DEF PollIsOwn
  <2> QED BY <2>2 DEF PolledIsOwn
<1> QED BY <1>7, <1>8, <1>9

(* Every step of a CPU keeps each future in its place. *)
LEMMA CpuKeepsTasks ==
    ASSUME TasksInv, BootIsOrdered, NEW c \in Cpus, CpuStep(c)
    PROVE  SpawnsDiffer' /\ EntriesDiffer' /\ PolledIsOwn'
<1> USE DEF TasksInv, Goto
<1>0. ExecutorTypeOK /\ DOMAIN pc = Cpus /\ DOMAIN cur = Cpus /\ Main \in Futures
  BY ConstantsOK DEF ExecutorTypeOK
<1>1. \A d \in Cpus : d # c => pc'[d] = pc[d] /\ sp'[d] = sp[d] /\ cur'[d] = cur[d]
  BY <1>0, CpuTurn
<1>2. ASSUME UNCHANGED <<tasks_map, running, life>>,
             InSpawn(c)' = InSpawn(c), InSpawn(c) => sp'[c].future = sp[c].future,
             Polls(c)' = Polls(c), Polls(c) \/ pc[c] = "remove_task" => cur'[c] = cur[c],
             pc[c] # "remove_task"
      PROVE  SpawnsDiffer' /\ EntriesDiffer' /\ PolledIsOwn'
  <2>1. ASSUME NEW d \in Cpus
        PROVE  /\ InSpawn(d)' = InSpawn(d) /\ (InSpawn(d) => sp'[d].future = sp[d].future)
               /\ Polls(d)' = Polls(d)
               /\ Polls(d) \/ pc[d] = "remove_task" => cur'[d] = cur[d]
               /\ pc[d] = "remove_task" => pc'[d] = "remove_task"
    <3>1. CASE d = c
      BY <1>2, <3>1
    <3>2. CASE d # c
      BY <1>1, <3>2 DEF InSpawn, Polls, InPoll
    <3> QED BY <3>1, <3>2
  <2> QED BY <1>2, <2>1, AsideOfTasks
<1>3. CASE SpawnStep(c) /\ ~SpawnInsert(c)
  <2>1. /\ pc[c] \in SpawnPcs /\ pc'[c] \in SpawnPcs /\ sp'[c].future = sp[c].future /\ sp'[c].ret = sp[c].ret
        /\ tasks_map' = tasks_map /\ cur' = cur /\ running' = running /\ life' = life
    BY <1>0, <1>3, SpawnEffect DEF SpawnStep
  <2>2. Polls(c)' = Polls(c) /\ InSpawn(c)' = InSpawn(c) /\ pc[c] # "remove_task"
    BY <2>1 DEF Polls, InPoll, InSpawn, SpawnPcs
  <2> QED BY <1>2, <2>1, <2>2, Zenon
<1>4. CASE SpawnInsert(c)
  BY <1>1, <1>4, InsertKeepsTasks, Zenon
<1>5. CASE BootSpawn(c)
  <2>1. ~InSpawn(c) /\ pc[c] # "remove_task" /\ ~Polls(c)
    BY <1>5 DEF BootSpawn, InSpawn, Polls, InPoll, SpawnPcs
  <2>2. StartSpawn(c, Main, "publish_executor") /\ UNCHANGED <<tasks_map, cur, running>>
    BY <1>5 DEF BootSpawn, contexts
  <2> QED BY <1>0, <1>1, <2>1, <2>2, SpawnKeepsTasks
<1>6. ASSUME NEW f \in Futures, PollSpawn(c, f)
      PROVE  SpawnsDiffer' /\ EntriesDiffer' /\ PolledIsOwn'
  <2>1. ~InSpawn(c) /\ pc[c] # "remove_task" /\ Polls(c) /\ spawner
    BY <1>6 DEF PollSpawn, InSpawn, Polls, InPoll, SpawnPcs, BootIsOrdered, RunPcs
  <2>2. StartSpawn(c, f, "poll") /\ UNCHANGED <<tasks_map, cur, running>>
    BY <1>6, <2>1 DEF PollSpawn, contexts
  <2> QED BY <1>1, <2>1, <2>2, SpawnKeepsTasks
<1>7. CASE PublishExecutor(c) \/ PublishSpawner(c) \/ PublishReady(c) \/ WaitReady(c) \/ KernelThreadEntry(c)
           \/ CheckEmpty(c) \/ HltReturns(c) \/ Pop(c) \/ RemoveWaker(c)
  <2>1. /\ UNCHANGED <<tasks_map, running, life, sp>> /\ pc[c] # "remove_task"
        /\ InSpawn(c)' = InSpawn(c) /\ ~InSpawn(c) /\ Polls(c)' = Polls(c) /\ ~Polls(c)
    BY <1>0, <1>7, QuietStep, Zenon
  <2> QED BY <1>2, <2>1, Zenon
<1>8. CASE GetWaker(c) \/ PollYield(c) \/ PollPark(c)
  <2>1. /\ UNCHANGED <<tasks_map, running, life, sp, cur>>
        /\ pc[c] \in {"get_waker", "poll"} /\ pc'[c] = "poll"
    BY <1>0, <1>8 DEF GetWaker, PollYield, PollPark, contexts
  <2>2. InSpawn(c)' = InSpawn(c) /\ ~InSpawn(c) /\ Polls(c)' = Polls(c) /\ pc[c] # "remove_task"
    BY <2>1 DEF InSpawn, Polls, InPoll, SpawnPcs
  <2> QED BY <1>2, <2>1, <2>2, Zenon
<1>9. CASE Lookup(c)
  BY <1>1, <1>9, LookupKeepsTasks
<1>10. CASE PollPending(c) \/ PollReady(c)
  BY <1>1, <1>10, PollEndKeepsTasks
<1>11. CASE RemoveTask(c)
  BY <1>1, <1>11, RemoveKeepsTasks
<1> QED BY <1>3, <1>4, <1>5, <1>6, <1>7, <1>8, <1>9, <1>10, <1>11 DEF CpuStep, SpawnStep, BootStep, RunStep

(* The inductive invariant. *)
ExecutorInv == TasksInv /\ BootIsOrdered

(* It holds when the executor is made. *)
LEMMA ExecutorStart == ASSUME Init PROVE ExecutorInv
<1>1. /\ NCpus \in Nat \ {0} /\ Bsp \in Cpus /\ 0 \in Cpus /\ 0 \in TaskIDs /\ <<>> \in Seq(TaskIDs)
  BY ConstantsOK DEF Cpus, TaskIDs
<1>2. \A c \in Cpus : pc[c] \in {"boot", "wait_ready"} /\ running[c] = NoFuture
  BY DEF Init
<1>3. \A c \in Cpus : ~InSpawn(c) /\ ~Polls(c) /\ pc[c] # "spawn_balance"
  BY <1>2, Zenon DEF InSpawn, Polls, InPoll, SpawnPcs
<1>4. SpawnsAreTyped /\ DOMAIN sp = Cpus
  BY <1>1, <1>3 DEF Init, SpawnsAreTyped, Idle
<1>5. /\ pc \in [Cpus -> SpawnPcs \union BootPcs \union RunPcs \union {"panic"}]
      /\ tasks_map \in [Cpus -> [TaskIDs -> Futures \union {NoFuture}]]
      /\ \A p \in Places : At(p) = NoFuture
  BY DEF Init, BootPcs, Places, At
<1>6. ExecutorTypeOK
  BY <1>1, <1>4, <1>5 DEF Init, ExecutorTypeOK
<1>7. BootIsOrdered
  BY <1>2, <1>3 DEF Init, BootIsOrdered, RunPcs
<1>8. SpawnsDiffer /\ EntriesDiffer /\ PolledIsOwn
  BY <1>2, <1>3, <1>5, Zenon DEF SpawnsDiffer, EntriesDiffer, EntryDiffers, PolledIsOwn, PollIsOwn
<1> QED BY <1>6, <1>7, <1>8 DEF ExecutorInv, TasksInv

(* Every step of a CPU and every wake-up keeps it. *)
LEMMA ExecutorStep == ASSUME ExecutorInv, [Next]_vars PROVE ExecutorInv'
<1> USE DEF ExecutorInv
<1>1. ASSUME NEW c \in Cpus, CpuStep(c) PROVE ExecutorInv'
  BY <1>1, CpuKeepsTypes, CpuKeepsBoot, CpuKeepsTasks DEF TasksInv
<1>2. ASSUME UNCHANGED <<tasks_map, pc, cur, running, sp, life, boot>>, ExecutorTypeOK' PROVE ExecutorInv'
  <2>1. \A c \in Cpus : InSpawn(c)' = InSpawn(c) /\ Polls(c)' = Polls(c)
    BY <1>2 DEF InSpawn, Polls, InPoll
  <2>2. SpawnsDiffer' /\ EntriesDiffer' /\ PolledIsOwn'
    BY <1>2, <2>1, AsideOfTasks, Zenon DEF TasksInv
  <2>3. BootIsOrdered'
    BY <1>2 DEF BootIsOrdered, boot, InSpawn
  <2> QED BY <1>2, <2>2, <2>3 DEF TasksInv
<1>3. ASSUME NEW w \in held, Wake(w) PROVE ExecutorInv'
  BY <1>2, <1>3, WakeEffect DEF TasksInv
<1>4. CASE UNCHANGED vars
  <2>1. ExecutorTypeOK'
    BY <1>4, Zenon DEF vars, TasksInv, ExecutorTypeOK, SpawnsAreTyped, InSpawn
  <2> QED BY <1>2, <1>4, <2>1 DEF vars, boot
<1> QED BY <1>1, <1>3, <1>4 DEF Next

(* It holds in every reachable state. *)
LEMMA ExecutorInvariant == Spec => []ExecutorInv
  BY ExecutorStart, ExecutorStep, PTL DEF Spec

(* NoBootPanic: no CPU enters kernel_thread_entry_point before EXECUTOR is *)
(* set, and no task spawns before SPAWNER is, whichever CPU boots and      *)
(* however the others interleave with it.                                  *)
THEOREM BootNeverPanics == Spec => []NoBootPanic
<1>1. ExecutorInv => NoBootPanic
  BY DEF ExecutorInv, BootIsOrdered, NoBootPanic
<1> QED BY <1>1, ExecutorInvariant, PTL

(* PollsAreSound: no future is polled by two CPUs at once or after it      *)
(* returned Ready, although IDs may collide, entries may be overwritten    *)
(* and stale IDs may be in every queue.                                    *)
THEOREM PollsStaySound == Spec => []PollsAreSound
<1>1. ExecutorInv => PollsAreSound
  BY Zenon
     DEF ExecutorInv, TasksInv, PolledIsOwn, PollIsOwn, PollsAreSound, NeverPolledAfterReady,
     PolledByOneCpu, Polls
<1> QED BY <1>1, ExecutorInvariant, PTL
=============================================================================
