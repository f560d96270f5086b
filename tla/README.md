# Dvida OS: TLA+ verification project

This directory models the concurrent core of the Dvida kernel (`src/kernel/src`) in
TLA+.  TLC checks the modules on small instances and TLAPS proves the main safety
results for every value of the constants.

## The system

Dvida is an x86-64 kernel written in Rust.  After a sequential boot on one CPU the
kernel is a set of **async tasks** run by one executor context per CPU
(`ejcineque/executor.rs`), and of **interrupt handlers** that wake them.  Tasks share
data through a home-made async mutex, unbounded channels, one-shot cells and spin
locks.  Requests travel

    caller -> VFS task -> ext2 -> storage layer -> AHCI port task <-> device
                                                        ^ interrupt handler

and each arrow is a channel or a call, with the answer in a one-shot cell.  Memory comes
from a bitmap frame allocator behind the async mutex; frames of a dropped thread return
through a deallocator task.

| Part | State | Operations | What makes it hard |
|---|---|---|---|
| executor | per-CPU run queue, task map, waker cache; ID counter | `spawn`, `run`, `wake`, boot hand-over | CPUs interleave between every `lock()`; IDs wrap; stale wakers |
| async mutex | lock word, list lock, intrusive ring of nodes inside futures | `lock().await`, `try_lock`, `spin_acquire_lock`, guard drop | node lifetime, lost wake-ups, barging |
| spin locks / interrupts | lock words, interrupt flag | `without_interrupts`, handlers | a handler spinning on a lock of the code it interrupted |
| unbounded channel | queue, waker, sender count | `send`, `recv`, clone, drop | wake-up racing registration; last sender |
| buffer pool | 64-bit mask | `get_buffer`, handle drop | two compare-and-swap loops |
| AHCI port | slots, in-flight commands, device registers | issue, interrupt, completion, recovery, reset | handler and task on different CPUs, errors while others are in flight |
| frame allocator | bitmap, `next`, frames of threads, channel | `allocate_frame`, `allocate_continuous_frames`, `free_frames` | rounding, wrap-around, double free, delayed free |
| CPU bring-up, timers | PIT and its lock, TSC barrier, offsets, `IS_EXECUTOR_READY` | `initialize_mp`, the calibrations, the barrier | one PIT for all CPUs; skewed counters; every CPU waits for every other |
| VFS task | channel, open files with a copy of the inode each | open, read, write, seek | one request at a time through many storage calls, any of which fails |
| ext2 | bitmaps, pending blocks, descriptors, inodes, directories, block map | allocate, look up, create, read, write | memory and disk disagree after an error; aliasing of inode copies |
| block map of a file | `i_block`, pointer blocks on three levels, one buffer of each in the iterator | `set`, `get` | buffers that are stale after a move between levels; an error between two writes |
| bounded channel | ring of slots, ring of wakers, four positions | `send`, `recv`, clone, drop | every access is a race; wake-up against registration |
| AHCI set-up | registers the firmware left, four clocks | `AhciHba::init`, `AhciSata::init`, `reset`, `identify` | drives that wake late or never; an engine that is still running |
| GPT, storage registry | device list, map by GUID, two copies of a table | `read_gpt`, `run_storage_devices`, mounting `/` | any read fails; the copies disagree |
| interrupt routing | MADT, redirection table, IDT | `init_apic`, `isa_bootstrap`, `init_idt` | one vector computed in three places |
| real-time clock | eight registers that go on counting | `read_datetime`, conversions | torn readings; leap days, centuries |
| paths | a string and an iterator with two ends | `next`, `next_back`, `normalize`, `join` | the ends move at different speeds |
| threads, syscalls, loader | thread map, run queue | preempt, syscall, switch, load | nothing spawns a thread yet |

PCIe and ACPI enumeration, page tables, the heap wrapper, the terminal and the byte formats
are outside the models; the reasons are at the end and in `PROJECT.json`.

## Modules

**Executor** - `ejcineque/executor.rs` and the boot hand-over (`init.rs`, `mp/mod.rs`).
A step is one critical section of a `SpinMutex` or one atomic access, so the three
accesses of `spawn` to the ID counter are three steps.  `pc[c]` is where CPU `c` is;
`sp[c]` holds the locals of a spawn.  What a future does while it is polled (spawn, yield,
park its waker, finish) is a free choice.

**AsyncMutex**, **FifoMutex** - `ejcineque/sync/mutex.rs`.  One action per atomic access:
`TryLock`, `LockWakersList`, `InsertNode`, `UnlockWakersList`, `DropGuard`, `PopTail`.
The ring is kept as the pointers `next`, `prev`, head and tail; `queue` is a history
variable that lists the linked waiters.  A parked future is polled by its own waker
(`Repoll`), and for the tasks in `Strays` also by wakers left elsewhere (`StrayPoll`) or
dropped by a task that takes its ID (`DropFuture`).  A future that goes away with its node
linked puts it into `freed`; a step that would follow a pointer to such a node is `UseFreed`
and ends in the label "undefined", for nothing is known of what follows.  `FifoMutex` is what
the mutex promises: a holder and a FIFO of waiters, in order until one of them leaves the queue
by itself (`left`).  `ImplementsFifoMutex` is the refinement.

**IrqLocks** - each code path that takes spin locks, as its sequence of mask, lock and
unlock operations, on two CPUs with interrupts wherever they are not masked.  Five paths mask
interrupts (`MaskedPaths`: pop, the comparison and the push of `spawn`, the timer wait, the
drop of a guard) and five do not (`UnmaskedPaths`: the registration of a sender, a receive and a
send on a channel, the answer of a cell, `yield_now`); `on[c]` is the path CPU `c` is on.

**UnboundedChannel** - `ejcineque/sync/mpsc/unbounded.rs`: sends, the
receive future, which looks and leaves its waker under one lock, clones and drops of senders.

**BufferPool** - `ejcineque/pools/mod.rs`: the mask and the load / compare-and-swap pairs.

**AhciPort** (`MCDisk` for TLC) - `drivers/ata/sata/task.rs`, `io.rs`, `mod.rs`.
Clients, the request channel, the port task (`Register`, `StartOperation`, `Issue`,
`HandleInterrupt`, the recovery and reset steps), the interrupt handler statement by
statement, and an external device that executes or fails commands.

**FrameAllocator** (`MCMemory` for TLC) - `arch/x86_64/memory`.  `FrameInit` is
`memory::init` on a memory map; `AllocateFrame` and `AllocateContinuousFrames` are the two
searches, one step each because every call runs under the mutex; `DropThread`,
`DeallocatorRecv` and `FreeFrames` are the way back.

**Ext2Disk**, **Ext2**, **Vfs** (`MCVfs` is the image, `MCDisk` the run) - `drivers/fs/ext2`
under `hal/vfs.rs`.  The VFS task serves one operation at a time and nothing else touches the file system, so an
operation is one step; inside it, an operation is a *set of outcomes*, built from the
storage calls in the order of the code.  Each call may fail while `MaxFaults` allows it,
and an outcome carries the disk and memory reached so far: this is how an error in the
middle of `create_inode` leaves half of its work behind.  An outcome may also be `panic`
(an index or a cast that fails) or `spin` (a loop that never ends), and then the task is
gone.  `Ext2Disk` has the block allocator and the storage calls; `Ext2` the block map,
inodes, directories, create, read and write; `Vfs` the clients, the channel and the task.
`GlobalIdx` and `Addr` are the two numbers the allocator makes of one bit of a bitmap.
File contents are left out.  Entries of indirect blocks are kept, because data written
over an aliased indirect block changes them.

**BlockMap** - `drivers/fs/ext2/block_iterator.rs` at all its levels.  `Ext2` needs the
block map up to the single indirect block only; here one file is written and read through
the double and triple indirect blocks too, one call of `next` or `next_set` per step, with
the buffer the iterator keeps of each level.  The storage calls inside a step are outcomes,
as in `Ext2Disk`.  The allocator is reduced to what Vfs shows of it: a block is handed out
once.  `Route` and `Follow` are the ext2 format itself, independent of the code.

**BoundedChannel** - `ejcineque/sync/mpsc/bounded.rs`, one access to shared memory per step,
for the handles (send, wake, clone, drop) and for the receiver (receive, register, second
look).  Subtraction of positions wraps as in the code.

**PortInit** - `drivers/ata/sata/ahci.rs` and the set-up half of `sata/mod.rs`: the
capabilities, then each port through `new`, wake-up, `reset`, base addresses, engine start
and `identify`.  A wait is a look at the register and a look at the clock.  `NoMemory` and
`IdentifyPanics` are the two ways in which a drive or a lack of frames makes it panic.  The port is
external and starts in any state the firmware may leave.  `PortsUpAreReady` says that a port
leaves it as `AhciPort` begins.

**Storage** - `hal/storage.rs`, `hal/gpt.rs` and the mounting of `/` in `hal/vfs.rs`.  A
copy of the partition table is what its checks tell apart, with the sizes in 32 bits and the
length of its array in 16 (`U32` and `U16`, made small); each read of a drive may fail.

**Apic** - `acpi/apic.rs` (the MADT and the redirection entries), `idt.rs` and the vector
of `timer.rs`.

**Clock** - `time/mod.rs`, `time/formats.rs`: the wait for the update flag, the eight reads
one by one against a chip that goes on, the decoding in each format, and the conversions.

**Path** - `hal/path.rs`: the double-ended iterator and what is built on it, against the
runs of characters without a slash as the reference.

**BootSync** - `mp/mod.rs`, `timer.rs`, `init.rs`.  One action per lock operation, PIT
access, atomic access and counter reading.  The TSC of a CPU is a common clock plus a skew,
and a CPU may be delayed between any two steps.  A CPU that spins too long on the PIT lock
(`GiveUp`), a boot without a date or an MCFG table and a drive that fails make a CPU panic, with
what it holds; the others go on.

How they compose: `Vfs` is built on `Ext2` and `Ext2Disk`, `AsyncMutex` refines
`FifoMutex`, and `PortsUpAreReady` of PortInit is the start of AhciPort.  The other modules
meet through assumptions of one that are, as far as the code allows, results of another.  A
woken task is polled (assumed by AsyncMutex, AhciPort, FrameAllocator, Vfs) is
`QueuedTaskIsPolled` of Executor.  The channel is FIFO and wakes its receiver (assumed by
AhciPort, FrameAllocator, Vfs) is `DeliveryIsSound` and `NoLostWakeup` of UnboundedChannel.
One step per call under the mutex (FrameAllocator) is `MutualExclusion` of AsyncMutex.
A block is handed out once (BlockMap) is `BlocksAreAccounted` of Vfs.

`MCSync`, `MCMemory`, `MCDisk`, `MCLockFree` and `MCPlatform` put several components that share
no state into one run.  Their variable `part` names the component that moves in a behaviour;
the others rest in an initial (BootSync: final) state.  Nothing is lost by this, since no
interleaving of two of them could affect a property of one.

## Runs

`tlc -workers 2 -config <run>.cfg <module>`, in this directory.

| Run | Distinct states | Shows |
|---|---|---|
| Executor | 161,566 | a finished future is not polled again, no future is on two CPUs, no `expect()` of the boot fails, a queued task is polled |
| ExecutorIds | violation | `TaskIDsAreUnique` fails |
| Memory (AsyncMutex, FrameAllocator) | 82,800 | exclusion of guards, ring shape, node lifetime, refinement of FifoMutex *up to the use of a freed node*, a listed waiter is woken; one holder per frame, only free RAM, exact bitmap, complete searches; dropped frames come back *if the deallocator is not left waiting for the mutex* |
| AsyncMutexLost | violation | `ParkedWaiterIsListed` fails |
| AsyncMutexFreed | violation | `NoFreedNodeIsUsed` fails once a waiter is polled or dropped by others |
| Sync (IrqLocks, UnboundedChannel) | 100,551 | on all ten paths: a handler finds a task with a lock only on a path that does not mask interrupts, and spinning ends *while only masking paths are taken*; the channel is FIFO, loses no wake-up, `None` is final, what is sent is received |
| IrqLocksUnmasked | violation | `NoSelfDeadlock` fails once the answer of a cell is among the paths |
| LockFree (BufferPool, BoundedChannel) | 809,702 | handles own disjoint memory and the mask is exact; an accepted message is in exactly one place, and *with one sender* messages arrive in order and a waiting receiver is woken |
| Disk (Vfs, PortInit, AhciPort) | 226,137 | no bit of a bitmap handed out twice or unguarded, one owner for each number made of it, exact free counts without errors, unique names, EXCL succeeds once, operations are answered; set-up changes addresses of stopped engines only, hands on ports that are up, and ends; a request is in one place until its one answer, Ok means executed, no stale DMA, exact slot count, recovery finds the engine stopped, noticed completions are answered |
| Ext2Shared | violation | `NoBlockIsShared` fails |
| Platform (BootSync, Apic, Storage, Clock, Path, BlockMap) | 270,214 | own countdown, barrier, agreeing counters, every CPU starts *if none panics and the drives let the boot CPU through*; interrupts meet their handlers; a name leads to a drive with a verified table and the root is the one named; readings are not torn and conversions agree; paths agree from both ends; the block map is a tree that readers walk as writers built it |
| ClockPosix | violation | `PosixIsUnixTime` fails |

Each property of a passing run is paired in `PROJECT.json` with a mutant of a modelled
definition (a dropped guard, a swapped order, an off-by-one) that violates it.

### Bounds, and why they are enough

- *Executor*: 2 CPUs, 3 futures, IDs 0..1.  With `U64Max = 1` the counter wraps after two
  spawns, so that an ID is reused while wakers of its former owner exist, which a 64-bit
  counter would show after centuries only.  `MaxQueue` bounds spurious wake-ups.
  `NeverPolledAfterReady` and the others therefore hold in spite of duplicate IDs.
- *AsyncMutex*: 3 tasks are a holder, a waiter at the tail and one in between, of which one is
  a stray; the safety results are proved for any number of tasks and of strays.  A task becomes
  a stray in two ways: it raced two futures before and the waker of the one that lost is still
  in a channel, or another task got its ID (finding 1).
- *IrqLocks*: 2 CPUs and all ten paths.  `MaskedPathsAreSafe` is about the five that mask
  interrupts, whatever the others do; `NoSelfDeadlock`, about all of them, fails for each of
  the five that do not, and the kernel as a whole does not have it.  `SpinningEnds` has as its
  condition that only masking paths are taken.
- *UnboundedChannel*: 3 messages over 2 handles; `MaxWakers` bounds spurious polls.
- *BufferPool*: 3 buffers of which two share a frame, one user per buffer.
- *AhciPort*: a healthy drive with two slots shared by two clients, or one client with
  every fault, on a drive with 48-bit addresses.  The kernel has one operation in flight per
  drive.  These too are restrictions.  Outside them TLC refutes: with two clients on a
  faulty drive, `OkMeansExecuted` and `RestIsRecovered`; with more operations than slots,
  `AhciTypeOK`, `WaitingIsHeldOnce` and `RemainingIsExact`; without 48-bit addresses and with
  two clients that read and flush, `OkMeansExecuted`.
- *FrameAllocator*: bytes of 4 bits, one map that ends on a byte boundary and one with
  padding bits, 9 pages at most of which three are free, runs of 2, so that a search starts in
  the middle of a byte, crosses into the next and wraps around.
- *Vfs*: 4 operations by 2 clients, one failing call, 2 groups; group 0 has 6 clear bits
  and the second group one, so that a write of 7 bytes into blocks of 2 needs the indirect
  block and another can exhaust the group.  Directories hold 2 entries per block and the root
  has one, so that the first creation fills it and the second needs a new block.  The states in
  which the task panics or spins are reached.  Blocks are those of 1024 bytes, of which block 0
  is outside the groups: `write.rs:42` copies through a buffer of that size.  A negative offset
  is given to `SeekCur` only and leaves the head at 0 or above (`StaysInRange`).  `Ext2Shared`
  needs no failing call.
- *BootSync*: 3 CPUs, two skews, 10 ticks of a clock and a PIT that counts 2: the four
  calibrations in turn take 8.
- *BlockMap*: one direct pointer and two entries per pointer block, so that file blocks 1 and
  2 are indirect, 3 to 6 double and 7 to 14 triple indirect.  Two writes with 9 blocks in all
  cross every boundary and return to levels they left; they let the file grow far enough for
  a reader to reach the triple level through the holes before it.  Unused blocks hold zeros or
  old bytes, and one storage call fails.  After a failure the property is claimed for zeros
  only: with old bytes TLC refutes it, for a pointer block is cleared after it is in place.
- *BoundedChannel*: a ring of 2 with one handle that sends 3 messages, so that it fills and
  wraps, or two handles with one message each.  `MaxPos` bounds how far a handle pushes the
  position of the wakers.  Order and wake-ups are claimed for one handle; with two TLC refutes
  them.
- *PortInit*: every combination of drive, power and engine state in one port; two ports, of
  which the first is offline, absent, no disk or fails IDENTIFY; controllers without MSI or
  64-bit addresses.
- *Storage*: no, one or two drives on up to three controllers, with 11 kinds of pairs of
  tables, entry sizes that are odd, too large or wrap around among them, and any of the reads
  failing.
- *Apic*: 972 tables, with the timer moved, devices moved or level triggered, I/O APICs of 16
  or 24 entries, CPUs that are off or numbered otherwise.  The property is about interrupts
  that no override moves and that no other is moved onto; for the others it does not hold.
- *Clock*: readings that start a second before every field changes, in every format but
  12-hour BCD, up to 5 updates during a reading.  Claimed for readings in which no whole update
  fits between the two looks at the flag: one takes about 2 ms, and the reads microseconds.
  The conversions are checked on the first and last days of all months of 11 years up to 2037.
- *Path*: all strings of up to 6 characters of `/`, `.` and `a`, in every order of the two ends.

`CHECK_DEADLOCK FALSE` is used where the system may come to rest: the bounded number of
requests is used up (Disk), a task stops at a freed node or nothing is left to free (Memory),
every handle is dropped (Sync, LockFree), or the boot or the computation is over (Platform).

### Fairness

Liveness is checked under fairness of single actors only.

- Executor: weak fairness of each CPU.  Nothing blocks a CPU but `hlt`, which the periodic
  timer ends, and a poll returns.
- AsyncMutex: weak fairness of a task inside `poll` or a guard drop and of dropping guards;
  strong fairness of the list spin lock, which is held for a few instructions.  Nothing makes a
  stray poll or drop happen.
- IrqLocks: strong fairness of the lock operations, for the same reason.
- UnboundedChannel: the receiver goes on receiving and a woken one is polled.
- AhciPort: the task and the interrupt handler run.  The device owes nothing.
- FrameAllocator: the deallocator task receives.  That it then gets the mutex is *not*
  assumed, because the mutex can lose a waiter; `DroppedIsFreed` has it as a condition.
- Vfs: the task takes what is in its channel.  A storage call is assumed to return, with a
  result or an error; a request lost below it (see the AHCI observations) would break that.
- BootSync: each CPU goes on, and time passes; the step through the drives is not fair.  Each
  CPU takes the PIT lock once or twice.
- PortInit: the driver, alone on the boot CPU, goes on, seconds pass, the engine follows its
  bits as the AHCI specification has it, and a drive that can carry out IDENTIFY does.
  Nothing is assumed of a drive that sleeps or is busy: those waits end by the clock.

In a run with a `part`, each fairness condition holds for the part that moves.

All of these presume that no task is lost.  `ExecutorIds` (two tasks with one ID, of which
the map keeps one), `AsyncMutexFreed` (a write through a dangling pointer) and
`IrqLocksUnmasked` (a panic) are ways in which the code breaks this.

## Proofs

`tlapm <module>` checks them.  Each proof module has one inductive invariant, the three
facts about it, and the listed theorems as consequences, for every value of the constants
that satisfies the named assumptions.

**DiskProofs**, the mutex of a drive (assumes `NullIsNoTask`, `StraysAreTasks`).  `IInv`
strengthens exclusion by `LocksHeld` (who is past a lock has it), `ListAlone`, `OthersWait` (the
tasks that are not strays do not run before they are woken) and `LinkedIsKnown` (a linked node is
alive or counted as freed).  Without the last a node that is still linked might be linked again,
and the ring would not be preserved.  `InsertKeepsRing` and `PopKeepsRing` are the pointer lemmas; both need that
the nodes they touch are not freed, which is the guard that `UseFreed` negates.  Results: types,
`MutualExclusion`, `ListExclusion`, `ListIsRing`, `LinkedNodesAreAlive` for the tasks that are
not strays, that without strays no freed node is ever used (`WithoutStraysNothingIsFreed`), and
that the mutex implements `FifoMutex` for any set of strays.  FifoMutex says who is woken and in
which order; it does not say that everyone who parks is in the queue.

**SyncProofs**, unbounded channel (`HandlesOK`, `BoundsOK`).  `ChInv` adds `CountIsExact`, that
`sender_count` is the number of live handles: it keeps the count from underflowing and makes
`None` final.  `FifoDelivery` (received followed by buffered is what was sent) rests on two
lemmas about moving the head of a sequence.

**SyncProofs**, spin locks (`NCpusOK`, `NobodyOK`, `PathsOK`).  `MaskedPathsNeverDeadlock` is
`MaskedPathsAreSafe` for any number of CPUs and any set of paths: a task on the run loop, in
spawn, in WaitFuture or in the drop of a MutexGuard is never found by a handler with a lock in
its hands, also while tasks of other CPUs, or the same CPU before and after, take paths that do
not mask.  `TasksAreMasked` says of what is left of each masked path that every lock in it is taken
masked and released before the unmask, and of a task that holds a lock on such a path that it is
masked, so that no handler runs above it.  The lemmas on `WellMasked` show that concatenation
keeps this and that one step of a path does.

**ResourceProofs**, frames (`MemMapAssumption`: entries are sorted and disjoint;
`SizeAssumption`, `OwnerAssumption`).  `AllocInv` joins one holder per frame, holders are
marked, boot marks stay, and the exact bitmap; none is inductive alone, since freeing a frame
with two holders would break the bitmap.  `NoneMeansFull` shows that the wrapping search
overlooks no free frame.

**BootSyncProofs** (`BootAssumption`).  `BootInv` has the owner of the PIT lock (who keeps it
when it panics), the barrier
count as the number of CPUs that arrived (which needs that no CPU is counted twice), and the
order of the readings after the opening.  From these `InstantsAgree` bounds the difference
of two clocks by the delay of the readings, for any skews.

**ResourceProofs**, drives and tables (`StorageAssumption`).  `SInv` adds to the two properties
what has been read so far: each copy got is the drive's and verified (`GotIsSound`), without a
failed read it is all the drive has (`GotIsComplete`), the drives before the current one have
their names (`NamedSoFar`), and where the boot task is (`Control`).  `RootIsTheOneNamed` needs that the
second reading of the table is of the drive its GUID led to, which `Control` keeps.  Any
number of controllers and drives with any tables.

**DiskProofs**, ports (`ControllersOK`).  `PInv` says for each point of the driver what is known
of the registers there (`Stage`): a status that was read only gets better, and nothing runs
from the reset to the start, whatever the hardware does in between.  It gives
`PortsUpAreReady` and the action property `BasesWrittenStopped` for any controller, with drives
that fail IDENTIFY in either way and boots that run out of frames.

**LockFreeProofs**, buffer pool (`PoolOK`, `NewAsserts`).  `PoolInv` says what a user between its
load and its exchange has in hand (`ClaimsAreKept`) and that every set bit is somebody's
(`NoBufferLeaks`); it holds whether or not the pool runs full.  `RoomyInv` adds that the mask
is exact and no two users have one buffer.  It needs `EnoughBuffers` (as many buffers as
users), the hypothesis of `PoolIsAccounted`: a full pool does hand out a buffer twice, as the
hazard at `pools/mod.rs:77` says.  The step that claims a bit counts: with a user that owns
nothing, fewer than `Count` bits are set (`RoomLeft`).  That the buffers do not overlap is
arithmetic on pages (`NewIsApart`).

**BoundedChannelProofs** (`BoundedAssumption`).  `ChannelInv` holds for any number of handles:
a slot that is being written or read has one claimant, a message about to be written is new,
no message is in two places, and what was accepted is what the ring holds and what was
delivered.  LockFreeProofs counts: it gives `ExactlyOnce`, although positions may be skipped and
overtaken.

**OneSenderProofs** (`BoundedAssumption`).  With one handle `FifoInv` adds that the positions
that were loaded are still right when used, that the ring holds the rest of what was accepted in
order, and that what was delivered is a prefix of it; `PositionsAreApart` is the arithmetic of
the ring.  `WakeInv` adds the same for the ring of wakers and, for a receiver that has
registered, where its wake-up is.  They give `OneSenderIsFifo` and `OneSenderWakes` for any
capacity and any number of messages.

**ExecutorProofs** (`ConstantsOK`).  IDs are not unique (finding 1), so the invariant
follows the futures: spawns in progress carry different ones (`SpawnsDiffer`), a future is in at
most one entry of the maps (`EntriesDiffer`), and one that is polled is in no entry but the
one it was taken from (`PolledIsOwn`).  The last is what an insert under a reused ID could
break, and does not, because it can only overwrite.  With `BootIsOrdered`, the order of the
boot's hand-over, they give `PollsAreSound` and `NoBootPanic` for any number of CPUs, any
futures and any width of the ID.

The type invariants of AsyncMutex, FrameAllocator, BootSync and BufferPool, and
`ListExclusion`, are proved and not listed in the runs.  The type invariants of Executor, IrqLocks
and AhciPort, and `WakersMatchTasks` of Executor, hold at the bounds of the runs; the
configurations leave them out in favour of the properties above, and adding the name to one
checks it.

Only model-checked: all liveness, which is out of the prover's reach; everything about
AhciPort, BlockMap, Apic and Vfs with Ext2, and `SearchesAreComplete` of FrameAllocator, whose
proofs are not written; and Clock and Path, which are recursive.

## Findings

1. `executor.rs:55`, run ExecutorIds.  The counter is loaded, loaded again and swapped, so
   that two CPUs get one ID; the comment above says "Get ID and increment counter
   atomically".  The second insertion replaces the first task in the map.
2. `mutex.rs:147`, run AsyncMutexLost.  A woken waiter that loses the lock to a barging task
   still has its node and is not enqueued again.  It parks outside the list that, by its
   comment, takes new wakes, and nobody wakes it.
3. `cell.rs:29`, run IrqLocksUnmasked.  `set` wakes with interrupts enabled; the timer
   handler can then spin on the run queue locked below it, until the assertion in
   `SpinMutex::lock` ("potential deadlock detected!") fails.
4. `time/formats.rs:17`, run ClockPosix.  `rtc_to_posix`, from which ext2 takes its times,
   counts days from 1 March of the year 0 and subtracts 719528 where 1970 begins on day 719469
   of that count: its "Days since Unix epoch" is 59 too small for every date.
5. `mutex.rs:138`, run AsyncMutexFreed.  `poll` tries the lock first and completes without a
   look at its node, and `MutexFuture` has no `Drop`.  A waiter that is polled by a waker other
   than that of the mutex, or replaced in the task map, leaves a linked node behind that is no
   longer there, although "now the location of node is constant" (`mutex.rs:156`).
6. `allocator.rs:74`, run Ext2Shared.  The address of an allocated block and the number that is
   stored in the inode are made of the bit in two ways that differ by one block on an image
   with 1024-byte blocks: "map bitmap index to data block LBA" (`allocator.rs:71`) is right and
   the number is that of the block before, for the first allocation a block of another file.

## Observations without a property

What the models do because the code does it, and what was met beside them, where no run
states a property.  The ones that are hard to test are hazards in `PROJECT.json` too.

- AHCI: the recovery loses a command issued between the handler's read of PxCI and the
  recovery (`task.rs:172`); an operation without a slot is dropped with its cell
  (`task.rs:227`); the search covers one slot more than the controller has; PxIS is cleared
  by its later value, so that a completion may go unnoticed until the next interrupt.
  The first three need more than one client on a drive.
- ext2: the inode bitmap is never set by a creation, so that two files get one inode; a
  block in a group other than 0 indexes past the bitmap buffer; a write without allocation
  stores to the sector before the partition; the new block of a full directory is not stored
  in its inode and the next lookup does not end; an entry of the indirect block is read at
  the wrong offset; `i_size` grows by one too many; open files overwrite each other's inode.
- Mutex: a waiter that enqueues itself after the last drop of a guard is listed while nobody
  holds the lock (`mutex.rs:143`), and is woken only by the drop after the next lock.
- Unbounded channel: the drop of the last sender wakes nobody (`unbounded.rs:28`), so that a
  receiver that is parked does not learn of it.
- Boot: `lock()` on the PIT lock gives up after 10,000,000 spins (`spin.rs:47`), whoever
  holds it for its 10 ms; a CPU that panics leaves the others in one of the two barriers.
- Block map: `get` takes the entry of the single indirect block for a byte offset
  (`block_iterator.rs:205`), so that reading panics at the second one; `get` does not record
  which triple indirect block it holds (226), so that a `set` on the same iterator would write
  it to block 0, which no caller does; for a hole below a missing pointer block `block_idx` is
  that of the block before.
- Bounded channel: with two senders a message may overtake another or stay until the ring wraps,
  and two wake-ups can push `waker_read_pos` past `waker_write_pos`, after which the loops of
  `try_wake_receiver` and of the drop do not end; a message sent between the look and the close
  is not received; a position loaded early makes a ring with room look full.  The kernel has no
  user of this channel.
- AHCI set-up: the offset of the MSI capability is shadowed (`ahci.rs:129`), so that the first
  capability is written; a drive that fails IDENTIFY keeps its PxCI bit and the boot stops in
  the loop at `mod.rs:689`, or ends it with an error and the kernel panics (700); the waits at
  589 and 596 have no clock either; the frames of a port that fails are not freed.
- Storage: "Too many AHCI devices, skipping" (`storage.rs:266`) does not skip; of two drives
  with one GUID the later has the name; a drive that never answers holds up the boot; a
  difference between two good copies is only logged (`gpt.rs:300`).
- Interrupts: with the usual override of IRQ 0 to GSI 2, IRQ 2 writes entry 2 again, unmasked
  (`apic.rs:739` says "no pit interrupts"); an interrupt that is moved is sent to 32 + irq while
  its handler is at 32 + gsi; the boot CPU is looked up by its APIC id in a map by processor id.
- Clock: the BCD decoding in 12-hour mode masks the PM bit before it is looked at
  (`time/mod.rs:140`); the callers panic when the retries are used up.
- VFS: SeekEnd, SeekData and SeekHole are never answered; Close is `todo!()`.
- Timers: `nanos_per_tick` is off by a factor of 1000 (`timer.rs:222`).
- Threads: the tick does not store what is left of the quantum (`irq.rs:66`); a thread that
  ends itself is never dropped (`syscall.rs:183`); one dropped before `deallocator_task` has
  run panics (`scheduler/mod.rs:159`, an outcome of `DropThread`); `load_elf` awaits the
  allocator mutex while it holds it (`loader.rs:381`).  Nothing spawns a thread yet.

`Answered` excepts the panics, the endless lookup and the unanswered seeks of this list;
`FreeBlocksExact` is stated as long as no storage call has failed.

## Not modelled

- Threads, syscalls and preemption: nothing reaches them.  `spawn_thread` has no caller, the
  timer handler computes what is left of a quantum and does not store it, so that its
  switching code never runs, and the WRITE system call is `todo!()`.  The kernel thread has ID
  0 without being in `thread_map`, and the counter of thread IDs starts at 0 too.  What a
  drop of a thread does to its frames is in FrameAllocator.
- ELF loader: no caller; one sequential pass over the headers of a file.
- ext2 `delete`, `mkdir`, `rmdir`, `iter_dir` and `get_block_lba` below them: no caller.
- PCIe enumeration, ACPI tables, register layouts of the controllers, page tables: one
  sequential pass of address computations at boot, without a choice to explore.
- Kernel heap: a wrapper around an external allocator.  PATA: no longer started.
- Future combinators: stateless; the poll they add is the spurious poll of UnboundedChannel.
- Random numbers, checksums, identifiers, serialisation: bit arithmetic on wide words and byte
  layouts, which TLC evaluates one value at a time and no property here depends on.
- Terminal and keyboard: output, and scan codes that are dropped.
- Contents of files and sectors: only block numbers, sizes and directory entries are kept.
- VFS on AHCI as one model, with every storage call a request to the port task: the product of
  the two is out of TLC's reach; the seam is a call that returns a result or an error.
