--------------------------- MODULE FrameAllocator ---------------------------
(***************************************************************************)
(* The physical frame allocator: how memory::init builds the bitmap from   *)
(* the boot loader's memory map, the two searches of BitmapAllocator, and  *)
(* the way frames come back, from a dropped Thread through the unbounded   *)
(* DEALLOCATOR channel to the deallocator task and free_frames.            *)
(*                                                                         *)
(* Every method of BitmapAllocator runs under the FRAME_ALLOCATOR mutex    *)
(* (module AsyncMutex), so one call is one step.  Addresses and lengths    *)
(* are counted in pages.  A byte of the bitmap has ByteSize bits and a     *)
(* page holds PageBytes bytes of it (8 and 4096 in the code).              *)
(***************************************************************************)
EXTENDS Integers, Sequences, FiniteSets

CONSTANTS MemMaps,      \* the boot loader's memory maps considered
          ByteSize, PageBytes,
          KheapPages, StackPages,   \* KHEAP_PAGE_COUNT, STACK_PAGE_SIZE
          Threads, Kernel,          \* owners whose frames come back, and not
          RunLengths,               \* lengths asked of the contiguous search
          MaxQueue                  \* bound on the deallocator's channel

Entry == [base : Nat, length : Nat, usable : BOOLEAN]

(* Limine hands over a non-empty map sorted by base without overlaps.      *)
ASSUME MemMapAssumption ==
    \A m \in MemMaps :
        /\ m \in Seq(Entry)
        /\ Len(m) > 0
        /\ \A i, j \in 1..Len(m) : i < j => m[i].base + m[i].length <= m[j].base

ASSUME SizeAssumption ==
    /\ ByteSize \in Nat \ {0} /\ PageBytes \in Nat \ {0}
    /\ KheapPages \in Nat /\ StackPages \in Nat
    /\ RunLengths \subseteq Nat \ {0}
    /\ MaxQueue \in Nat

ASSUME OwnerAssumption == Kernel \notin Threads

VARIABLES memmap,    \* the map this machine booted with
          bitmap,    \* frame index -> TRUE when marked used
          next_frame, \* where the next single-frame search starts
          frames,    \* owner -> the frames recorded as its own
          started,   \* deallocator_task has published DEALLOCATOR_SENDER
          channel,   \* the vectors of frames sent by dropped threads
          freeing,   \* the vector received, while the mutex is awaited
          panicked   \* an expect failed: the machine stops

frameVars == <<memmap, bitmap, next_frame, frames, started, channel, freeing, panicked>>

Owners == Threads \cup {Kernel}

-----------------------------------------------------------------------------
(* memory::init and BitMap::fill.                                          *)

DivCeil(a, b) == (a + b - 1) \div b

(* The end of the last entry: the loop that would drop the unusable ones   *)
(* at the end counts over the empty range len-1..0 and drops none.         *)
FrameCount(m) == m[Len(m)].base + m[Len(m)].length

BitmapLength(m) == DivCeil(FrameCount(m), ByteSize)
BitmapPages(m) == DivCeil(BitmapLength(m), PageBytes)
TotalBits(m) == BitmapLength(m) * ByteSize
Bits(m) == 0..(TotalBits(m) - 1)

Pages(e) == e.base..(e.base + e.length - 1)
UsablePages(m) == UNION {Pages(m[i]) : i \in {j \in 1..Len(m) : m[j].usable}}

LargeEnough(m, i) ==
    m[i].usable /\ m[i].length > BitmapPages(m) + KheapPages + StackPages

Boots(m) == \E i \in 1..Len(m) : LargeEnough(m, i)

BootEntry(m) ==
    CHOOSE i \in 1..Len(m) :
        LargeEnough(m, i) /\ \A j \in 1..(i - 1) : ~LargeEnough(m, j)

(* Where init puts the bitmap and, after it, the kernel heap.              *)
KernelPages(m) ==
    LET b == m[BootEntry(m)].base
    IN  b..(b + BitmapPages(m) + KheapPages - 1)

MarkedPages_NoHeap(m) ==
    LET b == m[BootEntry(m)].base IN b..(b + BitmapPages(m) - 1)

(* The pages init marks used after fill: page_count pages from the start   *)
(* of the bitmap.                                                          *)
MarkedPages(m) ==
    LET b == m[BootEntry(m)].base
        page_count == BitmapPages(m) + KheapPages
    IN  {b + i : i \in 0..(page_count - 1)}

Fill(m) == [i \in Bits(m) |-> i \notin UsablePages(m) \/ i \in MarkedPages(m)]

-----------------------------------------------------------------------------
(* The searches.  Hit(b, i): the loop body takes bit i, which it does not  *)
(* when i opens a byte that is full, nor when the bit is set.              *)

SkipByte_Partial(b, i) ==
    i % ByteSize = 0 /\ \E j \in i..(i + ByteSize - 1) : b[j]

SkipByte(b, i) ==
    i % ByteSize = 0 /\ \A j \in i..(i + ByteSize - 1) : b[j]

Hit(b, i) == ~SkipByte(b, i) /\ ~b[i]

(* allocate_frame: the first hit at next, next + 1, ..., around the end.   *)
Probe(n, offset, m) == (n + offset) % TotalBits(m)
Hits(b, n, m) == {o \in 0..(TotalBits(m) - 1) : Hit(b, Probe(n, o, m))}
FirstHit(b, n, m) ==
    Probe(n, CHOOSE o \in Hits(b, n, m) : \A p \in Hits(b, n, m) : o <= p, m)

(* allocate_continuous_frames: the ends of the stretches of len hits, of   *)
(* which the scan from bit 0 meets the least first.                        *)
RunEnds(b, len, m) ==
    {i \in Bits(m) : i + 1 >= len /\ \A j \in (i - len + 1)..i : Hit(b, j)}
FirstRun(b, len, m) ==
    LET e == CHOOSE i \in RunEnds(b, len, m) :
                 \A k \in RunEnds(b, len, m) : i <= k
    IN  (e - len + 1)..e

(* The loop itself: the length of `indices` after bit i has been examined, *)
(* and the bits at which it has the length asked for.                      *)
IndicesLen(b, m) ==
    LET n[i \in Bits(m)] ==
            IF Hit(b, i) THEN 1 + (IF i = 0 THEN 0 ELSE n[i - 1]) ELSE 0
    IN  n

-----------------------------------------------------------------------------
FrameTypeOK ==
    /\ memmap \in {m \in MemMaps : Boots(m)}
    /\ bitmap \in [Bits(memmap) -> BOOLEAN]
    /\ next_frame \in Bits(memmap)
    /\ frames \in [Owners -> SUBSET Bits(memmap)]
    /\ started \in BOOLEAN
    /\ channel \in Seq(SUBSET Bits(memmap))
    /\ freeing \in SUBSET Bits(memmap)
    /\ panicked \in BOOLEAN

FrameInit ==
    /\ memmap \in {m \in MemMaps : Boots(m)}
    /\ bitmap = Fill(memmap)
    /\ next_frame = 0
    /\ frames = [o \in Owners |-> {}]
    /\ started = FALSE
    /\ channel = <<>>
    /\ freeing = {}
    /\ panicked = FALSE

(* Marking a set of bits used and handing the frames to their owner.       *)
Take(o, is) ==
    /\ bitmap' = [i \in Bits(memmap) |-> bitmap[i] \/ i \in is]
    /\ frames' = [frames EXCEPT ![o] = @ \cup is]

AllocateFrame(o) ==
    LET i == FirstHit(bitmap, next_frame, memmap)
    IN  /\ ~panicked
        /\ Hits(bitmap, next_frame, memmap) # {}
        /\ Take(o, {i})
        /\ next_frame' = (i + 1) % TotalBits(memmap)
        /\ UNCHANGED <<memmap, started, channel, freeing, panicked>>

(* None: the loader answers NoEnoughMemory, the kernel's own callers       *)
(* expect a frame and panic.                                               *)
NoFrame(o) ==
    /\ ~panicked
    /\ Hits(bitmap, next_frame, memmap) = {}
    /\ panicked' = (o = Kernel)
    /\ UNCHANGED <<memmap, bitmap, next_frame, frames, started, channel, freeing>>

(* setup_per_cpu_data and AhciSata::new: contiguous frames the kernel      *)
(* keeps.  next ends up after the last of them.                            *)
AllocateContinuousFrames(len) ==
    LET is == FirstRun(bitmap, len, memmap)
        last == CHOOSE i \in is : \A k \in is : k <= i
    IN  /\ ~panicked
        /\ RunEnds(bitmap, len, memmap) # {}
        /\ Take(Kernel, is)
        /\ next_frame' = (last + 1) % TotalBits(memmap)
        /\ UNCHANGED <<memmap, started, channel, freeing, panicked>>

NoRun(len) ==
    /\ ~panicked
    /\ RunEnds(bitmap, len, memmap) = {}
    /\ panicked' = TRUE
    /\ UNCHANGED <<memmap, bitmap, next_frame, frames, started, channel, freeing>>

(* The first poll of deallocator_task publishes the sending end.           *)
StartDeallocator ==
    /\ ~panicked /\ ~started
    /\ started' = TRUE
    /\ UNCHANGED <<memmap, bitmap, next_frame, frames, channel, freeing, panicked>>

(* Thread::drop: the frames are taken out of the thread and sent away, or  *)
(* the sender is not there yet and expect panics.                          *)
DropThread_NoTake(t) ==
    /\ ~panicked
    /\ Len(channel) < MaxQueue
    /\ IF started
       THEN /\ channel' = Append(channel, frames[t])
            /\ UNCHANGED <<frames, panicked>>
       ELSE /\ frames' = [frames EXCEPT ![t] = {}]
            /\ panicked' = TRUE
            /\ UNCHANGED channel
    /\ UNCHANGED <<memmap, bitmap, next_frame, started, freeing>>

DropThread(t) ==
    /\ ~panicked
    /\ Len(channel) < MaxQueue
    /\ frames' = [frames EXCEPT ![t] = {}]
    /\ IF started
       THEN channel' = Append(channel, frames[t]) /\ UNCHANGED panicked
       ELSE panicked' = TRUE /\ UNCHANGED channel
    /\ UNCHANGED <<memmap, bitmap, next_frame, started, freeing>>

DeallocatorRecv_Newest ==
    /\ ~panicked /\ started
    /\ channel # <<>> /\ freeing = {}
    /\ freeing' = channel[Len(channel)]
    /\ channel' = SubSeq(channel, 1, Len(channel) - 1)
    /\ UNCHANGED <<memmap, bitmap, next_frame, frames, started, panicked>>

(* deallocator_task: receive a vector, then wait for the mutex, then free. *)
DeallocatorRecv ==
    /\ ~panicked /\ started
    /\ channel # <<>> /\ freeing = {}
    /\ freeing' = Head(channel)
    /\ channel' = Tail(channel)
    /\ UNCHANGED <<memmap, bitmap, next_frame, frames, started, panicked>>

FreeFrames_First ==
    /\ ~panicked /\ freeing # {}
    /\ \E f \in freeing : bitmap' = [bitmap EXCEPT ![f] = FALSE]
    /\ freeing' = {}
    /\ UNCHANGED <<memmap, next_frame, frames, started, channel, panicked>>

FreeFrames ==
    /\ ~panicked /\ freeing # {}
    /\ bitmap' = [i \in Bits(memmap) |-> bitmap[i] /\ i \notin freeing]
    /\ freeing' = {}
    /\ UNCHANGED <<memmap, next_frame, frames, started, channel, panicked>>

FrameNext ==
    \/ \E o \in Owners : AllocateFrame(o) \/ NoFrame(o)
    \/ \E len \in RunLengths : AllocateContinuousFrames(len) \/ NoRun(len)
    \/ StartDeallocator
    \/ \E t \in Threads : DropThread(t)
    \/ DeallocatorRecv
    \/ FreeFrames

FrameSpec == FrameInit /\ [][FrameNext]_frameVars

(* The executor polls the deallocator task when the channel wakes it.  No  *)
(* fairness for FreeFrames: the task awaits the mutex, which may leave a   *)
(* waiter parked for ever (ParkedWaiterIsListed of AsyncMutex fails).      *)
FrameFairSpec == FrameSpec /\ WF_frameVars(DeallocatorRecv)

-----------------------------------------------------------------------------
(* Where a frame can be, other than free.                                  *)
Sent == UNION {channel[k] : k \in 1..Len(channel)}
Held == UNION {frames[o] : o \in Owners}

(* A frame has one holder: an owner, one vector in the channel, or the     *)
(* vector being freed.  Two of them would hand the same page to two users, *)
(* or free a page that is in use: free_frames clears bits unchecked.       *)
OneHolder ==
    /\ \A o, p \in Owners : o # p => frames[o] \cap frames[p] = {}
    /\ \A j, k \in 1..Len(channel) : j # k => channel[j] \cap channel[k] = {}
    /\ Held \cap Sent = {}
    /\ freeing \cap (Held \cup Sent) = {}

(* Only RAM the map calls usable is handed out, and never the pages that   *)
(* hold the bitmap and the kernel heap: neither the padding bits of the    *)
(* last byte nor what fill and init marked ever comes out of a search.     *)
HandedOutIsFreeRam ==
    (Held \cup Sent \cup freeing) \subseteq
        UsablePages(memmap) \ KernelPages(memmap)

(* The bitmap is exact: a bit is set when and only when init left it set   *)
(* or the frame has a holder.  No frame of a dropped thread is lost on its *)
(* way back, and free_frames clears nothing else.  (A thread dropped       *)
(* before the deallocator ran loses its frames, and the machine stops.)    *)
BitmapIsExact ==
    ~panicked => \A i \in Bits(memmap) :
        bitmap[i] <=> Fill(memmap)[i] \/ i \in Held \cup Sent \cup freeing

(* A frame has one place: free, or with one holder; what is handed out is  *)
(* RAM nobody else uses, and the bitmap says so.                           *)
FramesAreAccounted == OneHolder /\ HandedOutIsFreeRam /\ BitmapIsExact

(* Both searches are complete: skipping full bytes loses no free frame,    *)
(* and the scan that clears `indices` at every used bit first reaches the  *)
(* length asked for at the end of the lowest stretch of free frames.       *)
SearchesAreComplete ==
    /\ Hits(bitmap, next_frame, memmap) = {} => \A i \in Bits(memmap) : bitmap[i]
    /\ \A len \in RunLengths :
          LET stops == {i \in Bits(memmap) : IndicesLen(bitmap, memmap)[i] = len}
              starts == {s \in Bits(memmap) :
                            /\ s + len - 1 \in Bits(memmap)
                            /\ \A j \in s..(s + len - 1) : ~bitmap[j]}
          IN  /\ stops = {} <=> starts = {}
              /\ stops # {} =>
                    LET s == CHOOSE x \in starts : \A y \in starts : x <= y
                    IN  /\ FirstRun(bitmap, len, memmap) = s..(s + len - 1)
                        /\ s + len - 1 \in stops
                        /\ \A i \in stops : s + len - 1 <= i

(* Provided that deallocator_task never waits for the mutex for ever,      *)
(* every frame of a dropped thread comes back: a frame in the channel is   *)
(* eventually free or handed out anew, unless the machine panics.          *)
DroppedIsFreed ==
    []<>(freeing = {}) =>
        \A f \in UNION {UsablePages(m) \ KernelPages(m) : m \in {n \in MemMaps : Boots(n)}} :
            (f \in Sent \cup freeing) ~> (f \notin Sent \cup freeing \/ panicked)

=============================================================================
