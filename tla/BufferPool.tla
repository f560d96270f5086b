----------------------------- MODULE BufferPool -----------------------------
(***************************************************************************)
(* The disk I/O buffer pool of ejcineque/pools/mod.rs: buffers cut out of  *)
(* whole frames, and an atomic bit mask of the ones in use.  get_buffer    *)
(* and the drop of a handle update the mask with fetch_update: load, apply *)
(* a closure, compare_exchange, and apply the closure again to the value   *)
(* found when the exchange fails.  The closure of get_buffer also assigns  *)
(* a variable outside it, `result', which survives a failed exchange.      *)
(***************************************************************************)
EXTENDS Naturals, FiniteSets

CONSTANTS
    Users,      \* the tasks that get and drop buffers, one handle each at a time
    Count,      \* the number of buffers, 64 in the code
    PageSize,   \* PAGE_SIZE
    Size,       \* N, the size of a buffer
    Frames,     \* the frames the frame allocator may hand out, by number
    None        \* stands for Option::None

(* The assertions of DiskIOBufferPool::new. *)
ASSUME NewAsserts == /\ Size \in Nat \ {0} /\ PageSize \in Nat
                     /\ PageSize % Size = 0 /\ Size <= PageSize

ASSUME PoolOK == /\ Count \in Nat \ {0} /\ IsFiniteSet(Users)
                 /\ Frames \subseteq Nat /\ None \notin Nat

Slots == 0 .. Count - 1

VARIABLES
    buffers,    \* the address of each buffer
    mask,       \* the set of the bits that are 1
    pc,         \* where each user is
    val,        \* the mask the closure was last applied to
    result      \* `result' of get_buffer, then `idx' of the handle

vars == <<buffers, mask, pc, val, result>>

PerPage == PageSize \div Size
FrameCount == (Size * Count + PageSize - 1) \div PageSize

(* The frames come from the frame allocator, so they are distinct; buffers *)
(* fill them in order.                                                     *)
New(frame) == [i \in Slots |-> frame[i \div PerPage] * PageSize + (i % PerPage) * Size]

Init ==
    /\ \E frame \in [0 .. FrameCount - 1 -> Frames] :
         /\ \A i, j \in DOMAIN frame : frame[i] = frame[j] => i = j
         /\ buffers = New(frame)
    /\ mask = {}
    /\ pc = [u \in Users |-> "idle"]
    /\ val = [u \in Users |-> {}]
    /\ result = [u \in Users |-> None]

(* The closure of get_buffer: trailing_ones() is the lowest clear bit. *)
IsFull(m) == m = Slots
LowestClear(m) == CHOOSE i \in Slots \ m : \A j \in Slots \ m : i <= j
Claim(u, m) ==
    /\ val' = [val EXCEPT ![u] = m]
    /\ result' = IF IsFull(m) THEN result ELSE [result EXCEPT ![u] = LowestClear(m)]

(* What the closure returned for the value it was applied to. *)
Claimed(m) == IF IsFull(m) THEN m ELSE m \union {LowestClear(m)}

-----------------------------------------------------------------------------
(* Mutations: plausible mistakes in the code, used to confirm that each    *)
(* property can fail.  No specification of this module uses them.          *)

(* A store in the place of the compare_exchange. *)
GetCas_Blind(u) ==
    /\ pc[u] = "get_cas"
    /\ mask' = Claimed(val[u])
    /\ pc' = [pc EXCEPT ![u] = "handle"]
    /\ UNCHANGED <<buffers, val, result>>

(* The drop clears nothing. *)
DropCas_Leaks(u) ==
    /\ pc[u] = "drop_cas"
    /\ pc' = [pc EXCEPT ![u] = "idle"]
    /\ UNCHANGED <<buffers, mask, val, result>>

-----------------------------------------------------------------------------
GetLoad(u) ==
    /\ pc[u] = "start"
    /\ Claim(u, mask)
    /\ pc' = [pc EXCEPT ![u] = "get_cas"]
    /\ UNCHANGED <<buffers, mask>>

(* get_buffer starts with result = None. *)
GetBuffer(u) ==
    /\ pc[u] = "idle"
    /\ result' = [result EXCEPT ![u] = None]
    /\ pc' = [pc EXCEPT ![u] = "start"]
    /\ UNCHANGED <<buffers, mask, val>>

(* The exchange; a handle without an index owns a buffer of the heap. *)
GetCas(u) ==
    /\ pc[u] = "get_cas"
    /\ IF mask = val[u]
       THEN /\ mask' = Claimed(val[u])
            /\ pc' = [pc EXCEPT ![u] = "handle"]
            /\ UNCHANGED <<val, result>>
       ELSE /\ Claim(u, mask)
            /\ UNCHANGED <<mask, pc>>
    /\ UNCHANGED buffers

(* DiskIOBufferPoolHandle::drop; without an index it frees the heap buffer. *)
DropLoad(u) ==
    /\ pc[u] = "handle"
    /\ IF result[u] = None
       THEN /\ pc' = [pc EXCEPT ![u] = "idle"]
            /\ UNCHANGED val
       ELSE /\ pc' = [pc EXCEPT ![u] = "drop_cas"]
            /\ val' = [val EXCEPT ![u] = mask]
    /\ UNCHANGED <<buffers, mask, result>>

DropCas(u) ==
    /\ pc[u] = "drop_cas"
    /\ IF mask = val[u]
       THEN /\ mask' = val[u] \ {result[u]}
            /\ pc' = [pc EXCEPT ![u] = "idle"]
            /\ UNCHANGED val
       ELSE /\ val' = [val EXCEPT ![u] = mask]
            /\ UNCHANGED <<mask, pc>>
    /\ UNCHANGED <<buffers, result>>

Next == \E u \in Users : GetBuffer(u) \/ GetLoad(u) \/ GetCas(u) \/ DropLoad(u) \/ DropCas(u)

Spec == Init /\ [][Next]_vars

-----------------------------------------------------------------------------
(* The users that own a buffer of the pool, until their drop clears the bit. *)
Owners == {u \in Users : pc[u] \in {"handle", "drop_cas"} /\ result[u] # None}

TypeOK ==
    /\ buffers \in [Slots -> Nat]
    /\ mask \in SUBSET Slots
    /\ pc \in [Users -> {"idle", "start", "get_cas", "handle", "drop_cas"}]
    /\ val \in [Users -> SUBSET Slots]
    /\ result \in [Users -> Slots \union {None}]

(* As long as the pool does not run full, two users never own overlapping  *)
(* memory: the bits handed out differ, and so do the bytes behind them.    *)
BuffersAreExclusive ==
    \A u, w \in Owners : u # w =>
        \/ buffers[result[u]] + Size <= buffers[result[w]]
        \/ buffers[result[w]] + Size <= buffers[result[u]]

(* Between operations the mask shows exactly the buffers that are owned. *)
MaskIsExact == mask = {result[u] : u \in Owners}

(* As long as the pool does not run full, no two handles share memory and  *)
(* no bit of the mask is lost or left behind, whatever exchanges fail.     *)
BuffersAreAccounted == BuffersAreExclusive /\ MaskIsExact

(* Even when the pool runs full no bit outlives its owners. *)
NoBufferLeaks == mask \subseteq {result[u] : u \in Owners}

(* "if the buffer pool is full allocate a new one": a user that found the  *)
(* mask full owns a buffer of the heap.                                    *)
FullPoolAllocatesNew ==
    \A u \in Users : pc[u] = "handle" /\ IsFull(val[u]) => result[u] = None
=============================================================================
