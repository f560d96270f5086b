------------------------------ MODULE BlockMap ------------------------------
(***************************************************************************)
(* InodeBlockIterator of the ext2 driver at all its levels: the blocks of  *)
(* one open file through the direct, indirect, double and triple indirect  *)
(* pointers, with the pointer block of each level that the iterator keeps  *)
(* in memory.  One call of next or next_set is one step; a write and a     *)
(* read are the calls between two steps that start and end it.             *)
(*                                                                         *)
(* A storage call may fail, having changed the block or not; the iterator  *)
(* is then dropped.  The allocator is reduced to what module Vfs shows of  *)
(* it: it hands out a block that was not handed out before.                *)
(***************************************************************************)
EXTENDS Integers, FiniteSets
LOCAL INSTANCE Sequences
LOCAL INSTANCE SequencesExt
LOCAL INSTANCE TLC

CONSTANTS
    Direct,          \* INODE_BLOCK_LIMIT: 12 in the code
    Addrs,           \* IND_BLOCK_ADDR_COUNT: 256 in the code
    DiskBlocks,      \* blocks the allocator can hand out
    Starts,          \* first blocks of writes
    MaxWrites, MaxSets, MaxDiskFaults,   \* bounds
    NoBuf, NoIter    \* a buffer and an iterator that is None

ASSUME BlockMapAssumption ==
    /\ Direct \in Nat \ {0} /\ Addrs \in Nat \ {0} /\ DiskBlocks \in Nat
    /\ MaxWrites \in Nat /\ MaxSets \in Nat /\ MaxDiskFaults \in Nat

IndLimit == Direct + Addrs
DoubleLimit == IndLimit + Addrs * Addrs
TripleLimit == DoubleLimit + Addrs * Addrs * Addrs

(* No write goes past the last block that i_block can point to.            *)
ASSUME StartsAssumption ==
    Starts \subseteq Nat /\ \A i \in Starts : i + MaxSets <= TripleLimit

VARIABLES
    disk,      \* block -> its bytes taken for pointers; 0 is no block
    taken,     \* the blocks handed out
    inode,     \* the inode of the open file: i_block, and i_size in blocks
    it,        \* the iterator, or how the task stopped
    written,   \* history: block of the file -> where finished writes put it
    dirty,     \* whether blocks never used hold old bytes
    calls      \* writes, sets and faults so far

blockVars == <<disk, taken, inode, it, written, dirty, calls>>

Blocks == 1 .. DiskBlocks
Slots == 0 .. Addrs - 1
Zeros == [a \in Slots |-> 0]
OldBytes == [a \in Slots |-> DiskBlocks]    \* what is no pointer block, taken for one

create_block_iterator(mode) ==
    [mode |-> mode, blk |-> inode.blk, limit |-> inode.size, idx |-> 0, cur |-> 0,
     ind |-> NoBuf, indAt |-> 0, dbl |-> NoBuf, dblAt |-> 0, tri |-> NoBuf, triAt |-> 0,
     new |-> <<>>,      \* history: as written, for this write
     buf |-> 0]         \* history: the block whose bytes get returned

-----------------------------------------------------------------------------
(* A call of the iterator takes an outcome to the outcomes that can follow *)
(* until one answers an error.                                             *)

Outcome == [disk |-> disk, taken |-> taken, it |-> it, got |-> 0,
            faults |-> calls.faults, res |-> "ok"]

Then(outs, F(_)) == UNION {IF o.res = "ok" THEN F(o) ELSE {o} : o \in outs}

FailedCall(o) == IF o.faults < MaxDiskFaults
                 THEN {[o EXCEPT !.res = "HalErr", !.faults = @ + 1]} ELSE {}

read_block(o) == {o} \cup FailedCall(o)

write_block(o, b, bytes) ==
    LET after == [o EXCEPT !.disk[b] = bytes]
    IN  {after} \cup FailedCall(o) \cup FailedCall(after)

clear_block(o, b) == write_block(o, b, Zeros)

allocate(o) ==
    LET free == Blocks \ o.taken
        b == CHOOSE n \in free : \A m \in free : n <= m
    IN  IF free = {} THEN {[o EXCEPT !.res = "NoSpaceLeft"]}
        ELSE Then(read_block(o), LAMBDA p : {[p EXCEPT !.taken = @ \cup {b}, !.got = b]})

(* The buffers: read again when another block is wanted.                   *)
LoadInd_Stale(o, b) ==
    IF o.it.ind # NoBuf THEN {o}
    ELSE Then(read_block(o), LAMBDA p :
             {[p EXCEPT !.it.ind = p.disk[b], !.it.indAt = b]})

LoadInd(o, b) ==
    IF o.it.indAt = b THEN {o}
    ELSE Then(read_block(o), LAMBDA p :
             {[p EXCEPT !.it.ind = p.disk[b], !.it.indAt = b]})

LoadDbl(o, b) ==
    IF o.it.dblAt = b THEN {o}
    ELSE Then(read_block(o), LAMBDA p :
             {[p EXCEPT !.it.dbl = p.disk[b], !.it.dblAt = b]})

-----------------------------------------------------------------------------
(* set.                                                                    *)

handle_set_block(o, b, a) ==
    LET fresh(p) ==
            LET ptrs == [p.it.ind EXCEPT ![a] = p.got]
            IN  write_block([p EXCEPT !.it.ind = ptrs, !.it.cur = p.got], p.it.indAt, ptrs)
    IN  Then(LoadInd(o, b), LAMBDA p :
            IF p.it.ind[a] # 0 THEN {[p EXCEPT !.it.cur = p.it.ind[a]]}
            ELSE Then(allocate(p), fresh))

(* A new pointer block is cleared after the block above points to it.      *)
handle_set_indirect_block(o, b, d, a) ==
    LET fresh(p) ==
            LET ptrs == [p.it.dbl EXCEPT ![d] = p.got]
            IN  Then(write_block([p EXCEPT !.it.dbl = ptrs], p.it.dblAt, ptrs),
                     LAMBDA q : clear_block(q, q.got))
        below(p) == handle_set_block(p, p.it.dbl[d], a)
    IN  Then(LoadDbl(o, b), LAMBDA p :
            IF p.it.dbl[d] # 0 THEN below(p) ELSE Then(Then(allocate(p), fresh), below))

handle_set_double_indirect_block(o, t, d, a) ==
    LET fresh(p) ==
            LET ptrs == [p.it.tri EXCEPT ![t] = p.got]
            IN  Then(write_block([p EXCEPT !.it.tri = ptrs], p.it.triAt, ptrs),
                     LAMBDA q : clear_block(q, q.got))
        below(p) == handle_set_indirect_block(p, p.it.tri[t], d, a)
    IN  IF o.it.tri[t] # 0 THEN below(o) ELSE Then(Then(allocate(o), fresh), below)

handle_block_in_blocks_array(o, k) ==
    IF o.it.blk[k] # 0 THEN {o}
    ELSE Then(allocate(o), LAMBDA p : clear_block([p EXCEPT !.it.blk[k] = p.got], p.got))

SetDirect(o, i) ==
    LET fresh(p) == {[p EXCEPT !.it.blk[i] = p.got, !.it.cur = p.got]}
    IN  IF o.it.blk[i] # 0 THEN {[o EXCEPT !.it.cur = o.it.blk[i]]}
        ELSE Then(allocate(o), fresh)

SetInd(o, n) ==
    Then(handle_block_in_blocks_array(o, Direct), LAMBDA p :
        handle_set_block(p, p.it.blk[Direct], n))

SetDouble(o, n) ==
    Then(handle_block_in_blocks_array(o, Direct + 1), LAMBDA p :
        handle_set_indirect_block(p, p.it.blk[Direct + 1], n \div Addrs, n % Addrs))

SetTriple(o, n) ==
    LET load(p) == IF p.it.tri # NoBuf THEN {p}
                   ELSE Then(read_block(p), LAMBDA q :
                            {[q EXCEPT !.it.tri = q.disk[q.it.blk[Direct + 2]],
                                       !.it.triAt = q.it.blk[Direct + 2]]})
    IN  Then(Then(handle_block_in_blocks_array(o, Direct + 2), load), LAMBDA p :
            handle_set_double_indirect_block(p, n \div (Addrs * Addrs),
                                             (n \div Addrs) % Addrs, n % Addrs))

set(o) ==
    LET i == o.it.idx
    IN  CASE i < Direct -> SetDirect(o, i)
          [] Direct <= i /\ i < IndLimit -> SetInd(o, i - Direct)
          [] IndLimit <= i /\ i < DoubleLimit -> SetDouble(o, i - IndLimit)
          [] OTHER -> SetTriple(o, i - DoubleLimit)

-----------------------------------------------------------------------------
(* get.  A byte offset into a pointer block that is not a multiple of 4 is *)
(* refused by the cast to u32, which panics.                               *)

handle_block(o, b) ==
    LET read == [o EXCEPT !.it.cur = b, !.it.buf = b]
    IN  IF b = 0 THEN {read} ELSE read_block(read)

Hole(o) == {[o EXCEPT !.it.buf = 0]}     \* zeros; cur_block_idx stays

PointerAt(ptrs, off) == ptrs[off \div 4]

handle_ind_block(o, off, b) ==
    IF b = 0 THEN Hole(o)
    ELSE Then(LoadInd(o, b), LAMBDA p :
             IF off % 4 # 0 THEN {[p EXCEPT !.res = "panic"]}
             ELSE handle_block(p, PointerAt(p.it.ind, off)))

handle_double_ind_block(o, doff, off, b) ==
    IF b = 0 THEN Hole(o)
    ELSE Then(LoadDbl(o, b), LAMBDA p :
             handle_ind_block(p, off, PointerAt(p.it.dbl, doff)))

(* The number of the block the triple indirect buffer was read from is not *)
(* recorded here.                                                          *)
GetTriple(o, n) ==
    LET top == o.it.blk[Direct + 2]
        load(p) == IF p.it.tri # NoBuf THEN {p}
                   ELSE Then(read_block(p), LAMBDA q : {[q EXCEPT !.it.tri = q.disk[top]]})
    IN  IF top = 0 THEN Hole(o)
        ELSE Then(load(o), LAMBDA p :
                 handle_double_ind_block(p, ((n \div Addrs) % Addrs) * 4, (n % Addrs) * 4,
                     PointerAt(p.it.tri, (n \div (Addrs * Addrs)) * 4)))

(* The entry of the indirect block is its own byte offset.                 *)
get(o) ==
    LET i == o.it.idx
        n == i - IndLimit
    IN  CASE i < Direct -> handle_block(o, o.it.blk[i])
          [] Direct <= i /\ i < IndLimit -> handle_ind_block(o, i - Direct, o.it.blk[Direct])
          [] IndLimit <= i /\ i < DoubleLimit ->
                handle_double_ind_block(o, (n \div Addrs) * 4, (n % Addrs) * 4,
                                        o.it.blk[Direct + 1])
          [] OTHER -> GetTriple(o, i - DoubleLimit)

-----------------------------------------------------------------------------
BlockMapRest(old) ==
    /\ dirty = old
    /\ disk = [b \in Blocks |-> IF old THEN OldBytes ELSE Zeros]
    /\ taken = {}
    /\ inode = [blk |-> [k \in 0 .. Direct + 2 |-> 0], size |-> 0]
    /\ it = NoIter
    /\ written = <<>>
    /\ calls = [writes |-> 0, sets |-> 0, faults |-> 0]

BlockMapInit == \E old \in BOOLEAN : BlockMapRest(old)

StartWrite(i) ==
    /\ it = NoIter /\ calls.writes < MaxWrites
    /\ it' = [create_block_iterator("write") EXCEPT !.idx = i]
    /\ calls' = [calls EXCEPT !.writes = @ + 1]
    /\ UNCHANGED <<disk, taken, inode, written, dirty>>

(* next_set, then write_till_next_block with a whole block of input.       *)
WriteNext ==
    LET data(o) == write_block(o, o.it.cur, OldBytes)
        sized == IF it.idx >= inode.size THEN inode.size + 1 ELSE inode.size
    IN  /\ it # NoIter /\ it.mode = "write" /\ calls.sets < MaxSets
        /\ \E r \in set(Outcome) :
              \E o \in Then({r}, data) :
                 /\ disk' = o.disk /\ taken' = o.taken
                 /\ inode' = IF r.res = "ok" THEN [inode EXCEPT !.size = sized] ELSE inode
                 /\ it' = IF o.res = "ok"
                          THEN [o.it EXCEPT !.idx = @ + 1,
                                            !.new = (it.idx :> o.it.cur) @@ @]
                          ELSE NoIter
                 /\ calls' = [calls EXCEPT !.sets = @ + 1, !.faults = o.faults]
        /\ UNCHANGED <<written, dirty>>

(* The input is used up: into_blocks_array.                                *)
EndWrite ==
    /\ it # NoIter /\ it.mode = "write" /\ it.new # <<>>
    /\ inode' = [inode EXCEPT !.blk = it.blk]
    /\ written' = it.new @@ written
    /\ it' = NoIter
    /\ UNCHANGED <<disk, taken, dirty, calls>>

(* read starts at block 0 of the file.                                     *)
StartRead ==
    /\ it = NoIter /\ inode.size > 0
    /\ it' = create_block_iterator("read")
    /\ UNCHANGED <<disk, taken, inode, written, dirty, calls>>

ReadNext ==
    /\ it # NoIter /\ it.mode = "read" /\ it.idx < it.limit
    /\ \E o \in get(Outcome) :
          /\ it' = CASE o.res = "ok" -> [o.it EXCEPT !.idx = @ + 1]
                     [] o.res = "panic" -> [o.it EXCEPT !.mode = "panicked"]
                     [] OTHER -> NoIter
          /\ calls' = [calls EXCEPT !.faults = o.faults]
    /\ UNCHANGED <<disk, taken, inode, written, dirty>>

EndRead ==
    /\ it # NoIter /\ it.mode = "read" /\ it.idx > 0
    /\ it' = NoIter
    /\ UNCHANGED <<disk, taken, inode, written, dirty, calls>>

BlockMapNext ==
    \/ \E i \in Starts : StartWrite(i)
    \/ WriteNext
    \/ EndWrite
    \/ StartRead
    \/ ReadNext
    \/ EndRead

-----------------------------------------------------------------------------
(* The format: the pointers to follow from i_block to block i of a file.   *)
Route(i) ==
    LET d == i - IndLimit
        t == i - DoubleLimit
    IN  CASE i < Direct -> <<i>>
          [] Direct <= i /\ i < IndLimit -> <<Direct, i - Direct>>
          [] IndLimit <= i /\ i < DoubleLimit -> <<Direct + 1, d \div Addrs, d % Addrs>>
          [] OTHER -> <<Direct + 2, t \div (Addrs * Addrs), (t \div Addrs) % Addrs, t % Addrs>>

Follow(blk, route) ==
    FoldLeft(LAMBDA b, a : IF b = 0 THEN 0 ELSE disk[b][a], blk[route[1]], Tail(route))

Routes == {Route(i) : i \in 0 .. TripleLimit - 1}
Places == UNION {{SubSeq(r, 1, n) : n \in 1 .. Len(r)} : r \in Routes}

(* Every block that a write was told to use is where the format has a      *)
(* reader look for it, while the write goes on and after it.               *)
WritesAreFound(blk, at) == \A i \in DOMAIN at : Follow(blk, Route(i)) = at[i]

(* No block is in two places of the file: two blocks of its contents, or a *)
(* block of pointers and one of contents.                                  *)
OnePlaceEach(blk) ==
    LET used == {r \in Places : Follow(blk, r) # 0}
    IN  Cardinality({Follow(blk, r) : r \in used}) = Cardinality(used)

(* next returns the bytes the format has at that place; the entries of the *)
(* single indirect block, which get finds by a byte offset that is not     *)
(* one, are left out.                                                      *)
ReadsFollowFormat ==
    it # NoIter /\ it.mode = "read" /\ it.idx > 0 /\ it.idx - 1 \notin Direct .. IndLimit - 1
        => it.buf = Follow(inode.blk, Route(it.idx - 1))

(* The pointers of a file form a tree that a reader walks as the writers   *)
(* built it, whichever levels the writes touch in which order and with the *)
(* buffers the iterator keeps.  A storage call that fails leaves it so on  *)
(* a disk whose unused blocks are zero; on another one a pointer block may *)
(* be in place and not cleared, for it is cleared last.                    *)
BlockMapIsSound ==
    calls.faults = 0 \/ ~dirty =>
        /\ WritesAreFound(inode.blk, written)
        /\ it # NoIter /\ it.mode = "write" => WritesAreFound(it.blk, it.new)
        /\ OnePlaceEach(inode.blk)
        /\ ReadsFollowFormat

=============================================================================
