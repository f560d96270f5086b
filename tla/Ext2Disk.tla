------------------------------ MODULE Ext2Disk ------------------------------
(***************************************************************************)
(* The block allocator of the ext2 driver and the storage calls under it,  *)
(* as operators on outcomes.                                               *)
(*                                                                         *)
(* An operation of the driver is a chain of storage calls, and `?` ends it *)
(* at the first one that answers an error.  An outcome is a record with    *)
(* the file system as it is then (o.fs), how the operation stands (o.res,  *)
(* "ok" while it goes on) and its local variables; an operator takes an    *)
(* outcome to the set of outcomes that can follow.                         *)
(*                                                                         *)
(* The image is the one format_disk.sh makes: blocks of 1024 bytes and     *)
(* revision 0.  The driver only mounts it in a build that wraps on         *)
(* overflow (identify_ext2 subtracts end_lba from start_lba), so counters  *)
(* wrap here too.                                                          *)
(***************************************************************************)
EXTENDS Integers, Sequences, FiniteSets, SequencesExt

CONSTANTS GroupCount,     \* block_groups_count
          GroupBlocks,    \* s_blocks_per_group, the bits of one bitmap block
          CountMod,       \* 2^16 in the code: the width of the u16 counters
          MaxFaults       \* bound on the storage calls that fail

ASSUME DiskAssumption ==
    /\ GroupCount \in Nat \ {0} /\ GroupBlocks \in Nat \ {0}
    /\ CountMod \in Nat /\ GroupBlocks < CountMod
    /\ MaxFaults \in Nat

Groups == 0..(GroupCount - 1)
Bits == 0..(GroupBlocks - 1)
BlockRef == Groups \X Bits

GlobalIdx_InGroup(g, i) == i

(* AllocatedBlock.block_global_idx and AllocatedBlock.addr of bit i in     *)
(* group g: the first counts blocks from 0, the second is the sector of    *)
(* block i + 1, for the groups start at block 1.  mkfs means the second    *)
(* block by the bit; the driver stores the first number.                   *)
GlobalIdx(g, i) == g * GroupBlocks + i
Addr(g, i) == 2 + 2 * (g * GroupBlocks + i)

-----------------------------------------------------------------------------
(* Outcomes.                                                               *)

Fail(o, e) == {[o EXCEPT !.res = e]}

Bind(outs, F(_)) == UNION {IF o.res = "ok" THEN F(o) ELSE {o} : o \in outs}

Faulty(o) ==
    IF o.faults < MaxFaults
    THEN {[o EXCEPT !.res = "HalErr", !.faults = @ + 1]}
    ELSE {}

(* read_sectors and write_sectors: a call that answers an error may have   *)
(* changed the sectors or not.                                             *)
ReadSectors(o) == {o} \cup Faulty(o)
WriteSectors(o, written) == {written} \cup Faulty(o) \cup Faulty(written)

-----------------------------------------------------------------------------
(* allocate_n_blocks_in_group and allocate_n_blocks.                       *)

(* The n least members of a set of numbers, or all of them.                *)
Least(n, S) == {i \in S : Cardinality({j \in S : j < i}) < n}

FreeIn_IgnorePending(fs, g) == {i \in Bits : i \notin fs.bitmap[g]}

(* The bits of a group that the scan takes: clear on the disk and not      *)
(* among the allocated_block_indices that are not written yet.             *)
FreeIn(fs, g) ==
    {i \in Bits : i \notin fs.bitmap[g] /\ <<g, i>> \notin fs.pending}

(* One group of the scan, which takes what is still needed from it.  The   *)
(* count in `given` is not in the code: how often a block was handed out.  *)
TakeFrom(o, g) ==
    LET take(p) ==
            LET bits == Least(p.need, FreeIn(p.fs, g))
                refs == {<<g, i>> : i \in bits}
            IN  {[p EXCEPT !.need = @ - Cardinality(bits),
                           !.got = @ \o [k \in 1..Cardinality(bits) |->
                                          <<g, SetToSortSeq(bits, <)[k]>>],
                           !.fs.pending = @ \cup refs,
                           !.fs.given = [b \in BlockRef |->
                                IF b \in refs THEN @[b] + 1 ELSE @[b]]]}
    IN  Bind(ReadSectors(o), take)

OtherGroups(g) == SetToSortSeq(Groups \ {g}, <)

(* The group of the inode is read whatever the number asked for, the       *)
(* others only while something is missing.  What was found before an error *)
(* stays in allocated_block_indices.                                       *)
AllocateInGroup(o, g, num) ==
    LET fallback(outs, h) ==
            Bind(outs, LAMBDA p : IF p.need = 0 THEN {p} ELSE TakeFrom(p, h))
        start == TakeFrom([o EXCEPT !.need = num, !.got = <<>>], g)
    IN  Bind(FoldLeft(fallback, start, OtherGroups(g)),
             LAMBDA p : IF p.need = 0 THEN {p} ELSE Fail(p, "NoSpaceLeft"))

-----------------------------------------------------------------------------
(* write_newly_allocated_blocks.                                           *)

PendingIn(fs, g) == {i \in Bits : <<g, i>> \in fs.pending}

MarkBitmap_Last(o, g) ==
    LET idx == {GlobalIdx(g, i) : i \in {j \in PendingIn(o.fs, g) :
                                    \A k \in PendingIn(o.fs, g) : k <= j}}
    IN  Bind(ReadSectors(o), LAMBDA p :
            IF idx \subseteq Bits
            THEN WriteSectors(p, [p EXCEPT !.fs.bitmap[g] = @ \cup idx])
            ELSE Fail(p, "panic"))

(* Indexing the one-block buffer by block_global_idx is out of its bounds  *)
(* for every group but the first.                                          *)
MarkBitmap(o, g) ==
    LET idx == {GlobalIdx(g, i) : i \in PendingIn(o.fs, g)}
    IN  Bind(ReadSectors(o), LAMBDA p :
            IF idx \subseteq Bits
            THEN WriteSectors(p, [p EXCEPT !.fs.bitmap[g] = @ \cup idx])
            ELSE Fail(p, "panic"))

(* With nothing allocated the two buffers go to relative LBA -1, the       *)
(* sector before the partition.                                            *)
StrayWrite(o) == WriteSectors(o, [o EXCEPT !.fs.stray = TRUE])

WriteDescriptors_One(o) ==
    Bind(ReadSectors(o), LAMBDA p :
        WriteSectors(p, [p EXCEPT !.fs.freeBlocks = [g \in Groups |->
            IF PendingIn(p.fs, g) = {} THEN @[g] ELSE (@[g] - 1) % CountMod]]))

WriteDescriptors(o) ==
    Bind(ReadSectors(o), LAMBDA p :
        WriteSectors(p, [p EXCEPT !.fs.freeBlocks = [g \in Groups |->
            (@[g] - Cardinality(PendingIn(p.fs, g))) % CountMod]]))

WriteNewlyAllocated(o) ==
    LET gs == SetToSortSeq({g \in Groups : PendingIn(o.fs, g) # {}}, <)
        mark(outs, g) == Bind(outs, LAMBDA p : MarkBitmap(p, g))
        clear(p) == {[p EXCEPT !.fs.pending = {}]}
    IN  IF gs = <<>> THEN Bind(StrayWrite(o), StrayWrite)
        ELSE Bind(Bind(FoldLeft(mark, {o}, gs), WriteDescriptors), clear)

=============================================================================
