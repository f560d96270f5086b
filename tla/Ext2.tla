-------------------------------- MODULE Ext2 --------------------------------
(***************************************************************************)
(* The ext2 driver as the VFS task reaches it: walking a path, opening and *)
(* creating a file, reading and writing through an open file.  The bytes   *)
(* of a file are left out: what is kept is which blocks the inodes point   *)
(* to, the sizes and positions, the entries of the directories and the     *)
(* allocation state.                                                       *)
(*                                                                         *)
(* delete_file, mkdir, rmdir and iter_dir have no caller and are not here. *)
(***************************************************************************)
EXTENDS Ext2Disk

CONSTANTS Direct,       \* INODE_BLOCK_LIMIT: 12 in the code
          Addrs,        \* ADDR_PER_BLOCK: 256 in the code
          BlockSize,    \* 1024 in the code
          DirCap,       \* how many names fit in one block of a directory
          InodesPerGroup, MkfsInodes,   \* inodes mkfs marked used
          Root,         \* ROOT_DIRECTORY_INODE_IDX
          LongNames,    \* names of more than 255 bytes
          Prealloc      \* s_prealloc_blocks: 0 in a revision 0 image

ASSUME Ext2Assumption ==
    /\ Direct \in Nat \ {0} /\ Addrs \in Nat \ {0}
    /\ BlockSize \in Nat \ {0} /\ DirCap \in Nat \ {0}
    /\ InodesPerGroup \in Nat \ {0}
    /\ MkfsInodes \subseteq 1..(GroupCount * InodesPerGroup)
    /\ Root \in MkfsInodes
    /\ Prealloc \in 0..Direct

Inodes == 1..(GroupCount * InodesPerGroup)
GroupOf(ino) == (ino - 1) \div InodesPerGroup
DivCeil(a, b) == (a + b - 1) \div b
MinOf(a, b) == IF a < b THEN a ELSE b
MaxOf(a, b) == IF a < b THEN b ELSE a

(* i_block without the double and triple indirect pointers, of which the   *)
(* last is the indirect one; 0 is no block.                                *)
Pointers == 0..Direct
NoBlocks == [k \in Pointers |-> 0]

(* The entries of a block.  fs.ind has the blocks that were made indirect  *)
(* blocks; all the others are zeros as far as pointers go.                 *)
NoEntries == [a \in 0..(Addrs - 1) |-> 0]
Entries(fs, b) == IF b \in DOMAIN fs.ind THEN fs.ind[b] ELSE NoEntries

-----------------------------------------------------------------------------
(* InodeBlockIterator.  o.it is the iterator's own copy of i_block, o.cur  *)
(* its cur_block_idx.                                                      *)

(* A pointer of i_block, allocated when it is 0.                           *)
SetPointer(o, k) ==
    IF o.it[k] # 0 THEN {o}
    ELSE Bind(AllocateInGroup(o, GroupOf(o.h.ino), 1), LAMBDA p :
             {[p EXCEPT !.it[k] = GlobalIdx(p.got[1][1], p.got[1][2])]})

(* handle_block_in_blocks_array: a fresh indirect block is cleared.        *)
SetIndirect(o) ==
    IF o.it[Direct] # 0 THEN {o}
    ELSE Bind(SetPointer(o, Direct), LAMBDA p :
             WriteSectors(p, [p EXCEPT !.fs.ind = (p.it[Direct] :> NoEntries) @@ @]))

(* handle_set_block: entry a of the indirect block, written back at once   *)
(* when it had to be allocated.                                            *)
SetEntry(o, a) ==
    IF Entries(o.fs, o.it[Direct])[a] # 0
    THEN {[o EXCEPT !.cur = Entries(o.fs, o.it[Direct])[a]]}
    ELSE Bind(AllocateInGroup(o, GroupOf(o.h.ino), 1), LAMBDA p :
             LET b == GlobalIdx(p.got[1][1], p.got[1][2])
             IN  WriteSectors([p EXCEPT !.cur = b],
                     [p EXCEPT !.cur = b, !.fs.ind[p.it[Direct]][a] = b]))

(* set: makes sure that block idx of the file exists.                      *)
SetBlock(o, idx) ==
    IF idx < Direct
    THEN Bind(SetPointer(o, idx), LAMBDA p : {[p EXCEPT !.cur = p.it[idx]]})
    ELSE Bind(Bind(SetIndirect(o), ReadSectors),
              LAMBDA p : SetEntry(p, idx - Direct))

(* get: reads block idx of the file; handle_block reads nothing for block  *)
(* number 0.                                                               *)
ReadBlock(o, b) == IF b = 0 THEN {o} ELSE ReadSectors(o)

(* handle_ind_block.  The number of the entry is used as a byte offset:    *)
(* one that is not a multiple of 4 is refused by the cast to u32, which    *)
(* panics.                                                                 *)
ReadIndirect(o, a) ==
    IF o.it[Direct] = 0 THEN {o}
    ELSE Bind(ReadSectors(o), LAMBDA p :
             IF a % 4 # 0 THEN Fail(p, "panic")
             ELSE ReadBlock(p, Entries(p.fs, p.it[Direct])[a \div 4]))

GetBlock(o, idx) ==
    IF idx < Direct THEN ReadBlock(o, o.it[idx]) ELSE ReadIndirect(o, idx - Direct)

-----------------------------------------------------------------------------
(* do_write_inode: the inode table and, for a new inode, the descriptor    *)
(* and the superblock in memory (whose copy goes to LBA 3, where no        *)
(* superblock is read from).  The inode bitmap is not touched.             *)

InodeOf(h) == [dir |-> h.dir, size |-> h.size, blk |-> h.blk]

WriteInode(o, h) ==
    Bind(ReadSectors(o), LAMBDA p :
        WriteSectors(p, [p EXCEPT !.fs.inodes[h.ino] = InodeOf(h)]))

WriteNewInode(o, h) ==
    LET g == GroupOf(h.ino)
        descriptor(p) ==
            WriteSectors(p, [p EXCEPT !.fs.freeInodes[g] = (@ - 1) % CountMod])
        superblock(p) ==
            LET q == [p EXCEPT !.fs.sbFree = @ - 1] IN WriteSectors(q, q)
    IN  Bind(Bind(Bind(WriteInode(o, h), ReadSectors), descriptor), superblock)

Handle(fs, ino) ==
    [ino |-> ino, dir |-> fs.inodes[ino].dir, size |-> fs.inodes[ino].size,
     blk |-> fs.inodes[ino].blk, head |-> 0]

-----------------------------------------------------------------------------
(* Directories.  fs.entries[d] are the entries in the blocks that the      *)
(* inode of d points to.                                                   *)

DirBlocks(h) == DivCeil(h.size, BlockSize)
Named(es, name) == {i \in 1..Len(es) : es[i].name = name}

Lookup_NotTheLast(o, d, name) ==
    LET es == o.fs.entries[d.ino]
        hit == Named(es, name) \ {Len(es)}
        lost == \E k \in 0..(DirBlocks(d) - 1) : d.blk[MinOf(k, Direct)] = 0
    IN  Bind(ReadSectors(o), LAMBDA p :
            CASE hit # {} -> {[p EXCEPT !.found = es[CHOOSE i \in hit : TRUE].ino]}
              [] hit = {} /\ lost -> Fail(p, "spin")
              [] hit = {} /\ ~lost -> {[p EXCEPT !.found = 0]})

(* do_find_entry_by_name: the blocks below i_size one after the other.  A  *)
(* block the inode has no pointer for reads as zeros, whose records have   *)
(* length 0: the scan of it never ends.                                    *)
Lookup(o, d, name) ==
    LET es == o.fs.entries[d.ino]
        hit == Named(es, name)
        lost == \E k \in 0..(DirBlocks(d) - 1) : d.blk[MinOf(k, Direct)] = 0
    IN  Bind(ReadSectors(o), LAMBDA p :
            CASE hit # {} -> {[p EXCEPT !.found = es[CHOOSE i \in hit : TRUE].ino]}
              [] hit = {} /\ lost -> Fail(p, "spin")
              [] hit = {} /\ ~lost -> {[p EXCEPT !.found = 0]})

(* add_dir_entry: in the slack of the blocks there are, or in a new block. *)
(* The new block is set in the iterator's copy of i_block, which is not    *)
(* copied back: only i_size of the directory (o.d) changes.                *)
AddDirEntry(o, ino, name) ==
    LET d == o.d
        entry == [name |-> name, ino |-> ino]
        newBlock == [o EXCEPT !.h = d, !.it = d.blk]
        grow(p) == LET q == [p EXCEPT !.h = o.h, !.d.size = @ + BlockSize]
                   IN  Bind(WriteSectors(q, q), WriteNewlyAllocated)
    IN  Bind(ReadSectors(o), LAMBDA r :
            IF Len(r.fs.entries[d.ino]) < DirCap
            THEN WriteSectors(r, [r EXCEPT
                                    !.fs.entries[d.ino] = Append(@, entry)])
            ELSE Bind(SetBlock(newBlock, DirBlocks(d)), grow))

(* walk_path: o.d becomes the directory the last name was looked up in,    *)
(* o.found the inode of that name or 0.                                    *)
WalkPath(o, path) ==
    LET step(outs, k) ==
            Bind(outs, LAMBDA p :
                IF ~p.d.dir THEN Fail(p, "NotADirectory")
                ELSE Bind(Lookup(p, p.d, path[k]), LAMBDA q :
                    CASE k = Len(path) -> {q}
                      [] k < Len(path) /\ q.found # 0 ->
                            {[q EXCEPT !.d = Handle(q.fs, q.found)]}
                      [] k < Len(path) /\ q.found = 0 ->
                            Fail(q, "NoSuchFileOrDirectory")))
    IN  FoldLeft(step,
            Bind(ReadSectors(o), LAMBDA p :
                {[p EXCEPT !.d = Handle(p.fs, Root), !.found = 0]}),
            [k \in 1..Len(path) |-> k])

-----------------------------------------------------------------------------
(* create_file and open_file.                                              *)

FreeInodesOf(g) ==
    {i \in Inodes : GroupOf(i) = g /\ i \notin MkfsInodes}

(* The clear bits of the inode bitmaps that find_available_inode gets to   *)
(* see.  No operation sets a bit, so the bitmaps stay as mkfs left them.   *)
Candidates(fs) == UNION {FreeInodesOf(g) : g \in {h \in Groups : fs.freeInodes[h] # 0}}

FindAvailableInode(o) ==
    Bind(ReadSectors(o), LAMBDA p :
        IF Candidates(p.fs) = {} THEN Fail(p, "NoAvailableInode")
        ELSE {[p EXCEPT !.h =
                 [ino |-> CHOOSE i \in Candidates(p.fs) :
                              \A j \in Candidates(p.fs) : i <= j,
                  dir |-> FALSE, size |-> 0, blk |-> NoBlocks, head |-> 0]]})

(* The preallocated blocks are recorded by their sector, not their number. *)
AllocateForNewInode(o) ==
    Bind(AllocateInGroup(o, GroupOf(o.h.ino), Prealloc), LAMBDA p :
        {[p EXCEPT !.h.blk = [k \in Pointers |->
            IF k < Prealloc THEN Addr(p.got[k + 1][1], p.got[k + 1][2]) ELSE 0]]})

CreateInode(o, name) ==
    LET entry(p) == AddDirEntry(p, p.h.ino, name)
        inode(p) == WriteNewInode(p, p.h)
        parent(p) == WriteInode(p, p.d)
    IN  IF name \in LongNames THEN Fail(o, "NameTooLong")
        ELSE Bind(Bind(Bind(Bind(Bind(FindAvailableInode(o),
                 AllocateForNewInode), entry), WriteNewlyAllocated),
                 inode), parent)

OpenFile_NoExcl(o, path, flags) ==
    LET existing(p) == {[p EXCEPT !.h = Handle(p.fs, p.found)]}
        missing(p) == IF "CREAT" \notin flags THEN Fail(p, "NoSuchFileOrDirectory")
                      ELSE CreateInode(p, path[Len(path)])
    IN  Bind(WalkPath(o, path),
             LAMBDA p : IF p.found # 0 THEN existing(p) ELSE missing(p))

(* open_file; EXCL refuses an existing file with or without CREAT.         *)
OpenFile(o, path, flags) ==
    LET existing(p) == IF "EXCL" \in flags THEN Fail(p, "FileExists")
                       ELSE {[p EXCEPT !.h = Handle(p.fs, p.found)]}
        missing(p) ==
            CASE "CREAT" \notin flags -> Fail(p, "NoSuchFileOrDirectory")
              [] "CREAT" \in flags /\ path = <<>> -> Fail(p, "BadPath")
              [] "CREAT" \in flags /\ path # <<>> /\ "PERMS" \notin flags ->
                    Fail(p, "NoPermsProvided")
              [] "CREAT" \in flags /\ path # <<>> /\ "PERMS" \in flags ->
                    CreateInode(p, path[Len(path)])
    IN  Bind(WalkPath(o, path),
             LAMBDA p : IF p.found # 0 THEN existing(p) ELSE missing(p))

-----------------------------------------------------------------------------
(* read and write through the handle o.h.                                  *)

(* The number of bytes of the block at the head that are asked for.        *)
Chunk(h, left) == MinOf(BlockSize - (h.head % BlockSize), left)

(* read: the iterator starts at block 0 of the file wherever the head is.  *)
ReadFile(o, len) ==
    LET todo == MinOf(len, MaxOf(o.h.size - o.h.head, 0))
        blocks == DivCeil((o.h.head % BlockSize) + todo, BlockSize)
        step(outs, k) ==
            Bind(outs, LAMBDA p :
                Bind(GetBlock(p, k - 1), LAMBDA q :
                    {[q EXCEPT !.h.head = @ + Chunk(q.h, q.left),
                               !.left = @ - Chunk(q.h, q.left)]}))
    IN  IF o.h.dir THEN Fail(o, "IsDirectory")
        ELSE IF todo = 0 THEN {o}
        ELSE FoldLeft(step, {[o EXCEPT !.left = todo, !.it = o.h.blk]},
                      [k \in 1..blocks |-> k])

(* write_till_next_block: i_size grows by one for each byte written at or  *)
(* beyond it, and once more when the input ends inside the block there.    *)
SizeAfter(h, n) ==
    LET s == IF h.head >= h.size THEN h.size + n ELSE MaxOf(h.size, h.head + n)
        inside == (h.head % BlockSize) + n < BlockSize
    IN  IF inside /\ h.head + n >= s THEN s + 1 ELSE s

(* The bytes written are zeros.  The block can be one that another file    *)
(* uses as its indirect block (NoBlockIsShared of Vfs does not hold): the  *)
(* entries under the bytes are then gone.  The input that starts at offset *)
(* 0 of a block replaces all of it.                                        *)
Overwritten(h, n) ==
    LET off == h.head % BlockSize
    IN  {a \in 0..(Addrs - 1) :
            off = 0 \/ (a * BlockSize) \div Addrs \in off..(off + n - 1)}

WriteTillNextBlock(o) ==
    LET n == Chunk(o.h, o.left)
        moved == [o EXCEPT !.h.size = SizeAfter(o.h, n), !.h.head = @ + n,
                           !.left = @ - n]
        written == IF o.cur \notin DOMAIN o.fs.ind THEN moved
                   ELSE [moved EXCEPT !.fs.ind[o.cur] = [a \in 0..(Addrs - 1) |->
                            IF a \in Overwritten(o.h, n) THEN 0 ELSE @[a]]]
    IN  Bind(IF o.h.head % BlockSize # 0 THEN ReadSectors(o) ELSE {o},
             LAMBDA p : WriteSectors(moved, written))

(* write: the pointers reach the handle and the inode table at the end.    *)
WriteFile(o, len) ==
    LET first == o.h.head \div BlockSize
        blocks == IF len = 0 THEN 0
                  ELSE DivCeil((o.h.head % BlockSize) + len, BlockSize)
        step(outs, k) ==
            Bind(outs, LAMBDA p :
                Bind(SetBlock(p, first + k - 1), WriteTillNextBlock))
        finish(p) == LET q == [p EXCEPT !.h.blk = p.it] IN WriteInode(q, q.h)
    IN  IF o.h.dir THEN Fail(o, "IsDirectory")
        ELSE Bind(Bind(FoldLeft(step, {[o EXCEPT !.left = len, !.it = o.h.blk]},
                                [k \in 1..blocks |-> k]),
                       finish), WriteNewlyAllocated)

=============================================================================
