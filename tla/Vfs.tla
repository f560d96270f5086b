--------------------------------- MODULE Vfs ---------------------------------
(***************************************************************************)
(* The VFS task on top of the ext2 driver.  Kernel tasks (Clients) send    *)
(* operations into an unbounded channel and wait for a cell each; the task *)
(* takes them one at a time, so that one operation of the driver is one    *)
(* step here.  Only "/" is ever mounted.                                   *)
(*                                                                         *)
(* An open file has its own copy of the inode, taken when it was opened.   *)
(***************************************************************************)
EXTENDS Ext2

CONSTANTS Clients,
          OpenRequests,   \* the <<path, flags>> asked for
          Lengths,        \* lengths of the buffers read and written
          Offsets,        \* offsets given to lseek
          MkfsBits,       \* group -> the bits mkfs set in its block bitmap
          MkfsTable,      \* the inodes mkfs wrote
          MkfsEntries,    \* directory -> its entries
          MaxOps,         \* bound on the operations sent
          None

(* No head leaves the range of the direct and single indirect blocks: not  *)
(* upwards by this assumption, not downwards by StaysInRange.              *)
ASSUME VfsAssumption ==
    /\ Lengths \subseteq Nat /\ Offsets \subseteq Int
    /\ MaxOps \in Nat
    /\ \A n \in Lengths \cup Offsets :
          n * MaxOps <= BlockSize * (Direct + Addrs)

VARIABLES fs,      \* the disk and the driver's memory
          opened,  \* opened_inodes: file descriptor - 1 -> handle
          queue,   \* the channel to the VFS task
          asked,   \* client -> the operation it waits for, or None
          vfs,     \* "serving", or how the task stopped
          faults,  \* storage calls that failed so far
          ops,     \* operations sent so far
          won      \* open requests with CREAT and EXCL answered with a file

vars == <<fs, opened, queue, asked, vfs, faults, ops, won>>

Requests ==
    {[op |-> "Open", path |-> r[1], flags |-> r[2]] : r \in OpenRequests}
    \cup [op : {"Read", "Write"}, fd : 0..MaxOps, len : Lengths]
    \cup [op : {"Lseek"}, fd : 0..MaxOps, whence : {"Set", "Cur", "End"},
          offset : Offsets]

(* Path::normalize on the components of a path.                            *)
Normalize(path) ==
    LET push(stack, c) ==
            CASE c = "." -> stack
              [] c = ".." -> IF stack = <<>> THEN <<>> ELSE Front(stack)
              [] OTHER -> Append(stack, c)
    IN  FoldLeft(push, <<>>, path)

-----------------------------------------------------------------------------
Inode == [dir : BOOLEAN, size : Nat, blk : [Pointers -> Nat]]
BlockNumbers == 0..GlobalIdx(GroupCount - 1, GroupBlocks - 1)

TypeOK ==
    /\ fs.bitmap \in [Groups -> SUBSET Bits]
    /\ fs.pending \in SUBSET BlockRef
    /\ fs.freeBlocks \in [Groups -> 0..(CountMod - 1)]
    /\ fs.freeInodes \in [Groups -> 0..InodesPerGroup]
    /\ fs.sbFree \in Nat
    /\ fs.inodes \in [Inodes -> Inode]
    /\ \A b \in DOMAIN fs.ind : fs.ind[b] \in [0..(Addrs - 1) -> BlockNumbers]
    /\ \A b \in BlockRef : fs.given[b] \in Nat
    /\ \A k \in 1..Len(opened) :
          opened[k].ino \in Inodes /\ InodeOf(opened[k]) \in Inode
    /\ asked \in [Clients -> Requests \cup {None}]
    /\ vfs \in {"serving", "panicked", "spinning"}
    /\ faults \in 0..MaxFaults
    /\ ops \in 0..MaxOps

MkfsFreeInodes(g) == Cardinality(FreeInodesOf(g))

Init ==
    /\ fs = [bitmap |-> MkfsBits,
             pending |-> {},
             freeBlocks |-> [g \in Groups |-> GroupBlocks - Cardinality(MkfsBits[g])],
             freeInodes |-> [g \in Groups |-> MkfsFreeInodes(g)],
             sbFree |-> Cardinality(Inodes \ MkfsInodes),
             inodes |-> [i \in Inodes |-> IF i \in MkfsInodes THEN MkfsTable[i]
                            ELSE [dir |-> FALSE, size |-> 0, blk |-> NoBlocks]],
             entries |-> MkfsEntries,
             ind |-> <<>>,
             given |-> [b \in BlockRef |-> 0],
             stray |-> FALSE]
    /\ opened = <<>>
    /\ queue = <<>>
    /\ asked = [c \in Clients |-> None]
    /\ vfs = "serving"
    /\ faults = 0
    /\ ops = 0
    /\ won = {}

(* A bound on the requests.  A negative offset is given to SeekCur, of a   *)
(* file that is open and with its head far enough from the start, and when *)
(* the queue is empty, so that this is the head it is applied to: a head   *)
(* that wraps around is a triple indirect block to write.                  *)
StaysInRange(r) ==
    r.op = "Lseek" /\ r.offset < 0 =>
        /\ r.whence = "Cur" /\ queue = <<>>
        /\ r.fd < Len(opened) /\ opened[r.fd + 1].head + r.offset >= 0

(* vfs_open, vfs_read, vfs_write, vfs_lseek: one operation and its cell.   *)
Call(c, r) ==
    /\ asked[c] = None
    /\ ops < MaxOps
    /\ r.op # "Open" => r.fd <= Len(opened)
    /\ StaysInRange(r)
    /\ asked' = [asked EXCEPT ![c] = r]
    /\ queue' = Append(queue, c)
    /\ ops' = ops + 1
    /\ UNCHANGED <<fs, opened, vfs, faults, won>>

-----------------------------------------------------------------------------
(* The task.  Start(h) is the outcome an operation of the driver starts    *)
(* from.                                                                   *)

Start(h) ==
    [fs |-> fs, res |-> "ok", faults |-> faults, need |-> 0, got |-> <<>>,
     it |-> h.blk, cur |-> 0, h |-> h, d |-> h, found |-> 0, left |-> 0]

(* Stopping the task, or answering the client whose turn it is.            *)
Finish(o) ==
    /\ fs' = o.fs
    /\ faults' = o.faults
    /\ vfs' = CASE o.res = "panic" -> "panicked"
                [] o.res = "spin" -> "spinning"
                [] OTHER -> "serving"
    /\ asked' = IF vfs' = "serving" THEN [asked EXCEPT ![Head(queue)] = None]
                ELSE asked
    /\ queue' = Tail(queue)

Serving(operations) ==
    /\ vfs = "serving"
    /\ queue # <<>>
    /\ asked[Head(queue)].op \in operations

(* File descriptors count up from 0, in the order of the opens.            *)
Open ==
    /\ Serving({"Open"})
    /\ LET r == asked[Head(queue)]
           path == Normalize(r.path)
       IN  \E o \in OpenFile(Start(Handle(fs, Root)), path, r.flags) :
              /\ Finish(o)
              /\ opened' = IF o.res = "ok" THEN Append(opened, o.h) ELSE opened
              /\ won' = IF o.res = "ok" /\ {"CREAT", "EXCL"} \subseteq r.flags
                        THEN won \cup {<<path, Len(opened)>>} ELSE won
    /\ UNCHANGED ops

BadFd_NoAnswer ==
    /\ Serving({"Read", "Write", "Lseek"})
    /\ asked[Head(queue)].fd >= Len(opened)
    /\ queue' = Tail(queue)
    /\ UNCHANGED <<fs, opened, asked, vfs, faults, ops, won>>

(* find_inode_and_process with an fd that is not open.                     *)
BadFd ==
    /\ Serving({"Read", "Write", "Lseek"})
    /\ asked[Head(queue)].fd >= Len(opened)
    /\ queue' = Tail(queue)
    /\ asked' = [asked EXCEPT ![Head(queue)] = None]
    /\ UNCHANGED <<fs, opened, vfs, faults, ops, won>>

ReadWrite ==
    /\ Serving({"Read", "Write"})
    /\ LET r == asked[Head(queue)]
           k == r.fd + 1
       IN  /\ k <= Len(opened)
           /\ \E o \in IF r.op = "Read" THEN ReadFile(Start(opened[k]), r.len)
                       ELSE WriteFile(Start(opened[k]), r.len) :
                 /\ Finish(o)
                 /\ opened' = [opened EXCEPT ![k] = o.h]
    /\ UNCHANGED <<ops, won>>

(* SeekCur moves the head either way.  SeekEnd, like SeekData and          *)
(* SeekHole, drops the cell without setting it.                            *)
Lseek ==
    /\ Serving({"Lseek"})
    /\ LET r == asked[Head(queue)]
           k == r.fd + 1
       IN  /\ k <= Len(opened)
           /\ opened' = CASE r.whence = "Set" ->
                                [opened EXCEPT ![k].head = r.offset]
                          [] r.whence = "Cur" ->
                                [opened EXCEPT ![k].head = @ + r.offset]
                          [] r.whence = "End" -> opened
           /\ asked' = IF r.whence = "End" THEN asked
                       ELSE [asked EXCEPT ![Head(queue)] = None]
    /\ queue' = Tail(queue)
    /\ UNCHANGED <<fs, vfs, faults, ops, won>>

Next ==
    \/ \E c \in Clients, r \in Requests : Call(c, r)
    \/ Open
    \/ BadFd
    \/ ReadWrite
    \/ Lseek

Spec == Init /\ [][Next]_vars

(* The executor polls the VFS task again whenever its channel wakes it, so *)
(* the task takes the operations it finds there: the four actions of the   *)
(* task are the steps that shorten the queue, and one of them is enabled   *)
(* whenever the task serves and the queue is not empty.                    *)
TakesOne == vfs = "serving" /\ queue # <<>> /\ queue' = Tail(queue)

FairSpec == Spec /\ WF_queue(TakesOne)

-----------------------------------------------------------------------------
(* The allocator hands no bit of a bitmap out twice, whichever storage     *)
(* calls fail: allocated_block_indices covers it until it is on the disk.  *)
GivenOnce == \A b \in BlockRef : fs.given[b] <= 1

(* A bit that was handed out stays guarded, by being set in the bitmap or  *)
(* by allocated_block_indices, after any operation and any error.          *)
GivenIsGuarded ==
    \A b \in BlockRef :
        fs.given[b] > 0 => b \in fs.pending \/ b[2] \in fs.bitmap[b[1]]

(* bg_free_blocks_count is the number of clear bits of the group, as long  *)
(* as no storage call has failed and nothing waits to be written.          *)
FreeBlocksExact ==
    faults = 0 /\ fs.pending = {} =>
        \A g \in Groups :
            fs.freeBlocks[g] = GroupBlocks - Cardinality(fs.bitmap[g])

(* The block numbers a copy of an inode leads to: its pointers, and the    *)
(* entries of its indirect block.                                          *)
BlocksOf(h) ==
    LET direct == {h.blk[k] : k \in Pointers} \ {0}
        ind == h.blk[Direct]
    IN  direct \cup (IF ind = 0 THEN {}
                     ELSE {Entries(fs, ind)[a] : a \in 0..(Addrs - 1)} \ {0})

(* All the copies of an inode: on the disk and in the open files.          *)
Reaches(i) ==
    BlocksOf(fs.inodes[i])
    \cup UNION {BlocksOf(opened[k]) :
                   k \in {n \in 1..Len(opened) : opened[n].ino = i}}

MkfsBlocks == UNION {{MkfsTable[i].blk[k] : k \in Pointers} : i \in MkfsInodes}

(* The number of a block that the driver handed out is stored under one    *)
(* inode only, in any copy of it, and the inodes lead to no number that    *)
(* neither the driver handed out nor mkfs wrote there.                     *)
GivenHasOneOwner ==
    LET given == {GlobalIdx(b[1], b[2]) : b \in {c \in BlockRef : fs.given[c] > 0}}
        blocks == [i \in Inodes |-> Reaches(i) \ MkfsBlocks]
    IN  \A i \in Inodes :
            /\ blocks[i] \subseteq given
            /\ \A j \in Inodes : j < i => blocks[i] \cap blocks[j] = {}

(* allocate_n_blocks and write_newly_allocated_blocks keep their books: a  *)
(* bit is given out once and is guarded against being given again, the     *)
(* counts on the disk follow the bitmaps, and the numbers the driver makes *)
(* of the bits have one owner each among the inodes.  The last is said of  *)
(* the numbers that were not in use before: see NoBlockIsShared.           *)
BlocksAreAccounted ==
    GivenOnce /\ GivenIsGuarded /\ FreeBlocksExact /\ GivenHasOneOwner

(* No two inodes lead to the same block.  The comment at allocator.rs:71,  *)
(* "map bitmap index to data block LBA", has the bit stand for the block   *)
(* it stands for to mkfs; but what is stored in the inode is the number    *)
(* one below it.  The number of the first free bit is that of the last     *)
(* block in use.                                                           *)
NoBlockIsShared ==
    \A i \in Inodes : \A j \in Inodes \ {i} : Reaches(i) \cap Reaches(j) = {}

(* No directory has two entries with one name, also after creations that   *)
(* failed half way.                                                        *)
NamesAreUnique ==
    \A d \in DOMAIN fs.entries : \A n \in {e.name : e \in Range(fs.entries[d])} :
        Cardinality(Named(fs.entries[d], n)) = 1

(* Of all the opens of one path with CREAT and EXCL, at most one is        *)
(* answered with a file.                                                   *)
ExclCreatesOnce == \A a, b \in won : a[1] = b[1] => a = b

(* Every operation is answered, unless the task has panicked or is stuck   *)
(* in a directory, or it is an lseek the task has no answer for.           *)
Answered ==
    \A c \in Clients :
        (asked[c] # None /\ ~(asked[c].op = "Lseek" /\ asked[c].whence = "End"))
            ~> (asked[c] = None \/ vfs # "serving")

=============================================================================
