-------------------------------- MODULE MCVfs --------------------------------
(* A small image: group 0 has the root directory (inode 1, block 1) and a  *)
(* file "old" (inode 2, block 2), one free inode and six free bits; group  *)
(* 1 has one free bit and inodes of its own.  The numbers of the bits are  *)
(* those of mkfs: bit i stands for block i + 1.                            *)
EXTENDS Vfs

Ptrs(b) == [k \in Pointers |-> IF k = 0 THEN b ELSE 0]

MCMkfsTable ==
    (1 :> [dir |-> TRUE, size |-> BlockSize, blk |-> Ptrs(1)])
    @@ (2 :> [dir |-> FALSE, size |-> BlockSize, blk |-> Ptrs(2)])

MCMkfsEntries == 1 :> << [name |-> "old", ino |-> 2] >>

MCMkfsBits == (0 :> {0, 1}) @@ (1 :> 0..7 \ {3})

MCOffsets == {5, -2}

Create == {"CREAT", "PERMS"}
MCOpenRequests ==
    { << <<"a">>, Create \cup {"EXCL"} >>, << <<".", "b">>, Create >>,
      << <<"old">>, Create >>, << <<"old", "x">>, Create >> }

=============================================================================
