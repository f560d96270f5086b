------------------------------ MODULE MCMemory ------------------------------
(***************************************************************************)
(* The frame allocator and the mutex around it, for TLC.  In a behaviour   *)
(* either tasks fight for the mutex, or the owners of frames call the      *)
(* allocator, one at a time: MutualExclusion of the first is why a call is *)
(* one step of the second.                                                 *)
(***************************************************************************)
EXTENDS AsyncMutex, FrameAllocator

VARIABLE part

E(b, l, u) == [base |-> b, length |-> l, usable |-> u]

(* A map that ends with usable RAM at the last bit of the bitmap, and one  *)
(* whose unusable last entry is covered too, with padding bits after it.   *)
(* In both the frames that init leaves free are 3, 4, in the next byte of  *)
(* the bitmap, and 7, beyond a hole.                                       *)
MCMapToTheEnd == << E(0, 1, FALSE), E(1, 4, TRUE), E(5, 2, FALSE), E(7, 1, TRUE) >>
MCMapPadded == << E(0, 5, TRUE), E(5, 2, FALSE), E(7, 1, TRUE), E(8, 1, FALSE) >>
MCMemMaps == {MCMapToTheEnd, MCMapPadded}

MemoryInit ==
    /\ Init /\ FrameInit
    /\ \/ part = "mutex" /\ memmap = MCMapPadded
       \/ part = "frames"

MemoryNext ==
    /\ UNCHANGED part
    /\ \/ part = "mutex" /\ Next /\ UNCHANGED frameVars
       \/ part = "frames" /\ FrameNext /\ UNCHANGED vars

(* The fairness of FairSpec and of FrameFairSpec; the part that does not   *)
(* move has nothing enabled that is fair.                                  *)
MemoryFairSpec ==
    /\ MemoryInit /\ [][MemoryNext]_<<part, vars, frameVars>>
    /\ Fairness
    /\ WF_frameVars(DeallocatorRecv)

=============================================================================
