----------------------------- MODULE MCLockFree -----------------------------
(***************************************************************************)
(* The two structures built on compare-and-exchange, for TLC: the buffer   *)
(* pool and the bounded channel.  They share nothing, so in a behaviour    *)
(* one of them moves and the other rests.                                  *)
(***************************************************************************)
EXTENDS BufferPool, BoundedChannel

VARIABLE part

(* One handle that fills the ring and wraps, or two that race. *)
MCScripts == {[a |-> 3], [a |-> 1, b |-> 1]}

SomeBuffers == CHOOSE b \in {New(frame) : frame \in [0 .. FrameCount - 1 -> Frames]} :
                  \A i, j \in Slots : b[i] = b[j] => i = j

LockFreeInit ==
    /\ Init
    /\ \/ part = "pool" /\ BoundedRest([a |-> 1])
       \/ part = "channel" /\ buffers = SomeBuffers /\ BoundedInit

LockFreeNext ==
    /\ UNCHANGED part
    /\ \/ part = "pool" /\ Next /\ UNCHANGED bVars
       \/ part = "channel" /\ BoundedNext /\ UNCHANGED vars

LockFreeSpec == LockFreeInit /\ [][LockFreeNext]_<<part, vars, bVars>>
=============================================================================
