------------------------------- MODULE MCSync -------------------------------
(***************************************************************************)
(* The locks under interrupts and the unbounded channel, for TLC.  The     *)
(* channel takes each of its steps under its lock, which is one of those   *)
(* locks; beyond that they share nothing, so in a behaviour one of them    *)
(* moves and the other rests.                                              *)
(***************************************************************************)
EXTENDS IrqLocks, UnboundedChannel

VARIABLE part

SyncInit == part \in {"locks", "channel"} /\ Init /\ ChInit

SyncNext ==
    /\ UNCHANGED part
    /\ \/ part = "locks" /\ Next /\ UNCHANGED chVars
       \/ part = "channel" /\ ChNext /\ UNCHANGED vars

(* The fairness of FairSpec and of ChFairSpec, each for the part that moves. *)
SyncFairSpec ==
    /\ SyncInit /\ [][SyncNext]_<<part, vars, chVars>>
    /\ \A c \in Cpus : /\ SF_vars(part = "locks" /\ (SetMask(c) \/ TaskLockOp(c)))
                       /\ SF_vars(part = "locks" /\ HandlerLockOp(c))
    /\ WF_chVars(part = "channel" /\ Recv)
    /\ WF_chVars(part = "channel" /\ Repoll)
=============================================================================
