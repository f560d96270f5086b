-------------------------- MODULE UnboundedChannel --------------------------
(***************************************************************************)
(* The unbounded channel of ejcineque/sync/mpsc/unbounded.rs.  Buffer,     *)
(* wakers and sender count sit under one spin lock, so each operation is   *)
(* one step.  Many handles send; one task receives, and all the wakers in  *)
(* rx_wakers are clones of the waker of that task.                         *)
(***************************************************************************)
EXTENDS Naturals, Sequences, FiniteSets

CONSTANTS
    Handles,    \* the UnboundedSender handles that may exist
    First,      \* the handle returned by unbounded_channel()
    Messages,
    MaxSent,    \* bound of the model: messages sent in one behaviour
    MaxWakers   \* bound of the model: spurious polls stop at so many wakers

ASSUME HandlesOK == First \in Handles /\ IsFiniteSet(Handles)
ASSUME BoundsOK == MaxSent \in Nat /\ MaxWakers \in Nat

VARIABLES
    buffer,
    rx_wakers,      \* the number of wakers in the queue of that name
    sender_count,
    senders,        \* the handles that are alive
    rx,             \* the receiving task: "running", "parked", or "closed" (got None)
    woken,          \* its waker was called since it last ran
    sent, received  \* history: all messages sent, all messages received

chVars == <<buffer, rx_wakers, sender_count, senders, rx, woken, sent, received>>

(* unbounded_channel *)
ChInit ==
    /\ buffer = <<>>
    /\ rx_wakers = 0
    /\ sender_count = 1
    /\ senders = {First}
    /\ rx = "running"
    /\ woken = FALSE
    /\ sent = <<>>
    /\ received = <<>>

-----------------------------------------------------------------------------
(* Mutations: plausible mistakes in the code, used to confirm that each    *)
(* property can fail.  No specification of this module uses them.          *)

(* send() wakes nobody. *)
Send_NoWake(h, m) ==
    /\ h \in senders
    /\ Len(sent) < MaxSent
    /\ buffer' = Append(buffer, m)
    /\ sent' = Append(sent, m)
    /\ UNCHANGED <<rx_wakers, woken, sender_count, senders, rx, received>>

(* pop_back in the place of pop_front. *)
RecvPoll_Back ==
    IF buffer # <<>>
    THEN /\ buffer' = SubSeq(buffer, 1, Len(buffer) - 1)
         /\ received' = Append(received, buffer[Len(buffer)])
         /\ rx' = "running"
         /\ UNCHANGED rx_wakers
    ELSE /\ rx' = "parked"
         /\ rx_wakers' = rx_wakers + 1
         /\ UNCHANGED <<buffer, received>>

(* The sender count is tested before the buffer. *)
RecvPoll_CountFirst ==
    IF sender_count = 0
    THEN /\ rx' = "closed"
         /\ UNCHANGED <<buffer, rx_wakers, received>>
    ELSE IF buffer # <<>>
    THEN /\ buffer' = Tail(buffer)
         /\ received' = Append(received, Head(buffer))
         /\ rx' = "running"
         /\ UNCHANGED rx_wakers
    ELSE /\ rx_wakers' = rx_wakers + 1
         /\ rx' = "parked"
         /\ UNCHANGED <<buffer, received>>

-----------------------------------------------------------------------------
(* The operations. *)

Clone(h, g) ==
    /\ h \in senders
    /\ g \in Handles \ senders
    /\ sender_count' = sender_count + 1
    /\ senders' = senders \union {g}
    /\ UNCHANGED <<buffer, rx_wakers, rx, woken, sent, received>>

(* The drop of a handle wakes nobody. *)
Drop(h) ==
    /\ h \in senders
    /\ sender_count' = sender_count - 1
    /\ senders' = senders \ {h}
    /\ UNCHANGED <<buffer, rx_wakers, rx, woken, sent, received>>

Send(h, m) ==
    /\ h \in senders
    /\ Len(sent) < MaxSent
    /\ buffer' = Append(buffer, m)
    /\ sent' = Append(sent, m)
    /\ IF rx_wakers > 0
       THEN rx_wakers' = rx_wakers - 1 /\ woken' = TRUE
       ELSE UNCHANGED <<rx_wakers, woken>>
    /\ UNCHANGED <<sender_count, senders, rx, received>>

(* One poll of a RecvFuture by the receiving task. *)
RecvPoll ==
    IF buffer # <<>>
    THEN /\ buffer' = Tail(buffer)
         /\ received' = Append(received, Head(buffer))
         /\ rx' = "running"
         /\ UNCHANGED rx_wakers
    ELSE IF sender_count = 0
    THEN /\ rx' = "closed"
         /\ UNCHANGED <<buffer, rx_wakers, received>>
    ELSE /\ rx_wakers' = rx_wakers + 1
         /\ rx' = "parked"
         /\ UNCHANGED <<buffer, received>>

Recv ==
    /\ rx = "running"
    /\ RecvPoll
    /\ UNCHANGED <<sender_count, senders, woken, sent>>

(* The executor runs the receiving task after a wake-up. *)
Repoll ==
    /\ rx = "parked"
    /\ woken
    /\ woken' = FALSE
    /\ RecvPoll
    /\ UNCHANGED <<sender_count, senders, sent>>

(* The task may also be woken through another future: the AHCI task races  *)
(* two channels, and a waker it left behind in one of them stays valid.    *)
SpuriousPoll ==
    /\ rx = "parked"
    /\ rx_wakers < MaxWakers
    /\ RecvPoll
    /\ UNCHANGED <<sender_count, senders, woken, sent>>

ChNext ==
    \/ \E h, g \in Handles : Clone(h, g)
    \/ \E h \in Handles : Drop(h)
    \/ \E h \in Handles, m \in Messages : Send(h, m)
    \/ Recv
    \/ Repoll
    \/ SpuriousPoll

ChSpec == ChInit /\ [][ChNext]_chVars

(* A woken task is polled again and a running receiver goes on receiving;  *)
(* nothing forces anyone to send.                                          *)
ChFairSpec == ChSpec /\ WF_chVars(Recv) /\ WF_chVars(Repoll)

-----------------------------------------------------------------------------
ChTypeOK ==
    /\ buffer \in Seq(Messages)
    /\ rx_wakers \in Nat
    /\ sender_count \in Nat
    /\ senders \in SUBSET Handles
    /\ rx \in {"running", "parked", "closed"}
    /\ woken \in BOOLEAN
    /\ sent \in Seq(Messages)
    /\ received \in Seq(Messages)

(* Messages are neither lost, duplicated nor reordered. *)
FifoDelivery == sent = received \o buffer

(* A receiver that waits without a wake-up on its way has nothing to       *)
(* receive, and the next send() will find its waker.                       *)
NoLostWakeup == rx = "parked" /\ ~woken => buffer = <<>> /\ rx_wakers > 0

(* None is final: once recv() returned None no handle is left to send      *)
(* another message and no message was left behind.                         *)
NoneIsFinal == rx = "closed" => senders = {} /\ buffer = <<>>

(* Messages arrive once and in order, and None is the last thing recv()    *)
(* returns: nobody is left to send and nothing is left behind.             *)
DeliveryIsSound == FifoDelivery /\ NoneIsFinal

(* What was sent is eventually received. *)
SentIsReceived ==
    \A n \in 1 .. MaxSent : Len(sent) >= n ~> Len(received) >= n
=============================================================================
