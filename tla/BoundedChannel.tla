--------------------------- MODULE BoundedChannel ---------------------------
(***************************************************************************)
(* The bounded channel of ejcineque/sync/mpsc/bounded.rs: a ring of slots  *)
(* claimed by compare-and-exchange, a ring of wakers of the same size, and *)
(* positions that anyone may push past a slot that is taken.  One step is  *)
(* one access to shared memory; a slot's value is written and read under   *)
(* its claim.  There is one receiver task; the executor keeps a wake-up of *)
(* it until it polls again.                                                *)
(***************************************************************************)
EXTENDS Integers, Sequences, FiniteSets

CONSTANTS
    Scripts,    \* how many sends each handle attempts: a set of functions from handles
    Maker,      \* the handle the channel is made with; it clones the others
    CAPACITY,
    MaxPos      \* bound: how far the position of the wakers is pushed

ASSUME BoundedAssumption ==
    /\ CAPACITY \in Nat \ {0}
    /\ \A script \in Scripts : Maker \in DOMAIN script /\ script \in [DOMAIN script -> Nat]

VARIABLES
    snd,        \* of each handle: where it is, the position it loaded, the
                \* sends left to it, and whether it is in the loop of drop
    chan,       \* the channel, and whether the task of the receiver is woken
    rcv,        \* where the receiver is, the position it loaded, whether it
                \* tries the second time, and the attempts to register
    accepted,   \* history: the messages put in a slot, which send returns Ok for
    delivered   \* history: the messages poll returned

bVars == <<snd, chan, rcv, accepted, delivered>>

Ring == 0 .. CAPACITY - 1
RingAt(n) == n % CAPACITY
(* The states of a slot. *)
Empty == 0
Writing == 1
Full == 2
Reading == 3

NewChannel ==
    [slot |-> [k \in Ring |-> Empty], value |-> [k \in Ring |-> <<>>], waker |-> [k \in Ring |-> Empty],
     write |-> 0, read |-> 0, waker_write |-> 0, waker_read |-> 0,
     count |-> 1, closed |-> FALSE, woken |-> FALSE]

NewPoll == [pc |-> "read", pos |-> 0, second |-> FALSE, attempts |-> 0]

BoundedRest(script) ==
    /\ snd = [s \in DOMAIN script |->
                [pc |-> IF s = Maker THEN "idle" ELSE "none", pos |-> 0, left |-> script[s], last |-> FALSE]]
    /\ chan = NewChannel
    /\ rcv = NewPoll
    /\ accepted = <<>> /\ delivered = <<>>

BoundedInit == \E script \in Scripts : BoundedRest(script)

-----------------------------------------------------------------------------
(* A step of handle s that leaves it at p and the channel as c. *)
Sends(s, p, c) == snd' = [snd EXCEPT ![s] = p] /\ chan' = c /\ UNCHANGED <<rcv, delivered>>
Quiet(s, p, c) == Sends(s, p, c) /\ UNCHANGED accepted
At(s, l) == snd[s].pc = l
Goes(s, l) == [snd[s] EXCEPT !.pc = l, !.pos = IF l \in {"idle", "dropped"} THEN 0 ELSE @]

(* try_send; a handle that is not dropped finds the channel open. *)
StartSend(s) ==
    /\ At(s, "idle") /\ snd[s].left > 0
    /\ Quiet(s, [snd[s] EXCEPT !.pc = "load_w", !.left = @ - 1], chan)

LoadWrite(s) ==
    /\ At(s, "load_w")
    /\ Quiet(s, [snd[s] EXCEPT !.pc = "load_r", !.pos = chan.write], chan)

(* The subtraction wraps: a position loaded before the receiver passed it  *)
(* looks like a full ring.                                                 *)
LoadRead(s) ==
    /\ At(s, "load_r")
    /\ Quiet(s, Goes(s, IF snd[s].pos - chan.read \in 0 .. CAPACITY - 1 THEN "claim" ELSE "idle"), chan)

ClaimSlot_Load(s) ==
    LET k == RingAt(snd[s].pos)
    IN  /\ At(s, "claim")
        /\ IF chan.slot[k] # Full
           THEN Quiet(s, Goes(s, "write"), [chan EXCEPT !.slot[k] = Writing])
           ELSE Quiet(s, Goes(s, "skip"), chan)

ClaimSlot(s) ==
    LET k == RingAt(snd[s].pos)
    IN  /\ At(s, "claim")
        /\ IF chan.slot[k] = Empty
           THEN Quiet(s, Goes(s, "write"), [chan EXCEPT !.slot[k] = Writing])
           ELSE Quiet(s, Goes(s, "skip"), chan)

Write(s) ==
    LET k == RingAt(snd[s].pos)
        m == <<s, snd[s].left>>
    IN  /\ At(s, "write")
        /\ Sends(s, Goes(s, "advance"), [chan EXCEPT !.value[k] = m, !.slot[k] = Full])
        /\ accepted' = Append(accepted, m)

Advance(s) ==
    /\ At(s, "advance")
    /\ Quiet(s, Goes(s, "wake_r"), [chan EXCEPT !.write = @ + 1])

SkipWrite(s) ==
    /\ At(s, "skip")
    /\ Quiet(s, Goes(s, "load_w"), [chan EXCEPT !.write = IF @ = snd[s].pos THEN @ + 1 ELSE @])

(* try_wake_receiver, at the end of send and in the loop of drop. *)
AfterWake(s) == IF snd[s].last THEN "drop_r" ELSE "idle"

LoadWakerRead(s) ==
    /\ At(s, "wake_r")
    /\ Quiet(s, [snd[s] EXCEPT !.pc = "wake_w", !.pos = chan.waker_read], chan)

LoadWakerWrite(s) ==
    /\ At(s, "wake_w")
    /\ Quiet(s, Goes(s, IF snd[s].pos = chan.waker_write THEN AfterWake(s) ELSE "wake_claim"), chan)

ClaimWaker(s) ==
    LET k == RingAt(snd[s].pos)
    IN  /\ At(s, "wake_claim")
        /\ IF chan.waker[k] = Full
           THEN Quiet(s, Goes(s, "wake_free"), [chan EXCEPT !.waker[k] = Reading])
           ELSE Quiet(s, Goes(s, "wake_skip"), chan)

FreeWaker(s) ==
    /\ At(s, "wake_free")
    /\ Quiet(s, Goes(s, "wake_advance"), [chan EXCEPT !.waker[RingAt(snd[s].pos)] = Empty])

AdvanceWaker(s) ==
    /\ At(s, "wake_advance")
    /\ Quiet(s, Goes(s, "wake"), [chan EXCEPT !.waker_read = @ + 1])

Wake(s) ==
    /\ At(s, "wake")
    /\ Quiet(s, Goes(s, AfterWake(s)), [chan EXCEPT !.woken = TRUE])

SkipWaker(s) ==
    /\ At(s, "wake_skip") /\ chan.waker_read < MaxPos
    /\ Quiet(s, Goes(s, "wake_r"), [chan EXCEPT !.waker_read = IF @ = snd[s].pos THEN @ + 1 ELSE @])

(* Clone and drop; the last handle closes the channel and wakes until no   *)
(* waker is left.                                                          *)
CloneHandle(s) ==
    /\ At(s, "none") /\ At(Maker, "idle")
    /\ Quiet(s, Goes(s, "idle"), [chan EXCEPT !.count = @ + 1])

DropHandle(s) ==
    /\ At(s, "idle") /\ snd[s].left = 0
    /\ s = Maker => \A t \in DOMAIN snd : ~At(t, "none")
    /\ Quiet(s, Goes(s, IF chan.count = 1 THEN "close" ELSE "dropped"), [chan EXCEPT !.count = @ - 1])

Close(s) ==
    /\ At(s, "close")
    /\ Quiet(s, [snd[s] EXCEPT !.pc = "drop_r", !.last = TRUE], [chan EXCEPT !.closed = TRUE])

DropLoadRead(s) ==
    /\ At(s, "drop_r")
    /\ Quiet(s, [snd[s] EXCEPT !.pc = "drop_w", !.pos = chan.waker_read], chan)

DropLoadWrite(s) ==
    /\ At(s, "drop_w")
    /\ Quiet(s, Goes(s, IF snd[s].pos = chan.waker_write THEN "dropped" ELSE "wake_r"), chan)

Sender(s) ==
    \/ StartSend(s) \/ LoadWrite(s) \/ LoadRead(s) \/ ClaimSlot(s) \/ Write(s) \/ Advance(s) \/ SkipWrite(s)
    \/ LoadWakerRead(s) \/ LoadWakerWrite(s) \/ ClaimWaker(s) \/ FreeWaker(s) \/ AdvanceWaker(s) \/ Wake(s)
    \/ SkipWaker(s) \/ CloneHandle(s) \/ DropHandle(s) \/ Close(s) \/ DropLoadRead(s) \/ DropLoadWrite(s)

-----------------------------------------------------------------------------
(* The receiver: poll of the future of recv, again when it is done. *)
Receives(p, c) == rcv' = p /\ chan' = c /\ UNCHANGED <<snd, accepted>>
Still(p, c) == Receives(p, c) /\ UNCHANGED delivered
RcvAt(l) == rcv.pc = l
RcvGoes(l) == [rcv EXCEPT !.pc = l]

(* try_recv *)
RecvLoadRead == RcvAt("read") /\ Still([rcv EXCEPT !.pc = "write", !.pos = chan.read], chan)

RecvLoadWrite ==
    /\ RcvAt("write")
    /\ Still(RcvGoes(IF rcv.pos = chan.write THEN "is_closed" ELSE "claim"), chan)

RecvClaim ==
    LET k == RingAt(rcv.pos)
    IN  /\ RcvAt("claim")
        /\ IF chan.slot[k] = Full
           THEN Still(RcvGoes("free"), [chan EXCEPT !.slot[k] = Reading])
           ELSE Still(RcvGoes("skip"), chan)

RecvFree ==
    LET k == RingAt(rcv.pos)
    IN  /\ RcvAt("free")
        /\ Receives(RcvGoes("advance"), [chan EXCEPT !.slot[k] = Empty, !.value[k] = <<>>])
        /\ delivered' = Append(delivered, chan.value[k])

(* Mutation: the position is advanced for the claim and for the release.   *)
RecvAdvance_Twice == RcvAt("advance") /\ Still(NewPoll, [chan EXCEPT !.read = @ + 2])

RecvAdvance == RcvAt("advance") /\ Still(NewPoll, [chan EXCEPT !.read = @ + 1])

RecvSkip ==
    /\ RcvAt("skip")
    /\ Still(RcvGoes("read"), [chan EXCEPT !.read = IF @ = rcv.pos THEN @ + 1 ELSE @])

(* is_closed; the channel is closed only when no handle is left. *)
RecvIsClosed ==
    /\ RcvAt("is_closed")
    /\ Still(RcvGoes(IF chan.closed THEN "none" ELSE IF rcv.second THEN "pending" ELSE "register"), chan)

(* register_waker gives up after CAPACITY attempts. *)
RegisterLoad ==
    /\ RcvAt("register")
    /\ IF rcv.attempts >= CAPACITY THEN Still([rcv EXCEPT !.pc = "read", !.second = TRUE], chan)
       ELSE Still([rcv EXCEPT !.pc = "reg_claim", !.pos = chan.waker_write], chan)

RegisterClaim ==
    LET k == RingAt(rcv.pos)
    IN  /\ RcvAt("reg_claim")
        /\ IF chan.waker[k] = Empty
           THEN Still(RcvGoes("reg_write"), [chan EXCEPT !.waker[k] = Writing])
           ELSE Still(RcvGoes("reg_skip"), chan)

RegisterWrite == RcvAt("reg_write") /\ Still(RcvGoes("reg_advance"), [chan EXCEPT !.waker[RingAt(rcv.pos)] = Full])

RegisterAdvance_NoRetry ==
    RcvAt("reg_advance") /\ Still([rcv EXCEPT !.pc = "pending", !.second = TRUE], [chan EXCEPT !.waker_write = @ + 1])

RegisterAdvance ==
    RcvAt("reg_advance") /\ Still([rcv EXCEPT !.pc = "read", !.second = TRUE], [chan EXCEPT !.waker_write = @ + 1])

RegisterSkip ==
    /\ RcvAt("reg_skip")
    /\ Still([rcv EXCEPT !.pc = "register", !.attempts = @ + 1],
             [chan EXCEPT !.waker_write = IF @ = rcv.pos THEN @ + 1 ELSE @])

PollAgain == RcvAt("pending") /\ chan.woken /\ Still(NewPoll, [chan EXCEPT !.woken = FALSE])

Receiver ==
    \/ RecvLoadRead \/ RecvLoadWrite \/ RecvClaim \/ RecvFree \/ RecvAdvance \/ RecvSkip \/ RecvIsClosed
    \/ RegisterLoad \/ RegisterClaim \/ RegisterWrite \/ RegisterAdvance \/ RegisterSkip \/ PollAgain

BoundedNext == Receiver \/ \E s \in DOMAIN snd : Sender(s)

BoundedSpec == BoundedInit /\ [][BoundedNext]_bVars

-----------------------------------------------------------------------------
Elements(q) == {q[n] : n \in DOMAIN q}

(* However the handles race, every message that was accepted is in exactly *)
(* one place, delivered or in a slot: none is overwritten, delivered twice *)
(* or made up.                                                             *)
ExactlyOnce ==
    LET held == {k \in Ring : chan.slot[k] \in {Full, Reading}}
        values == {chan.value[k] : k \in held}
    IN  /\ Cardinality(Elements(delivered)) = Len(delivered)
        /\ Cardinality(values) = Cardinality(held)
        /\ values \cap Elements(delivered) = {}
        /\ values \union Elements(delivered) = Elements(accepted)

(* With one handle messages arrive in the order they were sent. *)
OneSenderIsFifo ==
    DOMAIN snd = {Maker} => SubSeq(accepted, 1, Len(delivered)) = delivered

(* With one handle a receiver that waits while a message lies in the ring  *)
(* is woken, or the sender is about to wake it.                            *)
OneSenderWakes ==
    DOMAIN snd = {Maker} /\ RcvAt("pending") /\ ~chan.woken /\ (\E k \in Ring : chan.slot[k] = Full)
        => ~At(Maker, "idle") /\ ~At(Maker, "dropped")
=============================================================================
