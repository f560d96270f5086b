-------------------------- MODULE OneSenderProofs --------------------------
(***************************************************************************)
(* The bounded channel with one handle, for any capacity: it delivers in   *)
(* order and loses no wake-up.  With more handles it does neither.         *)
(***************************************************************************)
EXTENDS BoundedChannelProofs

(* There is one handle. *)
Solo == Handles = {Maker}

(* The positions of the messages that were written and not yet taken past. *)
Positions == chan.read .. Len(accepted) - 1

(* What the handle and the receiver loaded is still so when they use it,   *)
(* neither skips a slot, and the positions count what was accepted and     *)
(* delivered.                                                              *)
PositionsAgree ==
    /\ chan.read <= chan.write /\ chan.write - chan.read <= CAPACITY
    /\ snd[Maker].pc \in {"claim", "write", "advance"} => chan.write - chan.read < CAPACITY
    /\ snd[Maker].pc \in {"load_r", "claim", "write", "advance"} => snd[Maker].pos = chan.write
    /\ rcv.pc \in {"write", "claim", "free", "advance"} => rcv.pos = chan.read
    /\ rcv.pc \in {"claim", "free", "advance"} => chan.read < chan.write
    /\ ~At(Maker, "skip") /\ ~RcvAt("skip")
    /\ Len(accepted) = chan.write + (IF At(Maker, "advance") THEN 1 ELSE 0)
    /\ Len(delivered) = chan.read + (IF RcvAt("advance") THEN 1 ELSE 0)

(* The ring holds, in order, the messages accepted and not yet delivered,  *)
(* and no other slot is in use but the one being written.                  *)
HoldsAt(n) ==
    IF n = chan.read /\ RcvAt("advance") THEN chan.slot[RingAt(n)] = Empty
    ELSE /\ chan.value[RingAt(n)] = accepted[n + 1]
         /\ chan.slot[RingAt(n)] = IF n = chan.read /\ RcvAt("free") THEN Reading ELSE Full

UsedAt(k) ==
    chan.slot[k] # Empty =>
        (\E n \in Positions : k = RingAt(n)) \/ (At(Maker, "write") /\ k = RingAt(chan.write))

RingHoldsTheRest == (\A n \in Positions : HoldsAt(n)) /\ (\A k \in Ring : UsedAt(k))

(* What was delivered is the start of what was accepted. *)
PrefixIsDelivered ==
    Len(delivered) <= Len(accepted) /\ \A n \in 1 .. Len(delivered) : delivered[n] = accepted[n]

FifoInv == PositionsAgree /\ RingHoldsTheRest /\ PrefixIsDelivered

(* The handle holds a waker it will call, or the one it just claimed.      *)
Waking == {"wake_free", "wake_advance", "wake"}
AfterClaim == {"wake_skip", "wake_free", "wake_advance"}

(* The same for the ring of wakers, of which the handle is the reader: a   *)
(* waker that is registered lies where the handle will still look for it.  *)
WakerPositions ==
    /\ chan.waker_read <= chan.waker_write
    /\ At(Maker, "wake_w") => snd[Maker].pos = chan.waker_read
    /\ snd[Maker].pc \in AfterClaim \union {"wake_claim"}
         => snd[Maker].pos = chan.waker_read /\ chan.waker_read < chan.waker_write
    /\ rcv.pc \in {"reg_claim", "reg_write", "reg_advance", "reg_skip"} => rcv.pos = chan.waker_write

WakerAt(k) ==
    /\ chan.waker[k] = Reading => At(Maker, "wake_free") /\ k = RingAt(chan.waker_read)
    /\ chan.waker[k] = Writing => RcvAt("reg_write") /\ k = RingAt(chan.waker_write)
    /\ chan.waker[k] = Full =>
         \E n \in chan.waker_read .. chan.waker_write :
            /\ k = RingAt(n)
            /\ n = chan.waker_read => snd[Maker].pc \notin AfterClaim
            /\ n = chan.waker_write => RcvAt("reg_advance")

WakerClaims ==
    /\ At(Maker, "wake_free") => chan.waker[RingAt(chan.waker_read)] = Reading
    /\ RcvAt("reg_write") => chan.waker[RingAt(chan.waker_write)] = Writing

WakersAgree == WakerPositions /\ (\A k \in Ring : WakerAt(k)) /\ WakerClaims

(* Once the receiver has registered it is woken, or the handle is about to *)
(* wake it, or its waker is in the ring; a full ring holds one as well.    *)
ReceiverIsRegistered ==
    rcv.second \/ rcv.attempts > 0 \/ rcv.pc \in {"reg_advance", "reg_skip"} =>
        \/ chan.woken \/ snd[Maker].pc \in Waking
        \/ \E k \in Ring : chan.waker[k] = Full

(* The receiver registers on the first pass and waits on the second. *)
RegistersOnce ==
    /\ rcv.pc \in {"register", "reg_claim", "reg_write", "reg_advance", "reg_skip"} => ~rcv.second
    /\ RcvAt("pending") => rcv.second

(* A receiver that found the ring empty after it registered is woken for   *)
(* what is written later.                                                  *)
SenderWillWake ==
    rcv.second /\ rcv.pc \in {"is_closed", "pending"} /\ ~chan.woken /\ (\E k \in Ring : chan.slot[k] = Full)
        => snd[Maker].pc \in Waking \union {"advance", "wake_r", "wake_w", "wake_claim", "wake_skip"}

WakeInv == WakersAgree /\ ReceiverIsRegistered /\ RegistersOnce /\ SenderWillWake

(* The invariant of the channel with one handle. *)
SoloInv == Solo => FifoInv /\ WakeInv

(* Positions closer than the capacity lie in different slots. *)
LEMMA CloseIsApart ==
    ASSUME NEW a \in Nat, NEW b \in Nat, a < b, b - a < CAPACITY
    PROVE  RingAt(a) # RingAt(b)
<1> DEFINE qa == a \div CAPACITY
           qb == b \div CAPACITY
           r == b % CAPACITY
<1>1. SUFFICES ASSUME a % CAPACITY = b % CAPACITY PROVE FALSE
  BY DEF RingAt
<1>2. CAPACITY \in Nat \ {0}
  BY BoundedAssumption
<1>3. /\ qa \in Nat /\ a = CAPACITY * qa + (a % CAPACITY)
      /\ qb \in Nat /\ b = CAPACITY * qb + (b % CAPACITY) /\ b % CAPACITY \in 0 .. CAPACITY - 1
  BY <1>2, Division, Zenon
<1>4. a = CAPACITY * qa + r /\ b = CAPACITY * qb + r
  BY <1>1, <1>3
<1>5. r \in Nat
  <2> HIDE DEF r
  <2>1. r \in 0 .. CAPACITY - 1
    BY <1>3 DEF r
  <2> QED BY <1>2, <2>1
<1> HIDE DEF qa, qb, r
<1>6. CAPACITY * qa \in Nat /\ CAPACITY * qb \in Nat /\ CAPACITY * qb - CAPACITY * qa = b - a
  BY <1>2, <1>3, <1>4, <1>5
<1>7. CASE qb <= qa
  <2>1. CAPACITY * qb <= CAPACITY * qa
    BY <1>2, <1>3, <1>7
  <2> QED BY <1>6, <2>1
<1>8. CASE qb >= qa + 1
  <2>1. CAPACITY * qb >= CAPACITY * (qa + 1) /\ CAPACITY * (qa + 1) = CAPACITY * qa + CAPACITY
    BY <1>2, <1>3, <1>8
  <2> QED BY <1>2, <1>6, <2>1
<1> QED BY <1>3, <1>7, <1>8

(* The positions in use lie in different slots of the ring, and none of    *)
(* them in the slot the handle is writing.                                 *)
LEMMA PositionsAreApart ==
    ASSUME ChannelTypeOK, PositionsAgree
    PROVE  /\ Positions \subseteq Nat /\ Len(accepted) \in Nat
           /\ \A n \in Positions : RingAt(n) \in Ring
           /\ \A n, j \in Positions : n # j => RingAt(n) # RingAt(j)
           /\ snd[Maker].pc \in {"claim", "write"} => \A n \in Positions : RingAt(n) # RingAt(chan.write)
<1>1. /\ chan.read \in Nat /\ chan.write \in Nat /\ Len(accepted) \in Nat
      /\ CAPACITY \in Nat /\ chan.read <= chan.write /\ chan.write - chan.read <= CAPACITY
  BY LenFacts, BoundedAssumption DEF ChannelTypeOK, ChannelIsTyped, PositionsAgree
<1>2. Len(accepted) - chan.read <= CAPACITY
  BY <1>1 DEF PositionsAgree, At
<1>3. ASSUME NEW n \in Positions PROVE n \in Nat /\ chan.read <= n /\ n < Len(accepted)
  BY <1>1 DEF Positions
<1>4. ASSUME NEW n \in Positions, NEW j \in Positions, n < j PROVE RingAt(n) # RingAt(j)
  <2>1. n \in Nat /\ j \in Nat /\ j - n < CAPACITY
    BY <1>1, <1>2, <1>3
  <2> QED BY <1>4, <2>1, CloseIsApart
<1>5. ASSUME snd[Maker].pc \in {"claim", "write"}, NEW n \in Positions PROVE RingAt(n) # RingAt(chan.write)
  <2>1. n < chan.write /\ chan.write - n < CAPACITY /\ n \in Nat
    BY <1>1, <1>3, <1>5 DEF PositionsAgree, At
  <2> QED BY <1>1, <2>1, CloseIsApart
<1>6. ASSUME NEW n \in Positions, NEW j \in Positions, n # j PROVE RingAt(n) # RingAt(j)
  <2>1. n < j \/ j < n
    BY <1>3, <1>6
  <2> QED BY <1>4, <2>1
<1> QED BY <1>1, <1>3, <1>5, <1>6, RingAtInRing

(* The steps of a send; the others ... *)
SendSteps(s) == LoadWrite(s) \/ LoadRead(s) \/ ClaimSlot(s) \/ Write(s) \/ Advance(s) \/ SkipWrite(s)

(* ... leave both positions alone. *)
LEMMA AsideOfSend ==
    ASSUME ChannelTypeOK, NEW s \in Handles, Sender(s), ~SendSteps(s)
    PROVE  /\ chan'.write = chan.write /\ chan'.read = chan.read
           /\ snd[s].pc \notin {"write", "advance"}
           /\ snd'[s].pc \notin {"load_r", "claim", "write", "advance", "skip"}
<1> DEFINE Goal == /\ chan'.write = chan.write /\ chan'.read = chan.read
                   /\ snd[s].pc \notin {"write", "advance"}
                   /\ snd'[s].pc \notin {"load_r", "claim", "write", "advance", "skip"}
<1>1. /\ s \in DOMAIN snd /\ DOMAIN snd[s] = {"pc", "pos", "left", "last"} /\ ChannelIsTyped
  BY DEF ChannelTypeOK, SendersAreTyped, Handles
<1>2. ASSUME NEW l PROVE Goes(s, l).pc = l
  BY <1>1 DEF Goes
<1> USE DEF Quiet, Sends, At
<1>3. CASE StartSend(s)
  <2>1. snd'[s] = [snd[s] EXCEPT !.pc = "load_w", !.left = snd[s].left - 1] /\ chan' = chan /\ snd[s].pc = "idle"
    BY <1>1, <1>3 DEF StartSend
  <2> QED BY <1>1, <2>1
<1>4. CASE LoadWakerRead(s) \/ DropLoadRead(s)
  <2>1. /\ \E l \in {"wake_w", "drop_w"} : snd'[s] = [snd[s] EXCEPT !.pc = l, !.pos = chan.waker_read]
        /\ chan' = chan /\ snd[s].pc \in {"wake_r", "drop_r"}
    BY <1>1, <1>4 DEF LoadWakerRead, DropLoadRead
  <2> QED BY <1>1, <2>1
<1>5. CASE Close(s)
  <2>1. /\ snd'[s] = [snd[s] EXCEPT !.pc = "drop_r", !.last = TRUE] /\ snd[s].pc = "close"
        /\ chan' = [chan EXCEPT !.closed = TRUE]
    BY <1>1, <1>5 DEF Close
  <2> QED BY <1>1, <2>1 DEF ChannelIsTyped
<1>6. CASE LoadWakerWrite(s) \/ DropLoadWrite(s)
  <2>1. /\ \E l \in {"drop_r", "idle", "wake_claim", "dropped", "wake_r"} : snd'[s] = Goes(s, l)
        /\ chan' = chan /\ snd[s].pc \in {"wake_w", "drop_w"}
    BY <1>1, <1>6 DEF LoadWakerWrite, DropLoadWrite, AfterWake
  <2> QED BY <1>2, <2>1
<1>7. CASE ClaimWaker(s) \/ FreeWaker(s)
  <2>1. /\ \E l \in {"wake_free", "wake_skip", "wake_advance"} : snd'[s] = Goes(s, l)
        /\ snd[s].pc \in {"wake_claim", "wake_free"}
        /\ chan' = chan \/ \E k, x : chan' = [chan EXCEPT !.waker[k] = x]
    BY <1>1, <1>7 DEF ClaimWaker, FreeWaker
  <2> QED BY <1>1, <1>2, <2>1 DEF ChannelIsTyped
<1>8. CASE AdvanceWaker(s) \/ SkipWaker(s)
  <2>1. /\ \E l \in {"wake", "wake_r"} : snd'[s] = Goes(s, l)
        /\ snd[s].pc \in {"wake_advance", "wake_skip"}
        /\ \E x : chan' = [chan EXCEPT !.waker_read = x]
    BY <1>1, <1>8 DEF AdvanceWaker, SkipWaker
  <2> QED BY <1>1, <1>2, <2>1 DEF ChannelIsTyped
<1>9. CASE Wake(s)
  <2>1. /\ \E l \in {"drop_r", "idle"} : snd'[s] = Goes(s, l)
        /\ snd[s].pc = "wake" /\ chan' = [chan EXCEPT !.woken = TRUE]
    BY <1>1, <1>9 DEF Wake, AfterWake
  <2> QED BY <1>1, <1>2, <2>1 DEF ChannelIsTyped
<1>10. CASE CloneHandle(s) \/ DropHandle(s)
  <2>1. /\ \E l \in {"idle", "close", "dropped"} : snd'[s] = Goes(s, l)
        /\ snd[s].pc \in {"none", "idle"} /\ \E x : chan' = [chan EXCEPT !.count = x]
    BY <1>1, <1>10 DEF CloneHandle, DropHandle
  <2> QED BY <1>1, <1>2, <2>1 DEF ChannelIsTyped
<1> QED BY <1>3, <1>4, <1>5, <1>6, <1>7, <1>8, <1>9, <1>10, Zenon DEF Sender, SendSteps

(* A step of the only handle keeps the ring in order. *)
LEMMA SenderKeepsFifo ==
    ASSUME ChannelInv, FifoInv, Solo, Sender(Maker)
    PROVE  FifoInv'
<1> USE DEF FifoInv
<1> DEFINE M == snd[Maker]
<1>0. /\ ChannelTypeOK /\ Maker \in Handles /\ Maker \in DOMAIN snd /\ ChannelIsTyped
      /\ DOMAIN snd[Maker] = {"pc", "pos", "left", "last"} /\ rcv' = rcv /\ delivered' = delivered
      /\ chan.read \in Nat /\ chan.write \in Nat /\ CAPACITY \in Nat /\ Len(accepted) \in Nat
      /\ DOMAIN chan.slot = Ring /\ DOMAIN chan.value = Ring /\ Len(delivered) \in Nat
  BY SenderRestOfType, BoundedAssumption, LenFacts
     DEF ChannelInv, ChannelTypeOK, SendersAreTyped, Handles, SenderTurn, ChannelIsTyped
<1>1. ASSUME NEW l
      PROVE  Goes(Maker, l).pc = l /\ (l \notin {"idle", "dropped"} => Goes(Maker, l).pos = M.pos)
  BY <1>0 DEF Goes
<1>2. /\ Positions \subseteq Nat
      /\ \A n \in Positions : RingAt(n) \in Ring
      /\ \A n, j \in Positions : n # j => RingAt(n) # RingAt(j)
      /\ M.pc \in {"claim", "write"} => \A n \in Positions : RingAt(n) # RingAt(chan.write)
  BY <1>0, PositionsAreApart
<1>3. ASSUME chan'.slot = chan.slot, chan'.value = chan.value, accepted' = accepted, chan'.read = chan.read,
             M.pc # "write", snd'[Maker].pc # "write"
      PROVE  RingHoldsTheRest' /\ PrefixIsDelivered'
  <2>1. Positions' = Positions
    BY <1>3 DEF Positions
  <2> QED BY <1>0, <1>3, <2>1 DEF RingHoldsTheRest, HoldsAt, UsedAt, PrefixIsDelivered, RcvAt, At
<1>4. CASE ~SendSteps(Maker)
  <2>1. /\ chan'.write = chan.write /\ chan'.read = chan.read
        /\ M.pc \notin {"write", "advance"}
        /\ snd'[Maker].pc \notin {"load_r", "claim", "write", "advance", "skip"}
    BY <1>0, <1>4, AsideOfSend
  <2>2. chan'.slot = chan.slot /\ chan'.value = chan.value /\ accepted' = accepted
    BY <1>0, <1>4, OutsideTheRing DEF SendSteps
  <2>3. PositionsAgree'
    BY <1>0, <2>1, <2>2 DEF PositionsAgree, At, RcvAt
  <2> QED BY <1>3, <2>1, <2>2, <2>3
<1>5. CASE LoadWrite(Maker)
  <2>1. /\ snd'[Maker] = [M EXCEPT !.pc = "load_r", !.pos = chan.write] /\ M.pc = "load_w"
        /\ chan' = chan /\ accepted' = accepted
    BY <1>0, <1>5 DEF LoadWrite, Quiet, Sends, At
  <2>2. snd'[Maker].pc = "load_r" /\ snd'[Maker].pos = chan.write
    BY <1>0, <2>1
  <2>3. PositionsAgree'
    BY <1>0, <2>1, <2>2 DEF PositionsAgree, At, RcvAt
  <2> QED BY <1>3, <2>1, <2>2, <2>3
<1>6. CASE LoadRead(Maker)
  <2>1. /\ M.pc = "load_r" /\ chan' = chan /\ accepted' = accepted
        /\ \/ snd'[Maker] = Goes(Maker, "claim") /\ M.pos - chan.read \in 0 .. CAPACITY - 1
           \/ snd'[Maker] = Goes(Maker, "idle")
    BY <1>0, <1>6 DEF LoadRead, Quiet, Sends, At
  <2>2. \/ /\ snd'[Maker].pc = "claim" /\ snd'[Maker].pos = M.pos
           /\ chan.write - chan.read < CAPACITY
        \/ snd'[Maker].pc = "idle"
    <3>1. M.pos = chan.write
      BY <2>1 DEF PositionsAgree
    <3> QED BY <1>0, <1>1, <2>1, <3>1
  <2>3. PositionsAgree'
    BY <1>0, <2>1, <2>2 DEF PositionsAgree, At, RcvAt
  <2> QED BY <1>3, <2>1, <2>2, <2>3
<1>7. CASE ClaimSlot(Maker)
  <2> DEFINE k == RingAt(M.pos)
  <2>1. /\ k \in Ring /\ accepted' = accepted /\ chan'.value = chan.value
        /\ M.pc = "claim"
        /\ \/ /\ chan.slot[k] = Empty /\ chan'.slot = [chan.slot EXCEPT ![k] = Writing]
              /\ snd'[Maker].pc = "write" /\ snd'[Maker].pos = M.pos
           \/ chan.slot[k] # Empty
    BY <1>0, <1>7, ClaimEffect
  <2>2. M.pos = chan.write /\ k = RingAt(chan.write)
    BY <2>1 DEF PositionsAgree
  <2>3. chan.slot[k] = Empty
    BY <1>2, <2>1, <2>2 DEF RingHoldsTheRest, HoldsAt, UsedAt, At
  <2>4. chan'.write = chan.write /\ chan'.read = chan.read
    <3>1. chan' = [chan EXCEPT !.slot[k] = Writing] \/ chan' = chan
      BY <1>7 DEF ClaimSlot, Quiet, Sends
    <3> HIDE DEF k
    <3> QED BY <1>0, <3>1 DEF ChannelIsTyped
  <2>5. Positions' = Positions
    BY <2>1, <2>4 DEF Positions
  <2> HIDE DEF k
  <2>6. PositionsAgree'
    BY <1>0, <2>1, <2>2, <2>3, <2>4 DEF PositionsAgree, At, RcvAt
  <2>7. \A n \in Positions : RingAt(n) # k /\ chan'.slot[RingAt(n)] = chan.slot[RingAt(n)]
    BY <1>0, <1>2, <2>1, <2>2, <2>3
  <2>8. \A l \in Ring : l # k => chan'.slot[l] = chan.slot[l]
    BY <1>0, <2>1, <2>3
  <2>9. RingHoldsTheRest'
    <3>1. ASSUME NEW n \in Positions PROVE HoldsAt(n)'
      <4>1. HoldsAt(n)
        BY DEF RingHoldsTheRest
      <4> QED BY <1>0, <2>1, <2>4, <2>7, <4>1 DEF HoldsAt, RcvAt
    <3>2. ASSUME NEW l \in Ring PROVE UsedAt(l)'
      <4>1. CASE l = k
        BY <2>1, <2>2, <2>3, <2>4, <4>1 DEF UsedAt, At
      <4>2. CASE l # k
        <5>1. UsedAt(l) /\ ~At(Maker, "write")
          BY <2>1 DEF RingHoldsTheRest, At
        <5> QED BY <2>5, <2>8, <4>2, <5>1 DEF UsedAt
      <4> QED BY <4>1, <4>2
    <3> QED BY <2>5, <3>1, <3>2 DEF RingHoldsTheRest
  <2> QED BY <1>0, <2>1, <2>6, <2>9 DEF PrefixIsDelivered
<1>8. CASE Write(Maker)
  <2> DEFINE k == RingAt(M.pos)
             m == <<Maker, M.left>>
  <2>1. /\ k \in Ring /\ m \in Messages /\ M.pc = "write"
        /\ accepted' = Append(accepted, m)
        /\ chan'.value = [chan.value EXCEPT ![k] = m] /\ chan'.slot = [chan.slot EXCEPT ![k] = Full]
        /\ snd'[Maker].pc = "advance" /\ snd'[Maker].pos = M.pos
        /\ chan'.write = chan.write /\ chan'.read = chan.read
    BY <1>0, <1>8, WriteEffect
  <2>2. k = RingAt(chan.write) /\ M.pos = chan.write /\ Len(accepted) = chan.write /\ chan.read <= chan.write
    BY <1>0, <2>1 DEF PositionsAgree, At
  <2> HIDE DEF m
  <2>3. accepted \in Seq(Messages)
    BY <1>0 DEF ChannelTypeOK
  <2>4. /\ Len(accepted') = chan.write + 1
        /\ \A n \in 1 .. chan.write : accepted'[n] = accepted[n]
        /\ accepted'[chan.write + 1] = m
    BY <2>1, <2>2, <2>3, ElementsAppend
  <2>5. Positions = chan.read .. chan.write - 1 /\ Positions' = chan.read .. chan.write
    BY <1>0, <2>1, <2>2, <2>4 DEF Positions
  <2>6. PositionsAgree'
    BY <1>0, <2>1, <2>2, <2>4 DEF PositionsAgree, At, RcvAt
  <2>7. \A n \in Positions : RingAt(n) # k
    BY <1>2, <2>1, <2>2
  <2> HIDE DEF k
  <2>8. \A l \in Ring : l # k => chan'.slot[l] = chan.slot[l] /\ chan'.value[l] = chan.value[l]
    BY <1>0, <2>1
  <2>9. chan'.slot[k] = Full /\ chan'.value[k] = m
    BY <1>0, <2>1
  <2>10. ASSUME NEW n \in chan.read .. chan.write PROVE HoldsAt(n)'
    <3>1. CASE n = chan.write
      <4>1. ~(n = chan.read /\ rcv.pc \in {"free", "advance"})
        BY <1>0, <3>1 DEF PositionsAgree
      <4> QED BY <1>0, <2>1, <2>2, <2>4, <2>9, <3>1, <4>1 DEF HoldsAt, RcvAt
    <3>2. CASE n # chan.write
      <4>1. n \in Positions /\ n + 1 \in 1 .. chan.write
        BY <1>0, <2>5, <3>2
      <4>2. RingAt(n) \in Ring /\ RingAt(n) # k
        BY <1>2, <2>7, <4>1
      <4>3. /\ accepted'[n + 1] = accepted[n + 1] /\ chan'.slot[RingAt(n)] = chan.slot[RingAt(n)]
            /\ chan'.value[RingAt(n)] = chan.value[RingAt(n)]
        BY <2>4, <2>8, <4>1, <4>2
      <4>4. HoldsAt(n)
        BY <4>1 DEF RingHoldsTheRest
      <4> QED BY <1>0, <2>1, <4>3, <4>4, Zenon DEF HoldsAt, RcvAt
    <3> QED BY <3>1, <3>2, Zenon
  <2>11. ASSUME NEW l \in Ring, chan'.slot[l] # Empty PROVE \E n \in Positions' : l = RingAt(n)
    <3>1. CASE l = k
      BY <1>0, <2>2, <2>5, <3>1
    <3>2. CASE l # k
      <4>1. \E n \in Positions : l = RingAt(n)
        BY <2>2, <2>8, <2>11, <3>2 DEF RingHoldsTheRest, HoldsAt, UsedAt
      <4> QED BY <1>0, <2>5, <4>1
    <3> QED BY <3>1, <3>2
  <2>12. RingHoldsTheRest'
    <3>1. ASSUME NEW l \in Ring PROVE UsedAt(l)'
      BY <2>11 DEF UsedAt
    <3> QED BY <2>5, <2>10, <3>1 DEF RingHoldsTheRest
  <2>13. PrefixIsDelivered'
    BY <1>0, <2>2, <2>4 DEF PrefixIsDelivered
  <2> QED BY <2>6, <2>12, <2>13
<1>9. CASE Advance(Maker)
  <2>1. /\ M.pc = "advance" /\ accepted' = accepted /\ snd'[Maker] = Goes(Maker, "wake_r")
        /\ chan' = [chan EXCEPT !.write = chan.write + 1]
    BY <1>0, <1>9 DEF Advance, Quiet, Sends, At
  <2>2. /\ chan'.slot = chan.slot /\ chan'.value = chan.value /\ chan'.read = chan.read
        /\ chan'.write = chan.write + 1 /\ snd'[Maker].pc = "wake_r"
    BY <1>0, <1>1, <2>1 DEF ChannelIsTyped
  <2>3. PositionsAgree'
    BY <1>0, <2>1, <2>2 DEF PositionsAgree, At, RcvAt
  <2> QED BY <1>3, <2>1, <2>2, <2>3
<1>10. CASE SkipWrite(Maker)
  BY <1>10 DEF SkipWrite, PositionsAgree
<1> QED BY <1>4, <1>5, <1>6, <1>7, <1>8, <1>9, <1>10 DEF SendSteps

(* The steps with which the receiver takes a message. *)
TakeSteps == RecvLoadRead \/ RecvLoadWrite \/ RecvClaim \/ RecvFree \/ RecvAdvance \/ RecvSkip

(* The other steps leave both positions alone. *)
LEMMA AsideOfTake ==
    ASSUME ChannelTypeOK, Receiver, ~TakeSteps
    PROVE  /\ chan'.write = chan.write /\ chan'.read = chan.read
           /\ rcv.pc \notin {"free", "advance"}
           /\ rcv'.pc \notin {"write", "claim", "free", "advance", "skip"}
<1>1. ChannelIsTyped /\ ReceiverIsTyped
  BY DEF ChannelTypeOK
<1>2. ASSUME NEW l PROVE RcvGoes(l).pc = l
  BY <1>1 DEF RcvGoes, ReceiverIsTyped
<1> USE DEF Still, Receives, RcvAt
<1>3. CASE RecvIsClosed
  <2>1. /\ chan' = chan /\ rcv.pc = "is_closed"
        /\ \E l \in {"none", "pending", "register"} : rcv' = RcvGoes(l)
    BY <1>3 DEF RecvIsClosed
  <2> QED BY <1>2, <2>1
<1>4. CASE RegisterLoad
  <2>1. /\ chan' = chan /\ rcv.pc = "register"
        /\ \/ rcv' = [rcv EXCEPT !.pc = "read", !.second = TRUE]
           \/ rcv' = [rcv EXCEPT !.pc = "reg_claim", !.pos = chan.waker_write]
    BY <1>4 DEF RegisterLoad
  <2> QED BY <1>1, <2>1, Zenon DEF ReceiverIsTyped
<1>5. CASE RegisterClaim \/ RegisterWrite
  <2>1. /\ rcv.pc \in {"reg_claim", "reg_write"}
        /\ \E l \in {"reg_write", "reg_skip", "reg_advance"} : rcv' = RcvGoes(l)
        /\ chan' = chan \/ \E k, x : chan' = [chan EXCEPT !.waker[k] = x]
    BY <1>5 DEF RegisterClaim, RegisterWrite
  <2> QED BY <1>1, <1>2, <2>1 DEF ChannelIsTyped
<1>6. CASE RegisterAdvance \/ RegisterSkip
  <2>1. /\ rcv.pc \in {"reg_advance", "reg_skip"} /\ \E x : chan' = [chan EXCEPT !.waker_write = x]
        /\ \/ rcv' = [rcv EXCEPT !.pc = "read", !.second = TRUE]
           \/ rcv' = [rcv EXCEPT !.pc = "register", !.attempts = @ + 1]
    BY <1>6 DEF RegisterAdvance, RegisterSkip
  <2>2. rcv'.pc \in {"read", "register"}
    BY <1>1, <2>1, Zenon DEF ReceiverIsTyped
  <2> QED BY <1>1, <2>1, <2>2 DEF ChannelIsTyped
<1>7. CASE PollAgain
  <2>1. rcv.pc = "pending" /\ rcv' = NewPoll /\ chan' = [chan EXCEPT !.woken = FALSE]
    BY <1>7 DEF PollAgain
  <2>2. rcv'.pc = "read"
    BY <2>1 DEF NewPoll
  <2> QED BY <1>1, <2>1, <2>2 DEF ChannelIsTyped
<1> QED BY <1>3, <1>4, <1>5, <1>6, <1>7 DEF Receiver, TakeSteps

(* A step of the receiver keeps the ring in order. *)
LEMMA ReceiverKeepsFifo ==
    ASSUME ChannelInv, FifoInv, Receiver
    PROVE  FifoInv'
<1> USE DEF FifoInv
<1>0. /\ ChannelTypeOK /\ Maker \in Handles /\ ChannelIsTyped /\ ReceiverIsTyped
      /\ snd' = snd /\ accepted' = accepted
      /\ chan.read \in Nat /\ chan.write \in Nat /\ CAPACITY \in Nat /\ Len(accepted) \in Nat
      /\ DOMAIN chan.slot = Ring /\ DOMAIN chan.value = Ring /\ Len(delivered) \in Nat
  BY ReceiverFrame, BoundedAssumption, LenFacts DEF ChannelInv, ChannelTypeOK, ChannelIsTyped
<1>1. ASSUME NEW l PROVE RcvGoes(l).pc = l /\ RcvGoes(l).pos = rcv.pos
  BY <1>0 DEF RcvGoes, ReceiverIsTyped
<1>2. /\ Positions \subseteq Nat
      /\ \A n \in Positions : RingAt(n) \in Ring
      /\ \A n, j \in Positions : n # j => RingAt(n) # RingAt(j)
  BY <1>0, PositionsAreApart
<1>3. ASSUME chan'.slot = chan.slot, chan'.value = chan.value, delivered' = delivered, chan'.read = chan.read,
             chan'.write = chan.write,
             rcv.pc \notin {"free", "advance"}, rcv'.pc \notin {"free", "advance"}
      PROVE  RingHoldsTheRest' /\ PrefixIsDelivered'
  <2>1. Positions' = Positions
    BY <1>0, <1>3 DEF Positions
  <2> QED BY <1>0, <1>3, <2>1 DEF RingHoldsTheRest, HoldsAt, UsedAt, PrefixIsDelivered, RcvAt, At
<1>4. CASE ~TakeSteps
  <2>1. /\ chan'.write = chan.write /\ chan'.read = chan.read
        /\ rcv.pc \notin {"free", "advance"}
        /\ rcv'.pc \notin {"write", "claim", "free", "advance", "skip"}
    BY <1>0, <1>4, AsideOfTake
  <2>2. chan'.slot = chan.slot /\ chan'.value = chan.value /\ delivered' = delivered
    BY <1>0, <1>4, ReceiverOutsideTheRing, Zenon DEF TakeSteps
  <2>3. PositionsAgree'
    BY <1>0, <2>1, <2>2 DEF PositionsAgree, At, RcvAt
  <2> QED BY <1>3, <2>1, <2>2, <2>3
<1>5. CASE RecvLoadRead
  <2>1. /\ rcv' = [rcv EXCEPT !.pc = "write", !.pos = chan.read] /\ rcv.pc = "read"
        /\ chan' = chan /\ delivered' = delivered
    BY <1>5 DEF RecvLoadRead, Still, Receives, RcvAt
  <2>2. rcv'.pc = "write" /\ rcv'.pos = chan.read
    BY <1>0, <2>1 DEF ReceiverIsTyped
  <2>3. PositionsAgree'
    BY <1>0, <2>1, <2>2 DEF PositionsAgree, At, RcvAt
  <2> QED BY <1>3, <2>1, <2>2, <2>3
<1>6. CASE RecvLoadWrite
  <2>1. /\ rcv.pc = "write" /\ chan' = chan /\ delivered' = delivered
        /\ \/ rcv' = RcvGoes("is_closed")
           \/ rcv' = RcvGoes("claim") /\ rcv.pos # chan.write
    BY <1>6 DEF RecvLoadWrite, Still, Receives, RcvAt
  <2>2. \/ rcv'.pc = "is_closed"
        \/ rcv'.pc = "claim" /\ rcv'.pos = rcv.pos /\ chan.read < chan.write
    BY <1>0, <1>1, <2>1 DEF PositionsAgree
  <2>3. PositionsAgree'
    BY <1>0, <2>1, <2>2 DEF PositionsAgree, At, RcvAt
  <2> QED BY <1>3, <2>1, <2>2, <2>3
<1>7. CASE RecvClaim
  <2> DEFINE k == RingAt(rcv.pos)
  <2>1. /\ k \in Ring /\ delivered' = delivered /\ chan'.value = chan.value
        /\ rcv'.pos = rcv.pos /\ rcv.pc = "claim"
        /\ \/ /\ chan.slot[k] = Full /\ rcv'.pc = "free"
              /\ chan' = [chan EXCEPT !.slot = [chan.slot EXCEPT ![k] = Reading]]
           \/ chan.slot[k] # Full
    BY <1>0, <1>7, RecvClaimEffect
  <2>2. rcv.pos = chan.read /\ k = RingAt(chan.read) /\ chan.read \in Positions /\ chan.read < chan.write
    BY <1>0, <2>1 DEF PositionsAgree, Positions, At
  <2>3. chan.slot[k] = Full /\ chan.value[k] = accepted[chan.read + 1]
    BY <2>1, <2>2 DEF RingHoldsTheRest, HoldsAt, UsedAt, RcvAt
  <2> HIDE DEF k
  <2>4. chan'.slot = [chan.slot EXCEPT ![k] = Reading] /\ chan'.write = chan.write /\ chan'.read = chan.read
    BY <1>0, <2>1, <2>3 DEF ChannelIsTyped
  <2>5. Positions' = Positions
    BY <1>0, <2>4 DEF Positions
  <2>6. PositionsAgree'
    BY <1>0, <2>1, <2>2, <2>3, <2>4 DEF PositionsAgree, At, RcvAt
  <2>7. \A n \in Positions : n # chan.read => chan'.slot[RingAt(n)] = chan.slot[RingAt(n)]
    BY <1>0, <1>2, <2>2, <2>4
  <2>8. chan'.slot[k] = Reading /\ \A l \in Ring : l # k => chan'.slot[l] = chan.slot[l]
    BY <1>0, <2>1, <2>4
  <2>9. RingHoldsTheRest'
    <3>1. ASSUME NEW n \in Positions
          PROVE  /\ chan'.value[RingAt(n)] = accepted[n + 1]
                 /\ chan'.slot[RingAt(n)] = IF n = chan.read THEN Reading ELSE Full
      BY <2>1, <2>2, <2>3, <2>7, <2>8 DEF RingHoldsTheRest, HoldsAt, UsedAt, RcvAt
    <3>2. ASSUME NEW l \in Ring, chan'.slot[l] # Empty
          PROVE  (\E n \in Positions : l = RingAt(n)) \/ (At(Maker, "write") /\ l = RingAt(chan.write))
      BY <2>2, <2>8, <3>2 DEF RingHoldsTheRest, HoldsAt, UsedAt
    <3>3. ASSUME NEW n \in Positions PROVE HoldsAt(n)'
      <4>1. accepted' = accepted /\ chan'.read = chan.read /\ rcv'.pc = "free"
        BY <1>0, <2>1, <2>3, <2>4
      <4> QED BY <3>1, <4>1 DEF HoldsAt, RcvAt
    <3>4. ASSUME NEW l \in Ring PROVE UsedAt(l)'
      BY <1>0, <2>4, <2>5, <3>2 DEF UsedAt, At
    <3> QED BY <2>5, <3>3, <3>4 DEF RingHoldsTheRest
  <2> QED BY <1>0, <2>1, <2>6, <2>9 DEF PrefixIsDelivered
<1>8. CASE RecvFree
  <2> DEFINE k == RingAt(rcv.pos)
             v == chan.value[k]
  <2>1. /\ k \in Ring /\ rcv.pc = "free" /\ rcv'.pc = "advance" /\ rcv'.pos = rcv.pos
        /\ delivered' = Append(delivered, v) /\ v \in Messages \union {<<>>}
        /\ chan'.slot = [chan.slot EXCEPT ![k] = Empty] /\ chan'.value = [chan.value EXCEPT ![k] = <<>>]
        /\ chan'.write = chan.write /\ chan'.read = chan.read
    BY <1>0, <1>8, RecvFreeEffect
  <2>2. /\ rcv.pos = chan.read /\ k = RingAt(chan.read) /\ chan.read \in Positions /\ chan.read < chan.write
        /\ Len(delivered) = chan.read /\ chan.write <= Len(accepted)
    BY <1>0, <2>1 DEF PositionsAgree, Positions, At, RcvAt
  <2>3. v = accepted[chan.read + 1]
    BY <2>1, <2>2 DEF RingHoldsTheRest, HoldsAt, UsedAt, RcvAt
  <2> HIDE DEF k, v
  <2>4. Positions' = Positions
    BY <1>0, <2>1 DEF Positions
  <2>5. \A l \in Ring : l # k => chan'.slot[l] = chan.slot[l] /\ chan'.value[l] = chan.value[l]
    BY <1>0, <2>1
  <2>6. chan'.slot[k] = Empty
    BY <1>0, <2>1
  <2>7. delivered \in Seq(Messages \union {<<>>})
    BY <1>0 DEF ChannelTypeOK
  <2>8. /\ Len(delivered') = chan.read + 1
        /\ \A n \in 1 .. chan.read : delivered'[n] = delivered[n]
        /\ delivered'[chan.read + 1] = v
    BY <2>1, <2>2, <2>7, ElementsAppend
  <2>9. PositionsAgree'
    BY <1>0, <2>1, <2>2, <2>8, Zenon DEF PositionsAgree, At, RcvAt
  <2>10. RingHoldsTheRest'
    <3>1. ASSUME NEW n \in Positions
          PROVE  IF n = chan.read THEN chan'.slot[RingAt(n)] = Empty
                 ELSE chan'.value[RingAt(n)] = accepted[n + 1] /\ chan'.slot[RingAt(n)] = Full
      <4>1. CASE n = chan.read
        BY <2>2, <2>6, <4>1
      <4>2. CASE n # chan.read
        <5>1. RingAt(n) \in Ring /\ RingAt(n) # k
          BY <1>2, <2>2, <4>2
        <5> QED BY <2>1, <2>5, <4>2, <5>1 DEF RingHoldsTheRest, HoldsAt, UsedAt, RcvAt
      <4> QED BY <4>1, <4>2
    <3>2. ASSUME NEW l \in Ring, chan'.slot[l] # Empty
          PROVE  (\E n \in Positions : l = RingAt(n)) \/ (At(Maker, "write") /\ l = RingAt(chan.write))
      BY <2>5, <2>6, <3>2 DEF RingHoldsTheRest, HoldsAt, UsedAt
    <3>3. ASSUME NEW n \in Positions PROVE HoldsAt(n)'
      BY <1>0, <2>1, <3>1 DEF HoldsAt, RcvAt
    <3>4. ASSUME NEW l \in Ring PROVE UsedAt(l)'
      BY <1>0, <2>1, <2>4, <3>2 DEF UsedAt, At
    <3> QED BY <2>4, <3>3, <3>4 DEF RingHoldsTheRest
  <2>11. PrefixIsDelivered'
    <3>1. ASSUME NEW n \in 1 .. chan.read + 1 PROVE delivered'[n] = accepted[n]
      <4>1. CASE n = chan.read + 1
        BY <2>3, <2>8, <4>1
      <4>2. CASE n # chan.read + 1
        <5>1. n \in 1 .. chan.read
          BY <1>0, <4>2
        <5> QED BY <2>2, <2>8, <5>1 DEF PrefixIsDelivered
      <4> QED BY <4>1, <4>2
    <3>2. Len(delivered') <= Len(accepted')
      BY <1>0, <2>2, <2>8
    <3>3. \A n \in 1 .. Len(delivered') : delivered'[n] = accepted'[n]
      BY <1>0, <2>8, <3>1
    <3> QED BY <3>2, <3>3 DEF PrefixIsDelivered
  <2> QED BY <2>9, <2>10, <2>11
<1>9. CASE RecvAdvance
  <2>1. /\ rcv.pc = "advance" /\ rcv' = NewPoll /\ delivered' = delivered
        /\ chan' = [chan EXCEPT !.read = chan.read + 1]
    BY <1>9 DEF RecvAdvance, Still, Receives, RcvAt
  <2>2. /\ chan'.slot = chan.slot /\ chan'.value = chan.value /\ chan'.write = chan.write
        /\ chan'.read = chan.read + 1 /\ rcv'.pc = "read"
    BY <1>0, <2>1 DEF ChannelIsTyped, NewPoll
  <2>3. chan.read < chan.write /\ chan.write <= Len(accepted)
    BY <1>0, <2>1 DEF PositionsAgree, At
  <2>4. Positions' = Positions \ {chan.read} /\ chan.read \in Positions
    BY <1>0, <2>2, <2>3 DEF Positions
  <2>5. chan.slot[RingAt(chan.read)] = Empty
    BY <2>1, <2>4 DEF RingHoldsTheRest, HoldsAt, UsedAt, RcvAt
  <2>6. PositionsAgree'
    BY <1>0, <2>1, <2>2, <2>3 DEF PositionsAgree, At, RcvAt
  <2>7. RingHoldsTheRest'
    <3>1. ASSUME NEW n \in Positions'
          PROVE  chan.value[RingAt(n)] = accepted[n + 1] /\ chan.slot[RingAt(n)] = Full
      BY <2>1, <2>4 DEF RingHoldsTheRest, HoldsAt, UsedAt, RcvAt
    <3>2. ASSUME NEW l \in Ring, chan.slot[l] # Empty
          PROVE  (\E n \in Positions' : l = RingAt(n)) \/ (At(Maker, "write") /\ l = RingAt(chan.write))
      BY <2>4, <2>5, <3>2 DEF RingHoldsTheRest, HoldsAt, UsedAt
    <3> QED BY <1>0, <2>2, <3>1, <3>2 DEF RingHoldsTheRest, HoldsAt, UsedAt, RcvAt, At
  <2> QED BY <1>0, <2>1, <2>6, <2>7 DEF PrefixIsDelivered
<1>10. CASE RecvSkip
  BY <1>10 DEF RecvSkip, PositionsAgree
<1> QED BY <1>4, <1>5, <1>6, <1>7, <1>8, <1>9, <1>10 DEF TakeSteps

-----------------------------------------------------------------------------
(* The steps with which a handle wakes the receiver. *)
WakeSteps(s) == \/ LoadWakerRead(s) \/ LoadWakerWrite(s) \/ ClaimWaker(s) \/ FreeWaker(s)
                \/ AdvanceWaker(s) \/ Wake(s) \/ SkipWaker(s)

(* The places from which a handle that sent goes on to wake the receiver. *)
WillWake == Waking \union {"advance", "wake_r", "wake_w", "wake_claim", "wake_skip"}

(* The other steps of a handle leave the wakers alone. *)
LEMMA AsideOfWake ==
    ASSUME ChannelTypeOK, NEW s \in Handles, Sender(s), ~WakeSteps(s)
    PROVE  /\ chan'.waker = chan.waker /\ chan'.waker_read = chan.waker_read
           /\ chan'.waker_write = chan.waker_write /\ chan'.woken = chan.woken
           /\ snd[s].pc \notin AfterClaim \union Waking \union {"wake_w", "wake_claim"}
           /\ snd'[s].pc \notin AfterClaim \union Waking \union {"wake_w", "wake_claim"}
           /\ \/ snd[s].pc \notin WillWake \/ Advance(s)
<1> DEFINE Goal == /\ chan'.waker = chan.waker /\ chan'.waker_read = chan.waker_read
                   /\ chan'.waker_write = chan.waker_write /\ chan'.woken = chan.woken
                   /\ snd[s].pc \notin AfterClaim \union Waking \union {"wake_w", "wake_claim"}
                   /\ snd'[s].pc \notin AfterClaim \union Waking \union {"wake_w", "wake_claim"}
                   /\ \/ snd[s].pc \notin WillWake \/ Advance(s)
<1>1. /\ s \in DOMAIN snd /\ DOMAIN snd[s] = {"pc", "pos", "left", "last"} /\ ChannelIsTyped
  BY DEF ChannelTypeOK, SendersAreTyped, Handles
<1>2. ASSUME NEW l PROVE Goes(s, l).pc = l
  BY <1>1 DEF Goes
<1>3. ASSUME chan' = chan, snd[s].pc \notin WillWake,
             snd'[s].pc \in {"load_w", "load_r", "claim", "idle", "skip", "drop_w", "dropped", "wake_r"}
      PROVE  Goal
  BY <1>3 DEF WillWake, Waking, AfterClaim
<1> USE DEF Quiet, Sends, At
<1>4. CASE StartSend(s)
  <2>1. snd'[s] = [snd[s] EXCEPT !.pc = "load_w", !.left = snd[s].left - 1] /\ chan' = chan /\ snd[s].pc = "idle"
    BY <1>1, <1>4 DEF StartSend
  <2>2. snd'[s].pc = "load_w" /\ snd[s].pc \notin WillWake
    BY <1>1, <2>1 DEF WillWake, Waking
  <2> QED BY <1>3, <2>1, <2>2
<1>5. CASE LoadWrite(s)
  <2>1. snd'[s] = [snd[s] EXCEPT !.pc = "load_r", !.pos = chan.write] /\ chan' = chan /\ snd[s].pc = "load_w"
    BY <1>1, <1>5 DEF LoadWrite
  <2>2. snd'[s].pc = "load_r" /\ snd[s].pc \notin WillWake
    BY <1>1, <2>1 DEF WillWake, Waking
  <2> QED BY <1>3, <2>1, <2>2
<1>6. CASE LoadRead(s) \/ DropLoadWrite(s)
  <2>1. /\ \E l \in {"claim", "idle", "dropped", "wake_r"} : snd'[s] = Goes(s, l)
        /\ chan' = chan /\ snd[s].pc \in {"load_r", "drop_w"}
    BY <1>1, <1>6 DEF LoadRead, DropLoadWrite
  <2>2. snd'[s].pc \in {"claim", "idle", "dropped", "wake_r"} /\ snd[s].pc \notin WillWake
    BY <1>2, <2>1 DEF WillWake, Waking
  <2> QED BY <1>3, <2>1, <2>2
<1>7. CASE DropLoadRead(s)
  <2>1. /\ snd'[s] = [snd[s] EXCEPT !.pc = "drop_w", !.pos = chan.waker_read]
        /\ chan' = chan /\ snd[s].pc = "drop_r"
    BY <1>1, <1>7 DEF DropLoadRead
  <2>2. snd'[s].pc = "drop_w" /\ snd[s].pc \notin WillWake
    BY <1>1, <2>1 DEF WillWake, Waking
  <2> QED BY <1>3, <2>1, <2>2
<1>8. CASE ClaimSlot(s)
  <2> DEFINE k == RingAt(snd[s].pos)
  <2>1. /\ \E l \in {"write", "skip"} : snd'[s] = Goes(s, l)
        /\ snd[s].pc = "claim"
        /\ chan' = chan \/ chan' = [chan EXCEPT !.slot[k] = Writing]
    BY <1>1, <1>8 DEF ClaimSlot
  <2> HIDE DEF k
  <2>2. /\ chan'.waker = chan.waker /\ chan'.waker_read = chan.waker_read
        /\ chan'.waker_write = chan.waker_write /\ chan'.woken = chan.woken
    BY <1>1, <2>1 DEF ChannelIsTyped
  <2> QED BY <1>2, <2>1, <2>2 DEF WillWake, Waking, AfterClaim
<1>12. CASE Write(s)
  <2>1. /\ snd'[s].pc = "advance" /\ snd[s].pc = "write"
        /\ chan'.waker = chan.waker /\ chan'.waker_read = chan.waker_read
        /\ chan'.waker_write = chan.waker_write /\ chan'.woken = chan.woken
    BY <1>12, WriteEffect, Zenon
  <2> QED BY <2>1 DEF WillWake, Waking, AfterClaim
<1>9. CASE Advance(s) \/ SkipWrite(s)
  <2>1. /\ \E l \in {"wake_r", "load_w"} : snd'[s] = Goes(s, l)
        /\ \E x : chan' = [chan EXCEPT !.write = x]
    BY <1>1, <1>9 DEF Advance, SkipWrite
  <2>2. /\ chan'.waker = chan.waker /\ chan'.waker_read = chan.waker_read
        /\ chan'.waker_write = chan.waker_write /\ chan'.woken = chan.woken
    BY <1>1, <2>1 DEF ChannelIsTyped
  <2>3. snd[s].pc = "skip" \/ (snd[s].pc = "advance" /\ Advance(s))
    BY <1>9 DEF Advance, SkipWrite
  <2> QED BY <1>2, <2>1, <2>2, <2>3 DEF WillWake, Waking, AfterClaim
<1>10. CASE CloneHandle(s) \/ DropHandle(s)
  <2>1. /\ \E l \in {"idle", "close", "dropped"} : snd'[s] = Goes(s, l)
        /\ snd[s].pc \in {"none", "idle"} /\ \E x : chan' = [chan EXCEPT !.count = x]
    BY <1>1, <1>10 DEF CloneHandle, DropHandle
  <2>2. /\ chan'.waker = chan.waker /\ chan'.waker_read = chan.waker_read
        /\ chan'.waker_write = chan.waker_write /\ chan'.woken = chan.woken
    BY <1>1, <2>1 DEF ChannelIsTyped
  <2> QED BY <1>2, <2>1, <2>2 DEF WillWake, Waking, AfterClaim
<1>11. CASE Close(s)
  <2>1. /\ snd'[s] = [snd[s] EXCEPT !.pc = "drop_r", !.last = TRUE] /\ snd[s].pc = "close"
        /\ chan' = [chan EXCEPT !.closed = TRUE]
    BY <1>1, <1>11 DEF Close
  <2>2. /\ chan'.waker = chan.waker /\ chan'.waker_read = chan.waker_read
        /\ chan'.waker_write = chan.waker_write /\ chan'.woken = chan.woken /\ snd'[s].pc = "drop_r"
    BY <1>1, <2>1 DEF ChannelIsTyped
  <2> QED BY <2>1, <2>2 DEF WillWake, Waking, AfterClaim
<1> QED BY <1>4, <1>5, <1>6, <1>7, <1>8, <1>9, <1>10, <1>11, <1>12, Zenon DEF Sender, WakeSteps

(* A step of the only handle keeps the wakers in order. *)
LEMMA SenderKeepsWakers ==
    ASSUME ChannelInv, FifoInv, WakeInv, Sender(Maker)
    PROVE  WakeInv'
<1> USE DEF WakeInv
<1> DEFINE M == snd[Maker]
<1>0. /\ ChannelTypeOK /\ Maker \in Handles /\ Maker \in DOMAIN snd /\ ChannelIsTyped
      /\ DOMAIN snd[Maker] = {"pc", "pos", "left", "last"} /\ rcv' = rcv
      /\ chan.waker_read \in Nat /\ chan.waker_write \in Nat /\ DOMAIN chan.waker = Ring
      /\ DOMAIN chan.slot = Ring
  BY SenderRestOfType, Zenon
     DEF ChannelInv, ChannelTypeOK, SendersAreTyped, Handles, SenderTurn, ChannelIsTyped
<1>1. ASSUME NEW l
      PROVE  Goes(Maker, l).pc = l /\ (l \notin {"idle", "dropped"} => Goes(Maker, l).pos = M.pos)
  BY <1>0 DEF Goes
<1>2. RegistersOnce'
  BY <1>0 DEF RegistersOnce, RcvAt
<1>3. CASE ~WakeSteps(Maker)
  <2>1. /\ chan'.waker = chan.waker /\ chan'.waker_read = chan.waker_read
        /\ chan'.waker_write = chan.waker_write /\ chan'.woken = chan.woken
        /\ M.pc \notin AfterClaim \union Waking \union {"wake_w", "wake_claim"}
        /\ snd'[Maker].pc \notin AfterClaim \union Waking \union {"wake_w", "wake_claim"}
        /\ M.pc \notin WillWake \/ Advance(Maker)
    BY <1>0, <1>3, AsideOfWake, Zenon
  <2>2. WakersAgree'
    BY <1>0, <2>1 DEF WakersAgree, WakerPositions, WakerAt, WakerClaims, At, RcvAt, AfterClaim, Waking
  <2>3. ReceiverIsRegistered'
    BY <1>0, <2>1, Zenon DEF ReceiverIsRegistered
  <2>4. SenderWillWake'
    <3>1. CASE Write(Maker)
      <4>1. snd'[Maker].pc = "advance"
        BY <1>0, <3>1, WriteEffect, Zenon
      <4> QED BY <4>1 DEF SenderWillWake
    <3>2. CASE Advance(Maker)
      <4>1. snd'[Maker] = Goes(Maker, "wake_r")
        BY <1>0, <3>2 DEF Advance, Quiet, Sends
      <4> QED BY <1>1, <4>1 DEF SenderWillWake
    <3>3. CASE ~Write(Maker) /\ ~Advance(Maker)
      <4>1. \A k \in Ring : chan'.slot[k] = Full => chan.slot[k] = Full
        <5>1. CASE ClaimSlot(Maker)
          <6> DEFINE k == RingAt(M.pos)
          <6>1. /\ k \in Ring
                /\ chan'.slot = [chan.slot EXCEPT ![k] = Writing] \/ chan' = chan
            BY <1>0, <5>1, ClaimEffect, Zenon
          <6> HIDE DEF k
          <6> QED BY <1>0, <6>1 DEF Full, Writing
        <5>2. CASE ~ClaimSlot(Maker)
          BY <1>0, <3>3, <5>2, OutsideTheRing, Zenon
        <5> QED BY <5>1, <5>2
      <4>2. M.pc \notin WillWake
        BY <2>1, <3>3
      <4> QED BY <1>0, <2>1, <4>1, <4>2 DEF SenderWillWake, WillWake
    <3> QED BY <3>1, <3>2, <3>3
  <2> QED BY <1>2, <2>2, <2>3, <2>4
<1>4. ASSUME WakeSteps(Maker) PROVE chan'.slot = chan.slot
  <2>1. ~ClaimSlot(Maker) /\ ~Write(Maker)
    BY <1>4 DEF WakeSteps, ClaimSlot, Write, LoadWakerRead, LoadWakerWrite, ClaimWaker, FreeWaker,
                AdvanceWaker, Wake, SkipWaker, At
  <2> QED BY <1>0, <2>1, OutsideTheRing
<1> USE DEF Quiet, Sends
<1>5. CASE LoadWakerRead(Maker)
  <2>1. /\ M.pc = "wake_r" /\ chan' = chan
        /\ snd'[Maker] = [M EXCEPT !.pc = "wake_w", !.pos = chan.waker_read]
    BY <1>0, <1>5 DEF LoadWakerRead, At
  <2>2. snd'[Maker].pc = "wake_w" /\ snd'[Maker].pos = chan.waker_read
    BY <1>0, <2>1
  <2>3. WakersAgree'
    BY <1>0, <2>1, <2>2 DEF WakersAgree, WakerPositions, WakerAt, WakerClaims, At, RcvAt, AfterClaim
  <2>4. ReceiverIsRegistered' /\ SenderWillWake'
    BY <1>0, <2>1, <2>2 DEF ReceiverIsRegistered, SenderWillWake, Waking
  <2> QED BY <1>2, <2>3, <2>4
<1>6. CASE LoadWakerWrite(Maker)
  <2>1. /\ M.pc = "wake_w" /\ chan' = chan
        /\ \/ /\ M.pos = chan.waker_write /\ \E l \in {"idle", "drop_r"} : snd'[Maker] = Goes(Maker, l)
           \/ M.pos # chan.waker_write /\ snd'[Maker] = Goes(Maker, "wake_claim")
    BY <1>0, <1>6 DEF LoadWakerWrite, AfterWake, At
  <2>2. \/ M.pos = chan.waker_write /\ snd'[Maker].pc \in {"idle", "drop_r"}
        \/ M.pos # chan.waker_write /\ snd'[Maker].pc = "wake_claim" /\ snd'[Maker].pos = M.pos
    BY <1>1, <2>1
  <2>3. M.pos = chan.waker_read /\ chan.waker_read <= chan.waker_write
    BY <2>1 DEF WakersAgree, WakerPositions, WakerAt, WakerClaims, At
  <2>4. WakersAgree'
    <3>1. WakerPositions'
      <4>1. snd'[Maker].pc \notin AfterClaim /\ snd'[Maker].pc # "wake_w"
        BY <2>2 DEF AfterClaim
      <4>2. snd'[Maker].pc = "wake_claim" => snd'[Maker].pos = chan.waker_read /\ chan.waker_read < chan.waker_write
        BY <1>0, <2>2, <2>3
      <4> QED BY <1>0, <2>1, <2>3, <4>1, <4>2, Zenon DEF WakersAgree, WakerPositions, At
    <3>2. WakerClaims'
      BY <1>0, <2>1, <2>2, Zenon DEF WakersAgree, WakerClaims, At, RcvAt
    <3>3. ASSUME NEW l \in Ring PROVE WakerAt(l)'
      <4>1. WakerAt(l) /\ ~At(Maker, "wake_free") /\ snd'[Maker].pc \notin AfterClaim
        BY <2>1, <2>2 DEF WakersAgree, At, AfterClaim
      <4> QED BY <1>0, <2>1, <4>1 DEF WakerAt, RcvAt
    <3> QED BY <3>1, <3>2, <3>3 DEF WakersAgree
  <2>5. ReceiverIsRegistered'
    BY <1>0, <2>1, <2>2 DEF ReceiverIsRegistered, Waking
  <2>6. SenderWillWake'
    <3>1. CASE M.pos = chan.waker_write
      <4>1. SUFFICES ASSUME rcv.second, rcv.pc \in {"is_closed", "pending"}, ~chan.woken PROVE FALSE
        BY <1>0, <2>1 DEF SenderWillWake
      <4>2. PICK k \in Ring : chan.waker[k] = Full
        BY <2>1, <4>1 DEF ReceiverIsRegistered, Waking
      <4>3. PICK n \in chan.waker_read .. chan.waker_write : n = chan.waker_write => RcvAt("reg_advance")
        BY <4>2 DEF WakersAgree, WakerPositions, WakerAt, WakerClaims
      <4>4. n = chan.waker_write
        BY <1>0, <2>3, <3>1
      <4> QED BY <4>1, <4>3, <4>4 DEF RcvAt
    <3>2. CASE M.pos # chan.waker_write
      BY <1>0, <2>1, <2>2, <3>2 DEF SenderWillWake, Waking
    <3> QED BY <3>1, <3>2
  <2> QED BY <1>2, <2>4, <2>5, <2>6
<1>7. CASE ClaimWaker(Maker)
  <2> DEFINE k == RingAt(M.pos)
  <2>1. /\ M.pc = "wake_claim"
        /\ \/ /\ chan.waker[k] = Full /\ snd'[Maker] = Goes(Maker, "wake_free")
              /\ chan' = [chan EXCEPT !.waker[k] = Reading]
           \/ chan.waker[k] # Full /\ snd'[Maker] = Goes(Maker, "wake_skip") /\ chan' = chan
    BY <1>0, <1>7 DEF ClaimWaker, At
  <2>2. /\ k = RingAt(chan.waker_read) /\ M.pos = chan.waker_read /\ chan.waker_read < chan.waker_write
        /\ k \in Ring
    BY <1>0, <2>1, RingAtInRing DEF WakersAgree, WakerPositions, AfterClaim
  <2>3. \/ /\ chan.waker[k] = Full /\ snd'[Maker].pc = "wake_free" /\ snd'[Maker].pos = M.pos
           /\ chan'.waker = [chan.waker EXCEPT ![k] = Reading]
        \/ /\ chan.waker[k] # Full /\ snd'[Maker].pc = "wake_skip" /\ snd'[Maker].pos = M.pos
           /\ chan'.waker = chan.waker
    <3> HIDE DEF k
    <3> QED BY <1>0, <1>1, <2>1 DEF ChannelIsTyped
  <2>4. /\ chan'.waker_read = chan.waker_read /\ chan'.waker_write = chan.waker_write
        /\ chan'.woken = chan.woken
    <3> HIDE DEF k
    <3> QED BY <1>0, <2>1 DEF ChannelIsTyped
  <2> HIDE DEF k
  <2>5. WakersAgree'
    <3>1. ASSUME NEW l \in Ring, chan'.waker[l] = Full
          PROVE  \E n \in chan.waker_read .. chan.waker_write :
                   l = RingAt(n) /\ n # chan.waker_read /\ (n = chan.waker_write => RcvAt("reg_advance"))
      <4>1. l # k /\ chan.waker[l] = Full
        BY <1>0, <2>2, <2>3, <3>1 DEF Full, Reading
      <4>2. PICK n \in chan.waker_read .. chan.waker_write :
              l = RingAt(n) /\ (n = chan.waker_write => RcvAt("reg_advance"))
        BY <4>1 DEF WakersAgree, WakerPositions, WakerAt, WakerClaims
      <4> QED BY <2>2, <4>1, <4>2
    <3>2. ASSUME NEW l \in Ring, l # k PROVE chan'.waker[l] = chan.waker[l]
      BY <1>0, <2>3, <3>2
    <3>3. ~At(Maker, "wake_free") /\ \A l \in Ring : chan.waker[l] # Reading
      BY <2>1 DEF At, WakersAgree, WakerPositions, WakerAt, WakerClaims
    <3>4. ASSUME NEW l \in Ring
          PROVE  /\ chan'.waker[l] = Reading => snd'[Maker].pc = "wake_free" /\ l = k
                 /\ chan'.waker[l] = Writing => RcvAt("reg_write") /\ l = RingAt(chan.waker_write)
      <4>1. WakerAt(l) /\ chan.waker[l] # Reading
        BY <3>3 DEF WakersAgree
      <4>2. CASE chan'.waker[l] = chan.waker[l]
        BY <4>1, <4>2 DEF WakerAt
      <4>3. CASE chan'.waker[l] # chan.waker[l]
        <5>1. l = k /\ chan'.waker[l] = Reading /\ snd'[Maker].pc = "wake_free"
          BY <1>0, <2>2, <2>3, <3>2, <4>3, Zenon
        <5> QED BY <5>1 DEF Reading, Writing
      <4> QED BY <4>2, <4>3
    <3>5. RcvAt("reg_write") => chan'.waker[RingAt(chan.waker_write)] = Writing
      <4>1. RingAt(chan.waker_write) \in Ring
        BY <1>0, RingAtInRing
      <4>2. RcvAt("reg_write") => chan.waker[RingAt(chan.waker_write)] = Writing
        BY DEF WakersAgree, WakerClaims
      <4> QED BY <2>3, <3>2, <4>1, <4>2 DEF Full, Writing
    <3>6. snd'[Maker].pc = "wake_free" => chan'.waker[RingAt(chan.waker_read)] = Reading
      BY <1>0, <2>2, <2>3
    <3>7. /\ chan'.waker_read <= chan'.waker_write /\ snd'[Maker].pos = chan'.waker_read
          /\ chan'.waker_read < chan'.waker_write /\ snd'[Maker].pc \in {"wake_free", "wake_skip"}
      BY <1>0, <2>2, <2>3, <2>4
    <3>8. rcv'.pc \in {"reg_claim", "reg_write", "reg_advance", "reg_skip"} => rcv'.pos = chan'.waker_write
      BY <1>0, <2>4 DEF WakersAgree, WakerPositions
    <3>9. WakerPositions'
      BY <3>7, <3>8 DEF WakerPositions
    <3>10. WakerClaims'
      BY <1>0, <2>4, <3>5, <3>6 DEF WakerClaims, At, RcvAt
    <3>11. ASSUME NEW l \in Ring PROVE WakerAt(l)'
      BY <1>0, <2>2, <2>4, <3>1, <3>4 DEF WakerAt, At, RcvAt
    <3> QED BY <3>9, <3>10, <3>11 DEF WakersAgree
  <2>6. ReceiverIsRegistered'
    BY <1>0, <2>1, <2>3, <2>4, Zenon DEF ReceiverIsRegistered, Waking
  <2>7. SenderWillWake'
    BY <2>3 DEF SenderWillWake, Waking
  <2> QED BY <1>2, <2>5, <2>6, <2>7
<1>8. CASE FreeWaker(Maker)
  <2> DEFINE k == RingAt(M.pos)
  <2>1. /\ M.pc = "wake_free" /\ snd'[Maker] = Goes(Maker, "wake_advance")
        /\ chan' = [chan EXCEPT !.waker[k] = Empty]
    BY <1>0, <1>8 DEF FreeWaker, At
  <2>2. /\ k = RingAt(chan.waker_read) /\ M.pos = chan.waker_read /\ chan.waker_read < chan.waker_write
        /\ k \in Ring /\ chan.waker[k] = Reading
    BY <1>0, <2>1, RingAtInRing DEF WakersAgree, WakerPositions, WakerAt, WakerClaims, AfterClaim, At
  <2> HIDE DEF k
  <2>3. /\ chan'.waker = [chan.waker EXCEPT ![k] = Empty]
        /\ chan'.waker_read = chan.waker_read /\ chan'.waker_write = chan.waker_write
        /\ chan'.woken = chan.woken
    BY <1>0, <2>1 DEF ChannelIsTyped
  <2>4. snd'[Maker].pc = "wake_advance" /\ snd'[Maker].pos = M.pos
    BY <1>1, <2>1
  <2>5. chan'.waker[k] = Empty /\ \A l \in Ring : l # k => chan'.waker[l] = chan.waker[l]
    BY <1>0, <2>2, <2>3
  <2>6. WakersAgree'
    <3>1. ASSUME NEW l \in Ring, chan'.waker[l] # Empty
          PROVE  l # k /\ chan'.waker[l] = chan.waker[l] /\ chan.waker[l] # Reading
      BY <2>2, <2>5, <3>1 DEF WakersAgree, WakerPositions, WakerAt, WakerClaims
    <3>2. RingAt(chan.waker_write) \in Ring
      BY <1>0, RingAtInRing
    <3>3. RcvAt("reg_write") => chan'.waker[RingAt(chan.waker_write)] = Writing
      <4>1. RcvAt("reg_write") => chan.waker[RingAt(chan.waker_write)] = Writing
        BY DEF WakersAgree, WakerClaims
      <4> QED BY <2>2, <2>5, <3>2, <4>1 DEF Reading, Writing
    <3>4. ASSUME NEW l \in Ring
          PROVE  /\ chan'.waker[l] # Reading
                 /\ chan'.waker[l] = Writing => RcvAt("reg_write") /\ l = RingAt(chan.waker_write)
                 /\ chan'.waker[l] = Full =>
                      \E n \in chan.waker_read .. chan.waker_write :
                        l = RingAt(n) /\ n # chan.waker_read /\ (n = chan.waker_write => RcvAt("reg_advance"))
      <4>1. WakerAt(l) /\ M.pc \in AfterClaim
        BY <2>1 DEF WakersAgree, AfterClaim
      <4>2. CASE chan'.waker[l] = Empty
        BY <4>2 DEF Reading, Writing, Full, Empty
      <4>3. CASE chan'.waker[l] # Empty
        BY <3>1, <4>1, <4>3 DEF WakerAt
      <4> QED BY <4>2, <4>3
    <3>5. WakerPositions'
      BY <1>0, <2>2, <2>3, <2>4 DEF WakersAgree, WakerPositions, At
    <3>6. WakerClaims'
      BY <1>0, <2>3, <2>4, <3>3 DEF WakerClaims, At, RcvAt
    <3>7. ASSUME NEW l \in Ring PROVE WakerAt(l)'
      <4>1. CASE chan'.waker[l] = Full
        <5>1. PICK n \in chan.waker_read .. chan.waker_write :
                l = RingAt(n) /\ n # chan.waker_read /\ (n = chan.waker_write => RcvAt("reg_advance"))
          BY <3>4, <4>1
        <5>2. \E i \in chan'.waker_read .. chan'.waker_write :
                 /\ l = RingAt(i)
                 /\ i # chan'.waker_read
                 /\ i = chan'.waker_write => RcvAt("reg_advance")'
          BY <1>0, <2>3, <5>1, Zenon DEF RcvAt
        <5> QED BY <4>1, <5>2 DEF WakerAt, Full, Reading, Writing
      <4>2. CASE chan'.waker[l] # Full
        BY <1>0, <2>3, <3>4, <4>2, Zenon DEF WakerAt, RcvAt
      <4> QED BY <4>1, <4>2
    <3> QED BY <3>5, <3>6, <3>7 DEF WakersAgree
  <2>7. ReceiverIsRegistered' /\ SenderWillWake'
    BY <2>4 DEF ReceiverIsRegistered, SenderWillWake, Waking
  <2> QED BY <1>2, <2>6, <2>7
<1>9. CASE AdvanceWaker(Maker) \/ SkipWaker(Maker)
  <2>1. M.pc \in {"wake_advance", "wake_skip"}
    BY <1>9 DEF AdvanceWaker, SkipWaker, At
  <2>2. M.pos = chan.waker_read /\ chan.waker_read < chan.waker_write
    BY <2>1 DEF WakersAgree, WakerPositions, AfterClaim
  <2>3. /\ chan' = [chan EXCEPT !.waker_read = chan.waker_read + 1]
        /\ \/ snd'[Maker] = Goes(Maker, "wake") /\ M.pc = "wake_advance"
           \/ snd'[Maker] = Goes(Maker, "wake_r") /\ M.pc = "wake_skip"
    BY <1>0, <1>9, <2>2 DEF AdvanceWaker, SkipWaker, At
  <2>4. /\ chan'.waker = chan.waker /\ chan'.waker_read = chan.waker_read + 1
        /\ chan'.waker_write = chan.waker_write /\ chan'.woken = chan.woken
    BY <1>0, <2>3 DEF ChannelIsTyped
  <2>5. \/ snd'[Maker].pc = "wake" /\ M.pc = "wake_advance"
        \/ snd'[Maker].pc = "wake_r" /\ M.pc = "wake_skip"
    BY <1>1, <2>3
  <2>6. WakersAgree'
    <3>1. ASSUME NEW l \in Ring, chan.waker[l] = Full
          PROVE  \E n \in chan.waker_read + 1 .. chan.waker_write :
                   l = RingAt(n) /\ (n = chan.waker_write => RcvAt("reg_advance"))
      <4>1. PICK n \in chan.waker_read .. chan.waker_write :
              l = RingAt(n) /\ n # chan.waker_read /\ (n = chan.waker_write => RcvAt("reg_advance"))
        BY <2>1, <3>1 DEF WakersAgree, WakerPositions, WakerAt, WakerClaims, AfterClaim
      <4>2. n \in chan.waker_read + 1 .. chan.waker_write
        BY <1>0, <4>1
      <4> QED BY <4>1, <4>2
    <3>2. \A l \in Ring : chan.waker[l] # Reading
      BY <2>1, Zenon DEF WakersAgree, WakerPositions, WakerAt, WakerClaims, At
    <3>3. WakerPositions'
      <4>1. chan.waker_read + 1 <= chan.waker_write /\ snd'[Maker].pc \notin AfterClaim \union {"wake_w", "wake_claim"}
        BY <1>0, <2>2, <2>5 DEF AfterClaim
      <4> QED BY <1>0, <2>4, <4>1 DEF WakersAgree, WakerPositions, At
    <3>4. WakerClaims'
      BY <1>0, <2>4, <2>5, Zenon DEF WakersAgree, WakerClaims, At, RcvAt
    <3>5. ASSUME NEW l \in Ring PROVE WakerAt(l)'
      <4>1. WakerAt(l) /\ snd'[Maker].pc \notin AfterClaim
        BY <2>5 DEF WakersAgree, AfterClaim
      <4> QED BY <1>0, <2>4, <3>1, <3>2, <4>1 DEF WakerAt, RcvAt
    <3> QED BY <3>3, <3>4, <3>5 DEF WakersAgree
  <2>7. ReceiverIsRegistered'
    BY <1>0, <2>4, <2>5 DEF ReceiverIsRegistered, Waking
  <2>8. SenderWillWake'
    BY <2>5 DEF SenderWillWake, Waking
  <2> QED BY <1>2, <2>6, <2>7, <2>8
<1>10. CASE Wake(Maker)
  <2>1. /\ M.pc = "wake" /\ chan' = [chan EXCEPT !.woken = TRUE]
        /\ \E l \in {"drop_r", "idle"} : snd'[Maker] = Goes(Maker, l)
    BY <1>0, <1>10 DEF Wake, AfterWake, At
  <2>2. /\ chan'.waker = chan.waker /\ chan'.waker_read = chan.waker_read
        /\ chan'.waker_write = chan.waker_write /\ chan'.woken
    BY <1>0, <2>1 DEF ChannelIsTyped
  <2>3. snd'[Maker].pc \in {"drop_r", "idle"}
    BY <1>1, <2>1
  <2>4. WakersAgree'
    BY <1>0, <2>1, <2>2, <2>3 DEF WakersAgree, WakerPositions, WakerAt, WakerClaims, At, RcvAt, AfterClaim
  <2>5. ReceiverIsRegistered' /\ SenderWillWake'
    BY <2>2 DEF ReceiverIsRegistered, SenderWillWake
  <2> QED BY <1>2, <2>4, <2>5
<1> QED BY <1>3, <1>5, <1>6, <1>7, <1>8, <1>9, <1>10 DEF WakeSteps

(* A step of the receiver keeps the wakers in order. *)
LEMMA ReceiverKeepsWakers ==
    ASSUME ChannelInv, FifoInv, WakeInv, Receiver
    PROVE  WakeInv'
<1> USE DEF WakeInv
<1>0. /\ ChannelTypeOK /\ Maker \in Handles /\ ChannelIsTyped /\ ReceiverIsTyped /\ snd' = snd
      /\ chan.waker_read \in Nat /\ chan.waker_write \in Nat /\ DOMAIN chan.waker = Ring
      /\ DOMAIN chan.slot = Ring /\ CAPACITY \in Nat \ {0} /\ rcv.attempts \in Nat
      /\ \A k \in Ring : chan.waker[k] \in 0 .. 3
  BY ReceiverFrame, BoundedAssumption, Zenon DEF ChannelInv, ChannelTypeOK, ChannelIsTyped, ReceiverIsTyped
<1>1. ASSUME NEW l
      PROVE  /\ RcvGoes(l).pc = l /\ RcvGoes(l).pos = rcv.pos
             /\ RcvGoes(l).second = rcv.second /\ RcvGoes(l).attempts = rcv.attempts
  BY <1>0 DEF RcvGoes, ReceiverIsTyped
<1>2. ASSUME chan'.waker = chan.waker, chan'.waker_read = chan.waker_read, chan'.waker_write = chan.waker_write,
             rcv.pc \notin {"reg_write", "reg_advance"},
             rcv'.pc \notin {"reg_claim", "reg_write", "reg_advance", "reg_skip"}
      PROVE  WakersAgree'
  BY <1>0, <1>2, Zenon DEF WakersAgree, WakerPositions, WakerAt, WakerClaims, At, RcvAt
<1>3. ASSUME chan'.waker = chan.waker, chan'.woken = chan.woken, rcv'.second = rcv.second,
             rcv'.attempts = rcv.attempts, rcv'.pc \notin {"reg_advance", "reg_skip"}
      PROVE  ReceiverIsRegistered'
  BY <1>0, <1>3, Zenon DEF ReceiverIsRegistered
<1>4. ASSUME rcv'.pc \notin {"is_closed", "pending"} PROVE SenderWillWake'
  BY <1>4 DEF SenderWillWake
<1>5. ASSUME rcv'.pc \notin {"register", "reg_claim", "reg_write", "reg_advance", "reg_skip", "pending"}
      PROVE  RegistersOnce'
  BY <1>5 DEF RegistersOnce, RcvAt
<1> USE DEF Still, Receives, RcvAt
<1>6. CASE RecvLoadRead
  <2>1. /\ rcv' = [rcv EXCEPT !.pc = "write", !.pos = chan.read] /\ rcv.pc = "read" /\ chan' = chan
    BY <1>6 DEF RecvLoadRead
  <2>2. rcv'.pc = "write" /\ rcv'.second = rcv.second /\ rcv'.attempts = rcv.attempts
    BY <1>0, <2>1 DEF ReceiverIsTyped
  <2> QED BY <1>2, <1>3, <1>4, <1>5, <2>1, <2>2
<1>7. CASE RecvLoadWrite
  <2>1. /\ rcv.pc = "write" /\ chan' = chan
        /\ \/ rcv' = RcvGoes("is_closed") /\ rcv.pos = chan.write
           \/ rcv' = RcvGoes("claim")
    BY <1>7 DEF RecvLoadWrite
  <2>2. /\ (rcv'.pc = "is_closed" /\ rcv.pos = chan.write) \/ rcv'.pc = "claim"
        /\ rcv'.second = rcv.second /\ rcv'.attempts = rcv.attempts
    BY <1>1, <2>1
  <2>3. WakersAgree' /\ ReceiverIsRegistered' /\ RegistersOnce'
    BY <1>2, <1>3, <1>5, <2>1, <2>2
  <2>4. SenderWillWake'
    <3>1. CASE rcv'.pc = "is_closed"
      <4>1. chan.read = chan.write /\ chan.write \in Nat /\ Len(accepted) \in Nat
        BY <1>0, <2>1, <2>2, <3>1, LenFacts, Zenon DEF FifoInv, PositionsAgree, ChannelIsTyped, ChannelTypeOK
      <4>2. ASSUME NEW k \in Ring, chan.slot[k] = Full PROVE At(Maker, "advance")
        <5>1. CASE \E n \in Positions : k = RingAt(n)
          <6>1. Len(accepted) # chan.write
            BY <4>1, <5>1 DEF Positions
          <6> QED BY <4>1, <6>1 DEF FifoInv, PositionsAgree
        <5>2. CASE At(Maker, "write") /\ k = RingAt(chan.write)
          <6>1. chan.slot[RingAt(snd[Maker].pos)] = Writing /\ snd[Maker].pos = chan.write
            BY <1>0, <5>2 DEF ChannelInv, ClaimsAreOwn, FifoInv, PositionsAgree, At
          <6> QED BY <4>2, <5>2, <6>1 DEF Full, Writing
        <5> QED BY <4>2, <5>1, <5>2 DEF FifoInv, RingHoldsTheRest, HoldsAt, UsedAt, Full, Empty
      <4> QED BY <1>0, <2>1, <4>2 DEF SenderWillWake, At, Waking
    <3>2. CASE rcv'.pc = "claim"
      BY <1>4, <3>2
    <3> QED BY <2>2, <3>1, <3>2, Zenon
  <2> QED BY <2>3, <2>4
<1>8. CASE RecvClaim
  <2>1. /\ rcv.pc = "claim" /\ rcv'.pc \in {"free", "skip"}
        /\ rcv'.second = rcv.second /\ rcv'.attempts = rcv.attempts
        /\ chan' = chan \/ \E x : chan' = [chan EXCEPT !.slot = x]
    BY <1>0, <1>8, RecvClaimEffect
  <2>2. /\ chan'.waker = chan.waker /\ chan'.waker_read = chan.waker_read
        /\ chan'.waker_write = chan.waker_write /\ chan'.woken = chan.woken
    BY <1>0, <2>1, Zenon DEF ChannelIsTyped
  <2> QED BY <1>2, <1>3, <1>4, <1>5, <2>1, <2>2
<1>9. CASE RecvFree
  <2>1. /\ rcv.pc = "free" /\ rcv'.pc = "advance"
        /\ rcv'.second = rcv.second /\ rcv'.attempts = rcv.attempts
        /\ chan'.waker = chan.waker /\ chan'.waker_read = chan.waker_read
        /\ chan'.waker_write = chan.waker_write /\ chan'.woken = chan.woken
    BY <1>0, <1>9, RecvFreeEffect
  <2> QED BY <1>2, <1>3, <1>4, <1>5, <2>1, Zenon
<1>10. ASSUME rcv' = NewPoll, rcv.pc \in {"advance", "pending"},
              chan'.waker = chan.waker, chan'.waker_read = chan.waker_read, chan'.waker_write = chan.waker_write
       PROVE  WakeInv'
  <2>1. rcv'.pc = "read" /\ ~rcv'.second /\ rcv'.attempts = 0
    BY <1>10 DEF NewPoll
  <2>2. ReceiverIsRegistered'
    BY <2>1 DEF ReceiverIsRegistered
  <2> QED BY <1>2, <1>4, <1>5, <1>10, <2>1, <2>2
<1>11. CASE RecvAdvance
  <2>1. rcv.pc = "advance" /\ rcv' = NewPoll /\ chan' = [chan EXCEPT !.read = chan.read + 1]
    BY <1>11 DEF RecvAdvance
  <2>2. chan'.waker = chan.waker /\ chan'.waker_read = chan.waker_read /\ chan'.waker_write = chan.waker_write
    BY <1>0, <2>1 DEF ChannelIsTyped
  <2> QED BY <1>10, <2>1, <2>2
<1>12. CASE PollAgain
  <2>1. rcv.pc = "pending" /\ rcv' = NewPoll /\ chan' = [chan EXCEPT !.woken = FALSE]
    BY <1>12 DEF PollAgain
  <2>2. chan'.waker = chan.waker /\ chan'.waker_read = chan.waker_read /\ chan'.waker_write = chan.waker_write
    BY <1>0, <2>1 DEF ChannelIsTyped
  <2> QED BY <1>10, <2>1, <2>2
<1>13. CASE RecvSkip
  BY <1>13 DEF RecvSkip, FifoInv, PositionsAgree
<1>14. CASE RecvIsClosed
  <2>1. /\ rcv.pc = "is_closed" /\ chan' = chan
        /\ \/ rcv' = RcvGoes("none")
           \/ rcv' = RcvGoes("pending") /\ rcv.second
           \/ rcv' = RcvGoes("register") /\ ~rcv.second
    BY <1>14 DEF RecvIsClosed
  <2>2. /\ \/ rcv'.pc = "none"
           \/ rcv'.pc = "pending" /\ rcv.second
           \/ rcv'.pc = "register" /\ ~rcv.second
        /\ rcv'.second = rcv.second /\ rcv'.attempts = rcv.attempts
    BY <1>1, <2>1
  <2>3. WakersAgree' /\ ReceiverIsRegistered'
    BY <1>2, <1>3, <2>1, <2>2
  <2>4. RegistersOnce'
    BY <2>2, Zenon DEF RegistersOnce
  <2>5. SenderWillWake'
    BY <1>0, <2>1, <2>2 DEF SenderWillWake
  <2> QED BY <2>3, <2>4, <2>5
<1>15. CASE RegisterLoad
  <2>1. /\ rcv.pc = "register" /\ chan' = chan
        /\ \/ rcv.attempts >= CAPACITY /\ rcv' = [rcv EXCEPT !.pc = "read", !.second = TRUE]
           \/ rcv' = [rcv EXCEPT !.pc = "reg_claim", !.pos = chan.waker_write]
    BY <1>15 DEF RegisterLoad
  <2>2. CASE rcv.attempts >= CAPACITY /\ rcv' = [rcv EXCEPT !.pc = "read", !.second = TRUE]
    <3>1. rcv'.pc = "read" /\ rcv.attempts > 0
      BY <1>0, <2>2 DEF ReceiverIsTyped
    <3>2. ReceiverIsRegistered'
      BY <1>0, <2>1, <3>1 DEF ReceiverIsRegistered
    <3> QED BY <1>2, <1>4, <1>5, <2>1, <3>1, <3>2
  <2>3. CASE rcv' = [rcv EXCEPT !.pc = "reg_claim", !.pos = chan.waker_write]
    <3>1. /\ rcv'.pc = "reg_claim" /\ rcv'.pos = chan.waker_write
          /\ rcv'.second = rcv.second /\ rcv'.attempts = rcv.attempts
      BY <1>0, <2>3 DEF ReceiverIsTyped
    <3>2. RegistersOnce'
      BY <2>1, <3>1 DEF RegistersOnce
    <3>3. WakersAgree'
      BY <1>0, <2>1, <3>1 DEF WakersAgree, WakerPositions, WakerAt, WakerClaims, At
    <3> QED BY <1>3, <1>4, <2>1, <3>1, <3>2, <3>3
  <2> QED BY <2>1, <2>2, <2>3
<1>16. CASE RegisterClaim
  <2> DEFINE k == RingAt(rcv.pos)
  <2>1. /\ rcv.pc = "reg_claim"
        /\ \/ /\ chan.waker[k] = Empty /\ rcv' = RcvGoes("reg_write")
              /\ chan' = [chan EXCEPT !.waker[k] = Writing]
           \/ chan.waker[k] # Empty /\ rcv' = RcvGoes("reg_skip") /\ chan' = chan
    BY <1>16 DEF RegisterClaim
  <2>2. rcv.pos = chan.waker_write /\ k = RingAt(chan.waker_write) /\ k \in Ring
    BY <1>0, <2>1, RingAtInRing DEF WakersAgree, WakerPositions, WakerAt, WakerClaims
  <2> HIDE DEF k
  <2>3. /\ rcv'.second = rcv.second /\ rcv'.attempts = rcv.attempts /\ rcv'.pos = rcv.pos
        /\ rcv'.pc \in {"reg_write", "reg_skip"}
    BY <1>1, <2>1
  <2>4. RegistersOnce'
    BY <2>1, <2>3 DEF RegistersOnce
  <2>5. CASE chan.waker[k] = Empty
    <3>1. /\ rcv'.pc = "reg_write" /\ chan'.waker = [chan.waker EXCEPT ![k] = Writing]
          /\ chan'.waker_read = chan.waker_read /\ chan'.waker_write = chan.waker_write
          /\ chan'.woken = chan.woken
      BY <1>0, <1>1, <2>1, <2>5 DEF ChannelIsTyped
    <3>2. chan'.waker[k] = Writing /\ \A l \in Ring : l # k => chan'.waker[l] = chan.waker[l]
      BY <1>0, <2>2, <3>1
    <3>3. WakersAgree'
      <4>1. RingAt(chan.waker_read) \in Ring
        BY <1>0, RingAtInRing
      <4>2. At(Maker, "wake_free") => chan'.waker[RingAt(chan.waker_read)] = Reading
        <5>1. At(Maker, "wake_free") => chan.waker[RingAt(chan.waker_read)] = Reading
          BY Zenon DEF WakersAgree, WakerClaims
        <5> QED BY <2>5, <3>2, <4>1, <5>1 DEF Empty, Reading
      <4>3. ASSUME NEW l \in Ring
            PROVE  /\ chan'.waker[l] = Reading => At(Maker, "wake_free") /\ l = RingAt(chan.waker_read)
                   /\ chan'.waker[l] = Writing => l = k
                   /\ chan'.waker[l] = Full =>
                        \E n \in chan.waker_read .. chan.waker_write :
                          /\ l = RingAt(n) /\ n # chan.waker_write
                          /\ n = chan.waker_read => snd[Maker].pc \notin AfterClaim
        <5>1. CASE l = k
          BY <3>2, <5>1 DEF Reading, Writing, Full
        <5>2. CASE l # k
          <6>1. WakerAt(l) /\ chan'.waker[l] = chan.waker[l]
            BY <3>2, <5>2, Zenon DEF WakersAgree
          <6> QED BY <2>1, <6>1 DEF WakerAt
        <5> QED BY <5>1, <5>2
      <4>4. WakerPositions'
        BY <1>0, <2>2, <2>3, <3>1, Zenon DEF WakersAgree, WakerPositions, At
      <4>5. WakerClaims'
        BY <1>0, <2>2, <3>1, <3>2, <4>2, Zenon DEF WakerClaims, At
      <4>6. ASSUME NEW l \in Ring PROVE WakerAt(l)'
        BY <1>0, <2>2, <3>1, <4>3 DEF WakerAt, At
      <4> QED BY <4>4, <4>5, <4>6 DEF WakersAgree
    <3>4. ReceiverIsRegistered'
      <4>1. \A l \in Ring : chan.waker[l] = Full => chan'.waker[l] = Full
        BY <2>5, <3>2 DEF Full, Empty
      <4> QED BY <1>0, <2>3, <3>1, <4>1 DEF ReceiverIsRegistered
    <3> QED BY <1>4, <2>4, <3>1, <3>3, <3>4
  <2>6. CASE chan.waker[k] # Empty
    <3>1. rcv'.pc = "reg_skip" /\ chan' = chan
      BY <1>1, <2>1, <2>6
    <3>2. WakersAgree'
      BY <1>0, <2>1, <2>2, <2>3, <3>1 DEF WakersAgree, WakerPositions, WakerAt, WakerClaims, At
    <3>3. chan.waker[k] \in {Reading, Full}
      <4>1. chan.waker[k] # Writing
        BY <2>1, <2>2 DEF WakersAgree, WakerPositions, WakerAt, WakerClaims
      <4>2. chan.waker[k] \in 0 .. 3
        BY <1>0, <2>2, Zenon
      <4> QED BY <2>6, <4>1, <4>2 DEF Empty, Writing, Full, Reading
    <3>4. ReceiverIsRegistered'
      BY <1>0, <2>2, <3>1, <3>3
         DEF ReceiverIsRegistered, WakersAgree, WakerPositions, WakerAt, WakerClaims, At, Waking
    <3> QED BY <1>4, <2>4, <3>1, <3>2, <3>4
  <2> QED BY <2>5, <2>6
<1>17. CASE RegisterWrite
  <2> DEFINE k == RingAt(rcv.pos)
  <2>1. rcv.pc = "reg_write" /\ rcv' = RcvGoes("reg_advance") /\ chan' = [chan EXCEPT !.waker[k] = Full]
    BY <1>17 DEF RegisterWrite
  <2>2. rcv.pos = chan.waker_write /\ k = RingAt(chan.waker_write) /\ k \in Ring /\ chan.waker[k] = Writing
    BY <1>0, <2>1, RingAtInRing DEF WakersAgree, WakerPositions, WakerAt, WakerClaims
  <2> HIDE DEF k
  <2>3. /\ rcv'.second = rcv.second /\ rcv'.attempts = rcv.attempts /\ rcv'.pos = rcv.pos
        /\ rcv'.pc = "reg_advance"
    BY <1>1, <2>1
  <2>4. /\ chan'.waker = [chan.waker EXCEPT ![k] = Full]
        /\ chan'.waker_read = chan.waker_read /\ chan'.waker_write = chan.waker_write
    BY <1>0, <2>1, Zenon DEF ChannelIsTyped
  <2>5. chan'.waker[k] = Full /\ \A l \in Ring : l # k => chan'.waker[l] = chan.waker[l]
    BY <1>0, <2>2, <2>4
  <2>6. RegistersOnce'
    BY <2>1, <2>3 DEF RegistersOnce
  <2>7. ReceiverIsRegistered'
    BY <2>2, <2>5 DEF ReceiverIsRegistered
  <2>8. WakersAgree'
    <3>1. RingAt(chan.waker_read) \in Ring
      BY <1>0, RingAtInRing
    <3>2. At(Maker, "wake_free") => chan'.waker[RingAt(chan.waker_read)] = Reading
      <4>1. At(Maker, "wake_free") => chan.waker[RingAt(chan.waker_read)] = Reading
        BY DEF WakersAgree, WakerClaims
      <4> QED BY <2>2, <2>5, <3>1, <4>1 DEF Writing, Reading
    <3>3. ASSUME NEW l \in Ring
          PROVE  /\ chan'.waker[l] = Reading => At(Maker, "wake_free") /\ l = RingAt(chan.waker_read)
                 /\ chan'.waker[l] # Writing
                 /\ chan'.waker[l] = Full =>
                      \E n \in chan.waker_read .. chan.waker_write :
                        l = RingAt(n) /\ (n = chan.waker_read => snd[Maker].pc \notin AfterClaim)
      <4>1. CASE l = k
        <5>1. chan.waker_read <= chan.waker_write /\ chan.waker_write \in chan.waker_read .. chan.waker_write
          BY <1>0 DEF WakersAgree, WakerPositions
        <5>2. chan.waker_write = chan.waker_read => snd[Maker].pc \notin AfterClaim
          BY <1>0 DEF WakersAgree, WakerPositions
        <5> QED BY <2>2, <2>5, <4>1, <5>1, <5>2 DEF Reading, Writing, Full
      <4>2. CASE l # k
        <5>1. WakerAt(l) /\ chan'.waker[l] = chan.waker[l]
          BY <2>5, <4>2 DEF WakersAgree
        <5> QED BY <2>1, <2>2, <4>2, <5>1, Zenon DEF WakerAt
      <4> QED BY <4>1, <4>2, Zenon
    <3>4. WakerPositions'
      BY <1>0, <2>2, <2>3, <2>4, Zenon DEF WakersAgree, WakerPositions, At
    <3>5. WakerClaims'
      BY <1>0, <2>3, <2>4, <3>2, Zenon DEF WakerClaims, At
    <3>6. ASSUME NEW l \in Ring PROVE WakerAt(l)'
      BY <1>0, <2>3, <2>4, <3>3 DEF WakerAt, At
    <3> QED BY <3>4, <3>5, <3>6 DEF WakersAgree
  <2> QED BY <1>4, <2>3, <2>6, <2>7, <2>8
<1>18. CASE RegisterAdvance \/ RegisterSkip
  <2>1. rcv.pc \in {"reg_advance", "reg_skip"}
    BY <1>18, Zenon DEF RegisterAdvance, RegisterSkip
  <2>2. rcv.pos = chan.waker_write
    BY <2>1 DEF WakersAgree, WakerPositions, WakerAt, WakerClaims
  <2>3. /\ chan' = [chan EXCEPT !.waker_write = chan.waker_write + 1]
        /\ \/ rcv' = [rcv EXCEPT !.pc = "read", !.second = TRUE]
           \/ rcv' = [rcv EXCEPT !.pc = "register", !.attempts = rcv.attempts + 1]
    BY <1>18, <2>2 DEF RegisterAdvance, RegisterSkip
  <2>4. /\ chan'.waker = chan.waker /\ chan'.waker_read = chan.waker_read
        /\ chan'.waker_write = chan.waker_write + 1 /\ chan'.woken = chan.woken
    BY <1>0, <2>3 DEF ChannelIsTyped
  <2>5. rcv'.pc = "read" \/ (rcv'.pc = "register" /\ rcv'.second = rcv.second)
    <3>1. CASE rcv' = [rcv EXCEPT !.pc = "read", !.second = TRUE]
      BY <1>0, <3>1 DEF ReceiverIsTyped
    <3>2. CASE rcv' = [rcv EXCEPT !.pc = "register", !.attempts = rcv.attempts + 1]
      BY <1>0, <3>2 DEF ReceiverIsTyped
    <3> QED BY <2>3, <3>1, <3>2
  <2>6. RegistersOnce'
    BY <2>1, <2>5, Zenon DEF RegistersOnce
  <2>7. ReceiverIsRegistered'
    BY <1>0, <2>1, <2>4 DEF ReceiverIsRegistered
  <2>8. WakersAgree'
    <3>1. ASSUME NEW l \in Ring, chan.waker[l] = Full
          PROVE  \E n \in chan.waker_read .. chan.waker_write + 1 :
                   /\ l = RingAt(n) /\ n # chan.waker_write + 1
                   /\ n = chan.waker_read => snd[Maker].pc \notin AfterClaim
      <4>1. PICK n \in chan.waker_read .. chan.waker_write :
              l = RingAt(n) /\ (n = chan.waker_read => snd[Maker].pc \notin AfterClaim)
        BY <3>1 DEF WakersAgree, WakerPositions, WakerAt, WakerClaims
      <4>2. n \in chan.waker_read .. chan.waker_write + 1 /\ n # chan.waker_write + 1
        BY <1>0, <4>1
      <4> QED BY <4>1, <4>2, Zenon
    <3>2. \A l \in Ring : chan.waker[l] # Writing
      BY <2>1 DEF WakersAgree, WakerPositions, WakerAt, WakerClaims
    <3>3. chan.waker_read <= chan.waker_write + 1 /\ (chan.waker_read < chan.waker_write => chan.waker_read < chan.waker_write + 1)
      BY <1>0 DEF WakersAgree, WakerPositions
    <3>4. WakerPositions'
      BY <1>0, <2>4, <2>5, <3>3, Zenon DEF WakersAgree, WakerPositions, At
    <3>5. WakerClaims'
      BY <1>0, <2>4, <2>5, Zenon DEF WakersAgree, WakerClaims, At
    <3>6. ASSUME NEW l \in Ring PROVE WakerAt(l)'
      <4>1. WakerAt(l)
        BY DEF WakersAgree
      <4> QED BY <1>0, <2>4, <3>1, <3>2, <4>1 DEF WakerAt, At
    <3> QED BY <3>4, <3>5, <3>6 DEF WakersAgree
  <2> QED BY <1>4, <2>5, <2>6, <2>7, <2>8
<1> QED BY <1>6, <1>7, <1>8, <1>9, <1>11, <1>12, <1>13, <1>14, <1>15, <1>16, <1>17, <1>18 DEF Receiver

(* A new channel satisfies the invariant of one handle. *)
LEMMA SoloStart == ASSUME BoundedInit PROVE SoloInv
<1>1. PICK script \in Scripts : BoundedRest(script)
  BY DEF BoundedInit
<1>2. Maker \in Handles /\ CAPACITY \in Nat
  BY ChannelStart, BoundedAssumption DEF ChannelInv, ChannelTypeOK
<1>3. snd[Maker].pc = "idle" /\ accepted = <<>> /\ delivered = <<>> /\ Len(accepted) = 0 /\ Len(delivered) = 0
  BY <1>1, <1>2, Zenon DEF BoundedRest, Handles
<1>4. /\ chan.write = 0 /\ chan.read = 0 /\ chan.waker_write = 0 /\ chan.waker_read = 0
      /\ \A k \in Ring : chan.slot[k] = Empty /\ chan.waker[k] = Empty
  BY <1>1, Zenon DEF BoundedRest, NewChannel
<1>5. rcv.pc = "read" /\ rcv.attempts = 0 /\ ~rcv.second
  BY <1>1, Zenon DEF BoundedRest, NewPoll
<1>6. PositionsAgree
  BY <1>2, <1>3, <1>4, <1>5 DEF PositionsAgree, At, RcvAt
<1>7. Positions = {}
  BY <1>3, <1>4 DEF Positions
<1>8. RingHoldsTheRest /\ PrefixIsDelivered
  BY <1>3, <1>4, <1>7 DEF RingHoldsTheRest, HoldsAt, UsedAt, PrefixIsDelivered
<1>9. WakersAgree
  <2>1. WakerPositions /\ WakerClaims
    BY <1>3, <1>4, <1>5 DEF WakerPositions, WakerClaims, At, RcvAt, AfterClaim
  <2>2. ASSUME NEW k \in Ring PROVE WakerAt(k)
    BY <1>4 DEF WakerAt, Empty, Writing, Full, Reading
  <2> QED BY <2>1, <2>2 DEF WakersAgree
<1>10. ReceiverIsRegistered /\ RegistersOnce /\ SenderWillWake
  BY <1>5 DEF ReceiverIsRegistered, RegistersOnce, SenderWillWake, RcvAt
<1> QED BY <1>6, <1>8, <1>9, <1>10 DEF SoloInv, FifoInv, WakeInv

(* Every step keeps the invariant of one handle. *)
LEMMA SoloStep == ASSUME ChannelInv, SoloInv, [BoundedNext]_bVars PROVE SoloInv'
<1>1. ASSUME NEW s \in DOMAIN snd, Sender(s) PROVE SoloInv'
  <2>1. SUFFICES ASSUME Solo' PROVE FifoInv' /\ WakeInv'
    BY DEF SoloInv
  <2>2. Handles' = Handles /\ s \in Handles
    BY <1>1, SenderRestOfType DEF ChannelInv, SenderTurn, Handles
  <2>3. Solo /\ s = Maker
    BY <2>1, <2>2 DEF Solo
  <2> QED BY <1>1, <2>3, SenderKeepsFifo, SenderKeepsWakers DEF SoloInv
<1>2. ASSUME Receiver PROVE SoloInv'
  <2>1. SUFFICES ASSUME Solo' PROVE FifoInv' /\ WakeInv'
    BY DEF SoloInv
  <2>2. Solo
    BY <1>2, <2>1, ReceiverFrame DEF Solo
  <2> QED BY <1>2, <2>2, ReceiverKeepsFifo, ReceiverKeepsWakers DEF SoloInv
<1>3. CASE UNCHANGED bVars
  <2>1. snd' = snd /\ chan' = chan /\ rcv' = rcv /\ accepted' = accepted /\ delivered' = delivered
    BY <1>3 DEF bVars
  <2>2. Positions' = Positions /\ Solo' = Solo
    BY <2>1, Zenon DEF Positions, Solo, Handles
  <2>3. FifoInv' = FifoInv
    BY <2>1, <2>2 DEF FifoInv, PositionsAgree, RingHoldsTheRest, HoldsAt, UsedAt, PrefixIsDelivered, At, RcvAt
  <2>4. WakeInv' = WakeInv
    BY <2>1, Zenon
       DEF WakeInv, WakersAgree, WakerPositions, WakerAt, WakerClaims, ReceiverIsRegistered,
       RegistersOnce, SenderWillWake, At, RcvAt
  <2> QED BY <2>2, <2>3, <2>4 DEF SoloInv
<1> QED BY <1>1, <1>2, <1>3 DEF BoundedNext

(* Both invariants hold in every reachable state. *)
LEMMA OneSenderInv == BoundedSpec => [](ChannelInv /\ SoloInv)
  BY ChannelStart, SoloStart, ChannelStep, SoloStep, PTL DEF BoundedSpec

(* With one handle messages arrive in the order they were sent. *)
THEOREM BoundedIsFifo == BoundedSpec => []OneSenderIsFifo
<1>1. ChannelInv /\ SoloInv => OneSenderIsFifo
  <2> SUFFICES ASSUME ChannelInv, SoloInv, Handles = {Maker}
               PROVE  SubSeq(accepted, 1, Len(delivered)) = delivered
    BY DEF OneSenderIsFifo, Handles
  <2> DEFINE D == Messages \union {<<>>}
             p == SubSeq(accepted, 1, Len(delivered))
  <2>1. /\ Len(delivered) <= Len(accepted) /\ \A n \in 1 .. Len(delivered) : delivered[n] = accepted[n]
        /\ accepted \in Seq(Messages) /\ delivered \in Seq(D)
    BY DEF SoloInv, Solo, FifoInv, PrefixIsDelivered, ChannelInv, ChannelTypeOK
  <2>2. accepted \in Seq(D) /\ Len(delivered) \in Nat /\ Len(accepted) \in Nat
    BY <2>1, LenFacts
  <2> HIDE DEF D
  <2>3. /\ p \in Seq(D) /\ Len(p) = Len(delivered)
        /\ \A n \in 1 .. Len(delivered) : p[n] = accepted[n]
    BY <2>1, <2>2, PrefixFacts
  <2> HIDE DEF p
  <2>4. p = delivered
    BY <2>1, <2>3, SameSeq
  <2> QED BY <2>4 DEF p
<1> QED BY <1>1, OneSenderInv, PTL

(* With one handle no wake-up is lost: a receiver that waits while a       *)
(* message lies in the ring is woken, or the handle is about to wake it.   *)
THEOREM BoundedWakes == BoundedSpec => []OneSenderWakes
<1>1. ChannelInv /\ SoloInv => OneSenderWakes
  BY DEF OneSenderWakes, SoloInv, Solo, WakeInv, SenderWillWake, RegistersOnce, Handles, RcvAt, At, Waking
<1> QED BY <1>1, OneSenderInv, PTL
=============================================================================
