------------------------ MODULE BoundedChannelProofs ------------------------
(***************************************************************************)
(* What holds of the ring of the bounded channel, for any capacity and     *)
(* whatever handles race: every message accepted is in one place.          *)
(***************************************************************************)
EXTENDS BoundedChannel, TLAPS

(* The bounded channel, with any number of handles.                        *)

Handles == DOMAIN snd

(* A message is named by the handle that sends it and the sends left.      *)
Messages == Handles \X Nat

SendersAreTyped ==
    \A s \in Handles : /\ DOMAIN snd[s] = {"pc", "pos", "left", "last"}
                       /\ snd[s].pos \in Nat /\ snd[s].left \in Nat

ChannelIsTyped ==
    /\ DOMAIN chan = {"slot", "value", "waker", "write", "read", "waker_write", "waker_read",
                      "count", "closed", "woken"}
    /\ chan.slot \in [Ring -> 0 .. 3] /\ chan.waker \in [Ring -> 0 .. 3]
    /\ chan.value \in [Ring -> Messages \union {<<>>}]
    /\ chan.write \in Nat /\ chan.read \in Nat
    /\ chan.waker_write \in Nat /\ chan.waker_read \in Nat

ReceiverIsTyped ==
    /\ DOMAIN rcv = {"pc", "pos", "second", "attempts"}
    /\ rcv.pos \in Nat /\ rcv.attempts \in Nat

ChannelTypeOK ==
    /\ Maker \in Handles /\ SendersAreTyped /\ ChannelIsTyped /\ ReceiverIsTyped
    /\ accepted \in Seq(Messages) /\ delivered \in Seq(Messages \union {<<>>})

(* Where a handle is between the start of a send and the write of it.      *)
Sending == {"load_w", "load_r", "claim", "skip", "write"}

(* The slots that hold a message. *)
Held == {k \in Ring : chan.slot[k] \in {Full, Reading}}

(* A slot that is being written or read has one claimant. *)
ClaimsAreOwn ==
    /\ \A s \in Handles : At(s, "write") => chan.slot[RingAt(snd[s].pos)] = Writing
    /\ \A s, t \in Handles : At(s, "write") /\ At(t, "write") /\ s # t
         => RingAt(snd[s].pos) # RingAt(snd[t].pos)
    /\ RcvAt("free") => chan.slot[RingAt(rcv.pos)] = Reading

(* The message a handle is about to write was not accepted before. *)
MessagesAreFresh ==
    \A n \in DOMAIN accepted : \A s \in Handles : accepted[n][1] = s =>
        /\ snd[s].left <= accepted[n][2]
        /\ snd[s].pc \in Sending => snd[s].left < accepted[n][2]

(* No message is in two places: in two slots, delivered twice, or both. *)
PlacesDiffer ==
    /\ \A i, j \in DOMAIN delivered : delivered[i] = delivered[j] => i = j
    /\ \A k, l \in Held : chan.value[k] = chan.value[l] => k = l
    /\ \A k \in Held, i \in DOMAIN delivered : chan.value[k] # delivered[i]

(* What was accepted is what the ring holds and what was delivered. *)
NothingIsLost == {chan.value[k] : k \in Held} \union Elements(delivered) = Elements(accepted)

(* The invariant of the channel, however many handles race. *)
ChannelInv == ChannelTypeOK /\ ClaimsAreOwn /\ MessagesAreFresh /\ PlacesDiffer /\ NothingIsLost

(* Sequences: what the provers know of them, to cite where it is needed. *)
LEMMA LenFacts ==
    ASSUME NEW S, NEW q \in Seq(S)
    PROVE  Len(q) \in Nat /\ DOMAIN q = 1 .. Len(q) /\ \A n \in 1 .. Len(q) : q[n] \in S
  OBVIOUS

LEMMA AppendFacts ==
    ASSUME NEW S, NEW q \in Seq(S), NEW e \in S
    PROVE  /\ Append(q, e) \in Seq(S) /\ Len(Append(q, e)) = Len(q) + 1
           /\ Append(q, e)[Len(q) + 1] = e
           /\ \A n \in 1 .. Len(q) : Append(q, e)[n] = q[n]
  OBVIOUS

LEMMA SameSeq ==
    ASSUME NEW S, NEW p \in Seq(S), NEW q \in Seq(S),
           Len(p) = Len(q), \A n \in 1 .. Len(p) : p[n] = q[n]
    PROVE  p = q
  OBVIOUS

LEMMA PrefixFacts ==
    ASSUME NEW S, NEW q \in Seq(S), NEW k \in 0 .. Len(q)
    PROVE  /\ SubSeq(q, 1, k) \in Seq(S) /\ Len(SubSeq(q, 1, k)) = k
           /\ \A n \in 1 .. k : SubSeq(q, 1, k)[n] = q[n]
  OBVIOUS

-----------------------------------------------------------------------------
(* Quotient and remainder. *)
LEMMA Division ==
    ASSUME NEW a \in Nat, NEW b \in Nat \ {0}
    PROVE  /\ a \div b \in Nat /\ a % b \in 0 .. b - 1
           /\ a = b * (a \div b) + (a % b)
<1>1. a \div b \in Int /\ a % b \in 0 .. b - 1
  OBVIOUS
<1>2. a = b * (a \div b) + (a % b)
  OBVIOUS
<1>3. a \div b >= 0
  <2> DEFINE q == a \div b
             r == a % b
  <2>1. q \in Int /\ r \in Int /\ r < b /\ a = b * q + r
    BY <1>1, <1>2
  <2> HIDE DEF q, r
  <2>2. SUFFICES ASSUME q <= -1 PROVE FALSE
    BY <2>1 DEF q
  <2>3. b * q <= -b
    BY <2>1, <2>2
  <2>4. b * q \in Int
    BY <2>1
  <2> QED BY <2>1, <2>3, <2>4
<1> QED BY <1>1, <1>2, <1>3

(* A position has a slot. *)
LEMMA RingAtInRing == ASSUME NEW n \in Nat PROVE RingAt(n) \in Ring
  BY BoundedAssumption DEF RingAt, Ring

(* What appending a message to a sequence does. *)
LEMMA ElementsAppend ==
    ASSUME NEW S, NEW q \in Seq(S), NEW m \in S
    PROVE  /\ Append(q, m) \in Seq(S) /\ Len(q) \in Nat /\ Len(Append(q, m)) = Len(q) + 1
           /\ DOMAIN q = 1 .. Len(q) /\ DOMAIN Append(q, m) = 1 .. Len(q) + 1
           /\ \A n \in 1 .. Len(q) : Append(q, m)[n] = q[n]
           /\ Append(q, m)[Len(q) + 1] = m
           /\ Elements(Append(q, m)) = Elements(q) \union {m}
<1> DEFINE r == Append(q, m)
<1>1. /\ r \in Seq(S) /\ Len(q) \in Nat /\ Len(r) = Len(q) + 1
      /\ DOMAIN q = 1 .. Len(q) /\ DOMAIN r = 1 .. Len(q) + 1
      /\ \A n \in 1 .. Len(q) : r[n] = q[n]
      /\ r[Len(q) + 1] = m
  BY AppendFacts, LenFacts
<1> HIDE DEF r
<1>2. {r[n] : n \in DOMAIN r} = {q[n] : n \in DOMAIN q} \union {m}
  <2>1. \A n \in DOMAIN r : (n \in DOMAIN q /\ r[n] = q[n]) \/ r[n] = m
    BY <1>1
  <2>2. \A n \in DOMAIN q : n \in DOMAIN r /\ r[n] = q[n]
    BY <1>1
  <2>3. Len(q) + 1 \in DOMAIN r
    BY <1>1
  <2> QED BY <1>1, <2>1, <2>2, <2>3
<1> QED BY <1>1, <1>2 DEF r, Elements

(* What every step of a handle leaves alone. *)
SenderTurn(s) ==
    /\ Handles' = Handles /\ \A t \in Handles : t # s => snd'[t] = snd[t]
    /\ rcv' = rcv /\ delivered' = delivered

(* A step of a handle changes that handle alone, and keeps the types. *)
LEMMA SenderRestOfType ==
    ASSUME ChannelTypeOK, NEW s \in Handles, Sender(s)
    PROVE  /\ SenderTurn(s)
           /\ SendersAreTyped' /\ ReceiverIsTyped'
<1> USE DEF SendersAreTyped, ReceiverIsTyped, ChannelTypeOK
<1>1. SenderTurn(s) /\ ReceiverIsTyped' /\ DOMAIN snd' = DOMAIN snd /\ \A t \in Handles : t # s => snd'[t] = snd[t]
  BY DEF Sends, Quiet, Sender, Handles, SenderTurn, StartSend, LoadWrite, LoadRead, ClaimSlot, Write,
     Advance, SkipWrite,
         LoadWakerRead, LoadWakerWrite, ClaimWaker, FreeWaker, AdvanceWaker, Wake, SkipWaker, CloneHandle,
         DropHandle, Close, DropLoadRead, DropLoadWrite
<1>2. chan.write \in Nat /\ chan.waker_read \in Nat
  BY DEF ChannelIsTyped
<1>3. ASSUME StartSend(s) \/ LoadWrite(s) \/ LoadWakerRead(s) \/ DropLoadRead(s) \/ Close(s)
      PROVE  DOMAIN snd'[s] = {"pc", "pos", "left", "last"} /\ snd'[s].pos \in Nat /\ snd'[s].left \in Nat
  <2> USE DEF Sends, Quiet, Handles
  <2>1. CASE StartSend(s)
    <3>1. /\ snd'[s] = [snd[s] EXCEPT !.pc = "load_w", !.left = snd[s].left - 1]
          /\ snd[s].left - 1 \in Nat
      BY <2>1 DEF StartSend
    <3> QED BY <3>1
  <2>2. CASE LoadWrite(s)
    BY <1>2, <2>2, Zenon DEF LoadWrite
  <2>3. CASE LoadWakerRead(s)
    BY <1>2, <2>3, Zenon DEF LoadWakerRead
  <2>4. CASE DropLoadRead(s)
    BY <1>2, <2>4, Zenon DEF DropLoadRead
  <2>5. CASE Close(s)
    BY <2>5, Zenon DEF Close
  <2> QED BY <1>3, <2>1, <2>2, <2>3, <2>4, <2>5
<1>4. ASSUME NEW l
      PROVE  DOMAIN Goes(s, l) = {"pc", "pos", "left", "last"} /\ Goes(s, l).pos \in Nat /\ Goes(s, l).left \in Nat
  BY DEF Goes
<1>5. ASSUME ~(StartSend(s) \/ LoadWrite(s) \/ LoadWakerRead(s) \/ DropLoadRead(s) \/ Close(s))
      PROVE  \E l : snd'[s] = Goes(s, l)
  <2>1. ASSUME NEW l, NEW c, Quiet(s, Goes(s, l), c) PROVE snd'[s] = Goes(s, l)
    BY <2>1 DEF Quiet, Sends, Handles
  <2>2. ASSUME Write(s) PROVE snd'[s] = Goes(s, "advance")
    BY <2>2 DEF Write, Sends, Handles
  <2>3. ASSUME LoadRead(s) \/ ClaimSlot(s) \/ Advance(s) \/ SkipWrite(s) PROVE \E l : snd'[s] = Goes(s, l)
    BY <2>1, <2>3 DEF LoadRead, ClaimSlot, Advance, SkipWrite
  <2>4. ASSUME LoadWakerWrite(s) \/ ClaimWaker(s) \/ FreeWaker(s) \/ AdvanceWaker(s)
        PROVE \E l : snd'[s] = Goes(s, l)
    BY <2>1, <2>4 DEF LoadWakerWrite, ClaimWaker, FreeWaker, AdvanceWaker
  <2>5. ASSUME Wake(s) \/ SkipWaker(s) \/ CloneHandle(s) \/ DropHandle(s) \/ DropLoadWrite(s)
        PROVE \E l : snd'[s] = Goes(s, l)
    BY <2>1, <2>5 DEF Wake, SkipWaker, CloneHandle, DropHandle, DropLoadWrite
  <2> QED BY <1>5, <2>2, <2>3, <2>4, <2>5 DEF Sender
<1> QED BY <1>1, <1>3, <1>4, <1>5, Zenon DEF SenderTurn

(* The steps of a handle that do not touch a slot. *)
LEMMA OutsideTheRing ==
    ASSUME ChannelTypeOK, NEW s \in Handles, Sender(s), ~ClaimSlot(s), ~Write(s)
    PROVE  /\ chan'.slot = chan.slot /\ chan'.value = chan.value /\ accepted' = accepted
           /\ ChannelIsTyped'
<1> DEFINE Goal == /\ chan'.slot = chan.slot /\ chan'.value = chan.value /\ accepted' = accepted
                   /\ ChannelIsTyped'
<1>0. Messages' = Messages /\ snd[s].pos \in Nat
  BY SenderRestOfType DEF Messages, SenderTurn, ChannelTypeOK, SendersAreTyped
<1>1. ChannelIsTyped
  BY DEF ChannelTypeOK
<1> USE DEF Quiet, Sends
<1>2. ASSUME \/ StartSend(s) \/ LoadWrite(s) \/ LoadRead(s) \/ LoadWakerRead(s)
             \/ LoadWakerWrite(s) \/ DropLoadRead(s) \/ DropLoadWrite(s)
      PROVE  Goal
  <2>1. chan' = chan /\ accepted' = accepted
    BY <1>2 DEF StartSend, LoadWrite, LoadRead, LoadWakerRead, LoadWakerWrite, DropLoadRead, DropLoadWrite
  <2> QED BY <1>0, <1>1, <2>1 DEF ChannelIsTyped
<1>3. ASSUME Advance(s) \/ SkipWrite(s) PROVE Goal
  <2>1. /\ accepted' = accepted
        /\ chan' = [chan EXCEPT !.write = @ + 1]
           \/ chan' = [chan EXCEPT !.write = IF @ = snd[s].pos THEN @ + 1 ELSE @]
    BY <1>3 DEF Advance, SkipWrite
  <2> QED BY <1>0, <1>1, <2>1 DEF ChannelIsTyped
<1>4. ASSUME AdvanceWaker(s) \/ SkipWaker(s) PROVE Goal
  <2>1. /\ accepted' = accepted
        /\ chan' = [chan EXCEPT !.waker_read = @ + 1]
           \/ chan' = [chan EXCEPT !.waker_read = IF @ = snd[s].pos THEN @ + 1 ELSE @]
    BY <1>4 DEF AdvanceWaker, SkipWaker
  <2> QED BY <1>0, <1>1, <2>1 DEF ChannelIsTyped
<1>5. ASSUME ClaimWaker(s) \/ FreeWaker(s) PROVE Goal
  <2> DEFINE k == RingAt(snd[s].pos)
  <2>1. /\ accepted' = accepted /\ k \in Ring
        /\ \/ chan' = chan \/ chan' = [chan EXCEPT !.waker[k] = 0] \/ chan' = [chan EXCEPT !.waker[k] = 3]
    BY <1>0, <1>5, RingAtInRing DEF ClaimWaker, FreeWaker, Empty, Reading
  <2> HIDE DEF k
  <2> QED BY <1>0, <1>1, <2>1 DEF ChannelIsTyped
<1>6. ASSUME Wake(s) \/ Close(s) PROVE Goal
  <2>1. accepted' = accepted /\ (chan' = [chan EXCEPT !.woken = TRUE] \/ chan' = [chan EXCEPT !.closed = TRUE])
    BY <1>6 DEF Wake, Close
  <2> QED BY <1>0, <1>1, <2>1 DEF ChannelIsTyped
<1>7. ASSUME CloneHandle(s) \/ DropHandle(s) PROVE Goal
  <2>1. accepted' = accepted /\ (chan' = [chan EXCEPT !.count = @ + 1] \/ chan' = [chan EXCEPT !.count = @ - 1])
    BY <1>7 DEF CloneHandle, DropHandle
  <2> QED BY <1>0, <1>1, <2>1 DEF ChannelIsTyped
<1> QED BY <1>2, <1>3, <1>4, <1>5, <1>6, <1>7 DEF Sender

(* try_send takes an empty slot from Empty to Writing, or skips it. *)
LEMMA ClaimEffect ==
    ASSUME ChannelTypeOK, NEW s \in Handles, ClaimSlot(s)
    PROVE  LET k == RingAt(snd[s].pos)
           IN  /\ k \in Ring /\ accepted' = accepted /\ chan'.value = chan.value /\ ChannelIsTyped'
               /\ snd'[s].left = snd[s].left /\ snd[s].pc = "claim"
               /\ \/ /\ chan.slot[k] = Empty /\ chan'.slot = [chan.slot EXCEPT ![k] = Writing]
                     /\ snd'[s].pc = "write" /\ snd'[s].pos = snd[s].pos
                  \/ /\ chan.slot[k] # Empty /\ chan' = chan
                     /\ snd'[s].pc = "skip" /\ snd'[s].pos = snd[s].pos
<1> DEFINE k == RingAt(snd[s].pos)
<1>0. /\ Messages' = Messages /\ k \in Ring /\ s \in DOMAIN snd
      /\ DOMAIN snd[s] = {"pc", "pos", "left", "last"}
  <2>1. Sender(s)
    BY DEF Sender
  <2> QED BY <2>1, SenderRestOfType, RingAtInRing
             DEF Messages, SenderTurn, ChannelTypeOK, SendersAreTyped, Handles
<1>1. ChannelIsTyped
  BY DEF ChannelTypeOK
<1> HIDE DEF k
<1>2. /\ accepted' = accepted /\ snd[s].pc = "claim"
      /\ IF chan.slot[k] = Empty
         THEN snd'[s] = Goes(s, "write") /\ chan' = [chan EXCEPT !.slot[k] = Writing]
         ELSE snd'[s] = Goes(s, "skip") /\ chan' = chan
  BY <1>0 DEF ClaimSlot, Quiet, Sends, At, k
<1>3. ASSUME NEW l \in {"write", "skip"}
      PROVE  Goes(s, l).left = snd[s].left /\ Goes(s, l).pos = snd[s].pos /\ Goes(s, l).pc = l
  BY <1>0 DEF Goes
<1>4. CASE chan.slot[k] = Empty
  <2>1. chan' = [chan EXCEPT !.slot[k] = 1]
    BY <1>2, <1>4 DEF Writing
  <2>2. chan'.slot = [chan.slot EXCEPT ![k] = 1] /\ chan'.value = chan.value /\ ChannelIsTyped'
    BY <1>0, <1>1, <2>1 DEF ChannelIsTyped
  <2> QED BY <1>0, <1>2, <1>3, <1>4, <2>2 DEF k, Writing
<1>5. CASE chan.slot[k] # Empty
  <2>1. chan'.value = chan.value /\ ChannelIsTyped'
    BY <1>0, <1>1, <1>2, <1>5 DEF ChannelIsTyped
  <2> QED BY <1>0, <1>2, <1>3, <1>5, <2>1 DEF k
<1> QED BY <1>4, <1>5

(* try_send writes the message into the slot it claimed, and publishes it. *)
LEMMA WriteEffect ==
    ASSUME ChannelTypeOK, NEW s \in Handles, Write(s)
    PROVE  LET k == RingAt(snd[s].pos)
               m == <<s, snd[s].left>>
           IN  /\ k \in Ring /\ m \in Messages /\ ChannelIsTyped' /\ snd[s].pc = "write"
               /\ accepted' = Append(accepted, m)
               /\ chan'.value = [chan.value EXCEPT ![k] = m] /\ chan'.slot = [chan.slot EXCEPT ![k] = Full]
               /\ snd'[s].pc = "advance" /\ snd'[s].left = snd[s].left
               /\ chan'.write = chan.write /\ chan'.read = chan.read /\ chan'.waker = chan.waker
               /\ chan'.waker_read = chan.waker_read /\ chan'.waker_write = chan.waker_write
               /\ chan'.woken = chan.woken /\ snd'[s].pos = snd[s].pos
<1> DEFINE k == RingAt(snd[s].pos)
           m == <<s, snd[s].left>>
<1>0. /\ Messages' = Messages /\ k \in Ring /\ s \in DOMAIN snd /\ m \in Messages
      /\ DOMAIN snd[s] = {"pc", "pos", "left", "last"}
  <2>1. Sender(s)
    BY DEF Sender
  <2> QED BY <2>1, SenderRestOfType, RingAtInRing, Zenon
             DEF Messages, SenderTurn, ChannelTypeOK, SendersAreTyped, Handles
<1>1. ChannelIsTyped
  BY DEF ChannelTypeOK
<1>2. /\ accepted' = Append(accepted, m) /\ snd[s].pc = "write" /\ snd'[s] = Goes(s, "advance")
      /\ chan' = [chan EXCEPT !.value[k] = m, !.slot[k] = 2]
  BY <1>0 DEF Write, Sends, At, Full
<1>3. snd'[s].pc = "advance" /\ snd'[s].left = snd[s].left /\ snd'[s].pos = snd[s].pos
  BY <1>0, <1>2 DEF Goes
<1> HIDE DEF k, m
<1>4. /\ chan'.value = [chan.value EXCEPT ![k] = m] /\ chan'.slot = [chan.slot EXCEPT ![k] = 2]
      /\ chan'.write = chan.write /\ chan'.read = chan.read /\ chan'.waker = chan.waker
      /\ chan'.waker_read = chan.waker_read /\ chan'.waker_write = chan.waker_write
      /\ chan'.woken = chan.woken
  BY <1>1, <1>2 DEF ChannelIsTyped
<1>5. ChannelIsTyped'
  BY <1>0, <1>1, <1>2 DEF ChannelIsTyped
<1> QED BY <1>0, <1>2, <1>3, <1>4, <1>5 DEF k, m, Full

(* No other step starts a write, and a send is counted when it starts. *)
LEMMA OutsideTheWrite ==
    ASSUME ChannelTypeOK, NEW s \in Handles, Sender(s), ~ClaimSlot(s), ~Write(s)
    PROVE  /\ snd'[s].pc # "write"
           /\ \/ snd'[s].left = snd[s].left /\ (snd'[s].pc \in Sending => snd[s].pc \in Sending)
              \/ snd'[s].left = snd[s].left - 1
<1> DEFINE Goal == /\ snd'[s].pc # "write"
                   /\ \/ snd'[s].left = snd[s].left /\ (snd'[s].pc \in Sending => snd[s].pc \in Sending)
                      \/ snd'[s].left = snd[s].left - 1
<1>1. s \in DOMAIN snd /\ DOMAIN snd[s] = {"pc", "pos", "left", "last"}
  BY DEF ChannelTypeOK, SendersAreTyped, Handles
<1>2. ASSUME NEW l PROVE Goes(s, l).left = snd[s].left /\ Goes(s, l).pc = l
  BY <1>1 DEF Goes
<1> USE DEF Quiet, Sends
<1>3. CASE StartSend(s)
  <2>1. snd'[s] = [snd[s] EXCEPT !.pc = "load_w", !.left = snd[s].left - 1]
    BY <1>1, <1>3 DEF StartSend
  <2> QED BY <1>1, <2>1
<1>4. CASE LoadWrite(s)
  <2>1. snd'[s] = [snd[s] EXCEPT !.pc = "load_r", !.pos = chan.write] /\ snd[s].pc = "load_w"
    BY <1>1, <1>4 DEF LoadWrite, At
  <2> QED BY <1>1, <2>1 DEF Sending
<1>5. CASE LoadWakerRead(s) \/ DropLoadRead(s)
  <2>1. PICK l \in {"wake_w", "drop_w"} : snd'[s] = [snd[s] EXCEPT !.pc = l, !.pos = chan.waker_read]
    BY <1>1, <1>5 DEF LoadWakerRead, DropLoadRead
  <2> QED BY <1>1, <2>1 DEF Sending
<1>6. CASE Close(s)
  <2>1. snd'[s] = [snd[s] EXCEPT !.pc = "drop_r", !.last = TRUE]
    BY <1>1, <1>6 DEF Close
  <2> QED BY <1>1, <2>1 DEF Sending
<1>7. CASE LoadRead(s)
  <2>1. snd[s].pc = "load_r" /\ \E l \in {"claim", "idle"} : snd'[s] = Goes(s, l)
    BY <1>1, <1>7 DEF LoadRead, At
  <2> QED BY <1>2, <2>1 DEF Sending
<1>8. CASE SkipWrite(s)
  <2>1. snd[s].pc = "skip" /\ snd'[s] = Goes(s, "load_w")
    BY <1>1, <1>8 DEF SkipWrite, At
  <2> QED BY <1>2, <2>1 DEF Sending
<1>9. CASE Advance(s) \/ LoadWakerWrite(s) \/ ClaimWaker(s) \/ FreeWaker(s) \/ AdvanceWaker(s)
  <2>1. \E l \in {"wake_r", "drop_r", "idle", "wake_claim", "wake_free", "wake_skip", "wake_advance", "wake"} :
           snd'[s] = Goes(s, l)
    BY <1>1, <1>9 DEF Advance, LoadWakerWrite, ClaimWaker, FreeWaker, AdvanceWaker, AfterWake
  <2> QED BY <1>2, <2>1 DEF Sending
<1>10. CASE Wake(s) \/ SkipWaker(s) \/ CloneHandle(s) \/ DropHandle(s) \/ DropLoadWrite(s)
  <2>1. \E l \in {"idle", "drop_r", "wake_r", "close", "dropped"} : snd'[s] = Goes(s, l)
    BY <1>1, <1>10 DEF Wake, SkipWaker, CloneHandle, DropHandle, DropLoadWrite, AfterWake
  <2> QED BY <1>2, <2>1 DEF Sending
<1> QED BY <1>3, <1>4, <1>5, <1>6, <1>7, <1>8, <1>9, <1>10 DEF Sender

(* A step of a handle keeps the invariant. *)
LEMMA SenderKeepsChannel ==
    ASSUME ChannelInv, NEW s \in Handles, Sender(s)
    PROVE  ChannelInv'
<1> USE DEF ChannelInv
<1>0. /\ SenderTurn(s) /\ SendersAreTyped' /\ ReceiverIsTyped' /\ Handles' = Handles
      /\ Messages' = Messages /\ ChannelTypeOK /\ SendersAreTyped
      /\ \A t \in Handles : t # s => snd'[t] = snd[t]
      /\ rcv' = rcv /\ delivered' = delivered
  BY SenderRestOfType DEF SenderTurn, Messages, ChannelTypeOK
<1>1. ASSUME ChannelIsTyped', accepted' \in Seq(Messages) PROVE ChannelTypeOK'
  BY <1>0, <1>1 DEF ChannelTypeOK
<1>2. CASE ~ClaimSlot(s) /\ ~Write(s)
  <2>1. /\ chan'.slot = chan.slot /\ chan'.value = chan.value /\ accepted' = accepted /\ ChannelIsTyped'
    BY <1>0, <1>2, OutsideTheRing
  <2>2. /\ snd'[s].pc # "write"
        /\ \/ snd'[s].left = snd[s].left /\ (snd'[s].pc \in Sending => snd[s].pc \in Sending)
           \/ snd'[s].left = snd[s].left - 1
    BY <1>0, <1>2, OutsideTheWrite
  <2>3. ChannelTypeOK'
    BY <1>0, <1>1, <2>1 DEF ChannelTypeOK
  <2>4. ClaimsAreOwn'
    BY <1>0, <2>1, <2>2 DEF ClaimsAreOwn, At, RcvAt
  <2>5. MessagesAreFresh'
    <3> SUFFICES ASSUME NEW n \in DOMAIN accepted, NEW t \in Handles, accepted[n][1] = t
                 PROVE  /\ snd'[t].left <= accepted[n][2]
                        /\ snd'[t].pc \in Sending => snd'[t].left < accepted[n][2]
      BY <1>0, <2>1 DEF MessagesAreFresh
    <3>1. /\ snd[t].left <= accepted[n][2]
          /\ snd[t].pc \in Sending => snd[t].left < accepted[n][2]
      BY DEF MessagesAreFresh
    <3>2. accepted[n][2] \in Nat /\ snd[t].left \in Nat
      BY <1>0 DEF ChannelTypeOK, Messages, SendersAreTyped
    <3> QED BY <1>0, <2>2, <3>1, <3>2
  <2>6. Held' = Held
    BY <2>1 DEF Held
  <2>7. PlacesDiffer' /\ NothingIsLost'
    <3>1. PlacesDiffer'
      BY <1>0, <2>1, <2>6 DEF PlacesDiffer
    <3>2. {chan'.value[l] : l \in Held'} = {chan.value[l] : l \in Held}
      BY <2>1, <2>6, Zenon
    <3>3. Elements(delivered)' = Elements(delivered) /\ Elements(accepted)' = Elements(accepted)
      BY <1>0, <2>1 DEF Elements
    <3> QED BY <3>1, <3>2, <3>3, Zenon DEF NothingIsLost
  <2> QED BY <2>3, <2>4, <2>5, <2>7
<1>3. CASE ClaimSlot(s)
  <2> DEFINE k == RingAt(snd[s].pos)
  <2>1. /\ k \in Ring /\ accepted' = accepted /\ chan'.value = chan.value /\ ChannelIsTyped'
        /\ snd'[s].left = snd[s].left /\ snd[s].pc = "claim"
        /\ \/ /\ chan.slot[k] = Empty /\ chan'.slot = [chan.slot EXCEPT ![k] = Writing]
              /\ snd'[s].pc = "write" /\ snd'[s].pos = snd[s].pos
           \/ /\ chan.slot[k] # Empty /\ chan' = chan
              /\ snd'[s].pc = "skip" /\ snd'[s].pos = snd[s].pos
    BY <1>0, <1>3, ClaimEffect
  <2>2. DOMAIN chan.slot = Ring
    BY DEF ChannelTypeOK, ChannelIsTyped
  <2>3. ASSUME NEW t \in Handles PROVE RingAt(snd[t].pos) \in Ring
    BY <1>0, RingAtInRing DEF SendersAreTyped
  <2>4. RingAt(rcv.pos) \in Ring
    BY RingAtInRing, Zenon DEF ChannelTypeOK, ReceiverIsTyped
  <2>5. ChannelTypeOK'
    BY <1>0, <1>1, <2>1, Zenon DEF ChannelTypeOK
  <2>6. MessagesAreFresh'
    BY <1>0, <2>1 DEF MessagesAreFresh, Sending
  <2>7. Held' = Held
    BY <2>1, <2>2 DEF Held, Empty, Writing, Full, Reading
  <2>8. PlacesDiffer' /\ NothingIsLost'
    <3>1. PlacesDiffer'
      BY <1>0, <2>1, <2>7 DEF PlacesDiffer
    <3>2. {chan'.value[l] : l \in Held'} = {chan.value[l] : l \in Held}
      BY <2>1, <2>7, Zenon
    <3>3. Elements(delivered)' = Elements(delivered) /\ Elements(accepted)' = Elements(accepted)
      BY <1>0, <2>1, Zenon DEF Elements
    <3> QED BY <3>1, <3>2, <3>3 DEF NothingIsLost
  <2>9. ClaimsAreOwn'
    <3>1. CASE chan' = chan /\ snd'[s].pc = "skip"
      BY <1>0, <3>1 DEF ClaimsAreOwn, At, RcvAt
    <3>2. CASE /\ chan.slot[k] = Empty /\ chan'.slot = [chan.slot EXCEPT ![k] = Writing]
               /\ snd'[s].pc = "write" /\ snd'[s].pos = snd[s].pos
      <4>1. \A t \in Handles : t # s /\ snd[t].pc = "write" => RingAt(snd[t].pos) # k
        BY <3>2 DEF ClaimsAreOwn, At, Empty, Writing
      <4>2. RcvAt("free") => RingAt(rcv.pos) # k
        BY <3>2 DEF ClaimsAreOwn, Empty, Reading
      <4> HIDE DEF k
      <4>3. ASSUME NEW t \in Handles, snd'[t].pc = "write" PROVE chan'.slot[RingAt(snd'[t].pos)] = Writing
        <5>1. CASE t = s
          BY <2>1, <2>2, <3>2, <5>1, Zenon DEF k
        <5>2. CASE t # s
          BY <1>0, <2>2, <2>3, <3>2, <4>1, <4>3, <5>2 DEF ClaimsAreOwn, At
        <5> QED BY <5>1, <5>2
      <4>4. ASSUME NEW t \in Handles, NEW u \in Handles, t # u, snd'[t].pc = "write", snd'[u].pc = "write"
            PROVE  RingAt(snd'[t].pos) # RingAt(snd'[u].pos)
        BY <1>0, <3>2, <4>1, <4>4 DEF ClaimsAreOwn, At, k
      <4>5. RcvAt("free") => chan'.slot[RingAt(rcv.pos)] = Reading
        BY <2>2, <2>4, <3>2, <4>2 DEF ClaimsAreOwn
      <4> QED BY <1>0, <4>3, <4>4, <4>5, Zenon DEF ClaimsAreOwn, At, RcvAt
    <3> QED BY <2>1, <3>1, <3>2, Zenon
  <2> QED BY <2>5, <2>6, <2>8, <2>9, Zenon
<1>4. CASE Write(s)
  <2> DEFINE k == RingAt(snd[s].pos)
             m == <<s, snd[s].left>>
  <2>1. /\ k \in Ring /\ m \in Messages /\ ChannelIsTyped' /\ snd[s].pc = "write"
        /\ accepted' = Append(accepted, m)
        /\ chan'.value = [chan.value EXCEPT ![k] = m] /\ chan'.slot = [chan.slot EXCEPT ![k] = Full]
        /\ snd'[s].pc = "advance" /\ snd'[s].left = snd[s].left
    BY <1>0, <1>4, WriteEffect
  <2>2. DOMAIN chan.slot = Ring /\ DOMAIN chan.value = Ring /\ accepted \in Seq(Messages)
    BY DEF ChannelTypeOK, ChannelIsTyped
  <2>3. /\ accepted' \in Seq(Messages) /\ Len(accepted') = Len(accepted) + 1 /\ Len(accepted) \in Nat
        /\ DOMAIN accepted = 1 .. Len(accepted) /\ DOMAIN accepted' = 1 .. Len(accepted) + 1
        /\ \A n \in 1 .. Len(accepted) : accepted'[n] = accepted[n]
        /\ accepted'[Len(accepted) + 1] = m
        /\ Elements(accepted') = Elements(accepted) \union {m}
    <3> HIDE DEF m
    <3>1. /\ Append(accepted, m) \in Seq(Messages) /\ Len(Append(accepted, m)) = Len(accepted) + 1
          /\ Len(accepted) \in Nat
          /\ DOMAIN accepted = 1 .. Len(accepted) /\ DOMAIN Append(accepted, m) = 1 .. Len(accepted) + 1
          /\ \A n \in 1 .. Len(accepted) : Append(accepted, m)[n] = accepted[n]
          /\ Append(accepted, m)[Len(accepted) + 1] = m
          /\ Elements(Append(accepted, m)) = Elements(accepted) \union {m}
      BY <2>1, <2>2, ElementsAppend
    <3> QED BY <2>1, <3>1, Zenon
  <2>4. chan.slot[k] = Writing
    BY <2>1 DEF ClaimsAreOwn, At
  <2>5. m \notin Elements(accepted)
    <3>1. SUFFICES ASSUME NEW n \in DOMAIN accepted, accepted[n] = m PROVE FALSE
      BY DEF Elements
    <3>2. accepted[n][1] = s /\ accepted[n][2] = snd[s].left
      BY <3>1
    <3>3. snd[s].left < accepted[n][2]
      BY <2>1, <3>2 DEF MessagesAreFresh, Sending
    <3>4. snd[s].left \in Nat
      BY <1>0 DEF SendersAreTyped
    <3> QED BY <3>2, <3>3, <3>4
  <2>6. Elements(accepted)' = Elements(accepted) \union {m}
    BY <2>3, Zenon DEF Elements
  <2>7. ChannelTypeOK'
    BY <1>0, <1>1, <2>1, <2>3 DEF ChannelTypeOK
  <2>8. MessagesAreFresh'
    <3> SUFFICES ASSUME NEW n \in 1 .. Len(accepted) + 1, NEW t \in Handles, accepted'[n][1] = t
                 PROVE  /\ snd'[t].left <= accepted'[n][2]
                        /\ snd'[t].pc \in Sending => snd'[t].left < accepted'[n][2]
      BY <1>0, <2>3 DEF MessagesAreFresh
    <3>1. CASE n = Len(accepted) + 1
      <4>1. t = s /\ accepted'[n][2] = snd[s].left
        BY <2>3, <3>1
      <4>2. snd[s].left \in Nat
        BY <1>0, Zenon DEF SendersAreTyped
      <4> QED BY <2>1, <4>1, <4>2 DEF Sending
    <3>2. CASE n # Len(accepted) + 1
      <4>1. n \in DOMAIN accepted /\ accepted'[n] = accepted[n]
        BY <2>3, <3>2
      <4>2. /\ snd[t].left <= accepted[n][2]
            /\ snd[t].pc \in Sending => snd[t].left < accepted[n][2]
        BY <4>1 DEF MessagesAreFresh
      <4> QED BY <1>0, <2>1, <4>1, <4>2 DEF Sending
    <3> QED BY <3>1, <3>2
  <2> HIDE DEF k, m
  <2>9. Held' = Held \union {k} /\ k \notin Held
    BY <2>1, <2>2, <2>4 DEF Held, Empty, Writing, Full, Reading
  <2>10. chan'.value[k] = m /\ \A l \in Held : chan'.value[l] = chan.value[l]
    BY <2>1, <2>2, <2>9 DEF Held
  <2>11. (\A l \in Held : chan.value[l] # m) /\ \A i \in DOMAIN delivered : delivered[i] # m
    BY <2>5, Zenon DEF NothingIsLost, Elements
  <2>12. PlacesDiffer'
    BY <1>0, <2>9, <2>10, <2>11 DEF PlacesDiffer
  <2>13. NothingIsLost'
    <3>1. {chan'.value[l] : l \in Held'} = {chan.value[l] : l \in Held} \union {m}
      BY <2>9, <2>10
    <3>2. Elements(delivered)' = Elements(delivered)
      BY <1>0 DEF Elements
    <3> QED BY <2>6, <3>1, <3>2 DEF NothingIsLost
  <2>14. ClaimsAreOwn'
    <3>1. \A t \in Handles : t # s /\ snd[t].pc = "write" => RingAt(snd[t].pos) # k
      BY <2>1 DEF ClaimsAreOwn, At, k
    <3>2. RcvAt("free") => RingAt(rcv.pos) # k
      BY <2>4 DEF ClaimsAreOwn, Writing, Reading
    <3>3. ASSUME NEW t \in Handles PROVE RingAt(snd[t].pos) \in Ring
      BY <1>0, RingAtInRing DEF SendersAreTyped
    <3>4. RingAt(rcv.pos) \in Ring
      BY RingAtInRing DEF ChannelTypeOK, ReceiverIsTyped
    <3> QED BY <1>0, <2>1, <2>2, <3>1, <3>2, <3>3, <3>4 DEF ClaimsAreOwn, At, RcvAt
  <2> QED BY <2>7, <2>8, <2>12, <2>13, <2>14, Zenon
<1> QED BY <1>2, <1>3, <1>4

(* What every step of the receiver leaves alone. *)
LEMMA ReceiverFrame ==
    ASSUME Receiver
    PROVE  snd' = snd /\ accepted' = accepted /\ Handles' = Handles /\ Messages' = Messages
  BY DEF Receiver, Receives, Still, RecvLoadRead, RecvLoadWrite, RecvClaim, RecvFree, RecvAdvance, RecvSkip,
         RecvIsClosed, RegisterLoad, RegisterClaim, RegisterWrite, RegisterAdvance, RegisterSkip, PollAgain,
         Handles, Messages

(* The steps of the receiver that do not touch a slot. *)
LEMMA ReceiverOutsideTheRing ==
    ASSUME ChannelTypeOK, Receiver, ~RecvClaim, ~RecvFree
    PROVE  /\ chan'.slot = chan.slot /\ chan'.value = chan.value /\ delivered' = delivered
           /\ ChannelIsTyped' /\ ReceiverIsTyped' /\ rcv'.pc # "free"
<1> DEFINE Goal == /\ chan'.slot = chan.slot /\ chan'.value = chan.value /\ delivered' = delivered
                   /\ ChannelIsTyped' /\ ReceiverIsTyped' /\ rcv'.pc # "free"
<1>0. Messages' = Messages /\ rcv.pos \in Nat /\ chan.read \in Nat /\ chan.waker_write \in Nat
  BY ReceiverFrame DEF ChannelTypeOK, ReceiverIsTyped, ChannelIsTyped
<1>1. ChannelIsTyped /\ ReceiverIsTyped
  BY DEF ChannelTypeOK
<1> USE DEF Still, Receives
<1>2. ASSUME chan' = chan PROVE chan'.slot = chan.slot /\ chan'.value = chan.value /\ ChannelIsTyped'
  BY <1>0, <1>1, <1>2 DEF ChannelIsTyped
<1>3. ASSUME NEW l, rcv' = RcvGoes(l), l # "free" PROVE ReceiverIsTyped' /\ rcv'.pc # "free"
  BY <1>1, <1>3 DEF ReceiverIsTyped, RcvGoes
<1>4. CASE RecvLoadRead
  <2>1. chan' = chan /\ delivered' = delivered /\ rcv' = [rcv EXCEPT !.pc = "write", !.pos = chan.read]
    BY <1>4 DEF RecvLoadRead
  <2>2. ReceiverIsTyped' /\ rcv'.pc # "free"
    BY <1>0, <1>1, <2>1 DEF ReceiverIsTyped
  <2> QED BY <1>2, <2>1, <2>2
<1>5. CASE RecvLoadWrite \/ RecvIsClosed
  <2>1. /\ chan' = chan /\ delivered' = delivered
        /\ \E l \in {"is_closed", "claim", "none", "pending", "register"} : rcv' = RcvGoes(l)
    BY <1>5 DEF RecvLoadWrite, RecvIsClosed
  <2> QED BY <1>2, <1>3, <2>1
<1>6. CASE RecvAdvance
  <2>1. chan' = [chan EXCEPT !.read = @ + 1] /\ delivered' = delivered /\ rcv' = NewPoll
    BY <1>6 DEF RecvAdvance
  <2>2. chan'.slot = chan.slot /\ chan'.value = chan.value /\ ChannelIsTyped'
    BY <1>0, <1>1, <2>1 DEF ChannelIsTyped
  <2>3. ReceiverIsTyped' /\ rcv'.pc # "free"
    BY <2>1 DEF ReceiverIsTyped, NewPoll
  <2> QED BY <2>1, <2>2, <2>3
<1>7. CASE RecvSkip
  <2>1. /\ chan' = [chan EXCEPT !.read = IF @ = rcv.pos THEN @ + 1 ELSE @]
        /\ delivered' = delivered /\ rcv' = RcvGoes("read")
    BY <1>7 DEF RecvSkip
  <2>2. chan'.slot = chan.slot /\ chan'.value = chan.value /\ ChannelIsTyped'
    BY <1>0, <1>1, <2>1 DEF ChannelIsTyped
  <2> QED BY <1>3, <2>1, <2>2
<1>8. CASE RegisterLoad
  <2>1. /\ chan' = chan /\ delivered' = delivered
        /\ \/ rcv' = [rcv EXCEPT !.pc = "read", !.second = TRUE]
           \/ rcv' = [rcv EXCEPT !.pc = "reg_claim", !.pos = chan.waker_write]
    BY <1>8 DEF RegisterLoad
  <2>2. ReceiverIsTyped' /\ rcv'.pc # "free"
    BY <1>0, <1>1, <2>1, Zenon DEF ReceiverIsTyped
  <2> QED BY <1>2, <2>1, <2>2
<1>9. CASE RegisterClaim \/ RegisterWrite
  <2> DEFINE k == RingAt(rcv.pos)
  <2>1. /\ delivered' = delivered /\ k \in Ring
        /\ \/ chan' = [chan EXCEPT !.waker[k] = 1] \/ chan' = [chan EXCEPT !.waker[k] = 2] \/ chan' = chan
        /\ \E l \in {"reg_write", "reg_skip", "reg_advance"} : rcv' = RcvGoes(l)
    BY <1>0, <1>9, RingAtInRing DEF RegisterClaim, RegisterWrite, Writing, Full
  <2> HIDE DEF k
  <2>2. chan'.slot = chan.slot /\ chan'.value = chan.value /\ ChannelIsTyped'
    BY <1>0, <1>1, <2>1 DEF ChannelIsTyped
  <2> QED BY <1>3, <2>1, <2>2
<1>10. CASE RegisterAdvance \/ RegisterSkip
  <2>1. /\ delivered' = delivered
        /\ \/ chan' = [chan EXCEPT !.waker_write = @ + 1]
           \/ chan' = [chan EXCEPT !.waker_write = IF @ = rcv.pos THEN @ + 1 ELSE @]
        /\ \/ rcv' = [rcv EXCEPT !.pc = "read", !.second = TRUE]
           \/ rcv' = [rcv EXCEPT !.pc = "register", !.attempts = @ + 1]
    BY <1>10 DEF RegisterAdvance, RegisterSkip
  <2>2. ReceiverIsTyped' /\ rcv'.pc # "free"
    <3>1. CASE rcv' = [rcv EXCEPT !.pc = "read", !.second = TRUE]
      BY <1>1, <3>1 DEF ReceiverIsTyped
    <3>2. CASE rcv' = [rcv EXCEPT !.pc = "register", !.attempts = @ + 1]
      BY <1>1, <3>2 DEF ReceiverIsTyped
    <3> QED BY <2>1, <3>1, <3>2
  <2>3. chan'.slot = chan.slot /\ chan'.value = chan.value /\ ChannelIsTyped'
    BY <1>0, <1>1, <2>1 DEF ChannelIsTyped
  <2> QED BY <2>1, <2>2, <2>3
<1>11. CASE PollAgain
  <2>1. chan' = [chan EXCEPT !.woken = FALSE] /\ delivered' = delivered /\ rcv' = NewPoll
    BY <1>11 DEF PollAgain
  <2>2. chan'.slot = chan.slot /\ chan'.value = chan.value /\ ChannelIsTyped'
    BY <1>0, <1>1, <2>1 DEF ChannelIsTyped
  <2>3. ReceiverIsTyped' /\ rcv'.pc # "free"
    BY <2>1 DEF ReceiverIsTyped, NewPoll
  <2> QED BY <2>1, <2>2, <2>3
<1> QED BY <1>4, <1>5, <1>6, <1>7, <1>8, <1>9, <1>10, <1>11 DEF Receiver

(* try_recv takes a slot from Full to Reading, or skips it. *)
LEMMA RecvClaimEffect ==
    ASSUME ChannelTypeOK, RecvClaim
    PROVE  LET k == RingAt(rcv.pos)
           IN  /\ k \in Ring /\ delivered' = delivered /\ chan'.value = chan.value
               /\ ChannelIsTyped' /\ ReceiverIsTyped' /\ rcv'.pos = rcv.pos /\ rcv.pc = "claim"
               /\ rcv'.second = rcv.second /\ rcv'.attempts = rcv.attempts
               /\ \/ /\ chan.slot[k] = Full /\ rcv'.pc = "free"
                     /\ chan' = [chan EXCEPT !.slot = [chan.slot EXCEPT ![k] = Reading]]
                  \/ chan.slot[k] # Full /\ chan' = chan /\ rcv'.pc = "skip"
<1> DEFINE k == RingAt(rcv.pos)
<1>0. Messages' = Messages /\ k \in Ring /\ Receiver /\ ChannelIsTyped /\ ReceiverIsTyped
  BY ReceiverFrame, RingAtInRing DEF ChannelTypeOK, ReceiverIsTyped, Receiver
<1> HIDE DEF k
<1>1. /\ rcv.pc = "claim" /\ delivered' = delivered
      /\ IF chan.slot[k] = Full
         THEN rcv' = RcvGoes("free") /\ chan' = [chan EXCEPT !.slot[k] = Reading]
         ELSE rcv' = RcvGoes("skip") /\ chan' = chan
  BY DEF RecvClaim, Still, Receives, RcvAt, k
<1>2. ASSUME NEW l
      PROVE  RcvGoes(l).pc = l /\ RcvGoes(l).pos = rcv.pos /\ RcvGoes(l).second = rcv.second
             /\ RcvGoes(l).attempts = rcv.attempts
             /\ DOMAIN RcvGoes(l) = DOMAIN rcv
  BY <1>0 DEF RcvGoes, ReceiverIsTyped
<1>3. ReceiverIsTyped' /\ rcv'.pos = rcv.pos /\ rcv'.second = rcv.second /\ rcv'.attempts = rcv.attempts
  BY <1>0, <1>1, <1>2 DEF ReceiverIsTyped
<1>4. CASE chan.slot[k] = Full
  <2>1. chan' = [chan EXCEPT !.slot[k] = 3]
    BY <1>1, <1>4 DEF Reading
  <2>2. chan'.value = chan.value /\ ChannelIsTyped'
    BY <1>0, <2>1 DEF ChannelIsTyped
  <2>3. chan' = [chan EXCEPT !.slot = [chan.slot EXCEPT ![k] = Reading]]
    BY <2>1 DEF Reading
  <2> QED BY <1>0, <1>1, <1>2, <1>3, <1>4, <2>2, <2>3 DEF k
<1>5. CASE chan.slot[k] # Full
  <2>1. chan'.value = chan.value /\ ChannelIsTyped'
    BY <1>0, <1>1, <1>5 DEF ChannelIsTyped
  <2> QED BY <1>0, <1>1, <1>2, <1>3, <1>5, <2>1 DEF k
<1> QED BY <1>4, <1>5

(* try_recv takes the message out and frees the slot. *)
LEMMA RecvFreeEffect ==
    ASSUME ChannelTypeOK, RecvFree
    PROVE  LET k == RingAt(rcv.pos)
           IN  /\ k \in Ring /\ ChannelIsTyped' /\ ReceiverIsTyped' /\ rcv.pc = "free" /\ rcv'.pc = "advance"
               /\ rcv'.pos = rcv.pos /\ rcv'.second = rcv.second /\ rcv'.attempts = rcv.attempts
               /\ delivered' = Append(delivered, chan.value[k]) /\ chan.value[k] \in Messages \union {<<>>}
               /\ chan'.slot = [chan.slot EXCEPT ![k] = Empty] /\ chan'.value = [chan.value EXCEPT ![k] = <<>>]
               /\ chan'.write = chan.write /\ chan'.read = chan.read /\ chan'.waker = chan.waker
               /\ chan'.waker_read = chan.waker_read /\ chan'.waker_write = chan.waker_write
               /\ chan'.woken = chan.woken
<1> DEFINE k == RingAt(rcv.pos)
<1>0. Messages' = Messages /\ k \in Ring /\ Receiver /\ ChannelIsTyped /\ ReceiverIsTyped
  BY ReceiverFrame, RingAtInRing DEF ChannelTypeOK, ReceiverIsTyped, Receiver
<1> HIDE DEF k
<1>1. /\ rcv.pc = "free" /\ delivered' = Append(delivered, chan.value[k])
      /\ rcv' = RcvGoes("advance") /\ chan' = [chan EXCEPT !.slot[k] = 0, !.value[k] = <<>>]
  BY DEF RecvFree, Receives, RcvAt, k, Empty
<1>2. /\ rcv'.pc = "advance" /\ rcv'.pos = rcv.pos /\ rcv'.second = rcv.second /\ rcv'.attempts = rcv.attempts
      /\ ReceiverIsTyped'
  BY <1>0, <1>1 DEF RcvGoes, ReceiverIsTyped
<1>3. /\ chan'.slot = [chan.slot EXCEPT ![k] = 0] /\ chan'.value = [chan.value EXCEPT ![k] = <<>>]
      /\ chan'.write = chan.write /\ chan'.read = chan.read /\ chan'.waker = chan.waker
      /\ chan'.waker_read = chan.waker_read /\ chan'.waker_write = chan.waker_write
      /\ chan'.woken = chan.woken
  BY <1>0, <1>1 DEF ChannelIsTyped
<1>4. ChannelIsTyped' /\ chan.value[k] \in Messages \union {<<>>}
  BY <1>0, <1>1 DEF ChannelIsTyped
<1> QED BY <1>0, <1>1, <1>2, <1>3, <1>4 DEF k, Empty

(* A step of the receiver keeps the invariant. *)
LEMMA ReceiverKeepsChannel == ASSUME ChannelInv, Receiver PROVE ChannelInv'
<1> USE DEF ChannelInv
<1>0. /\ snd' = snd /\ accepted' = accepted /\ Handles' = Handles /\ Messages' = Messages
      /\ ChannelTypeOK /\ ChannelIsTyped /\ ReceiverIsTyped /\ SendersAreTyped
      /\ Elements(accepted') = Elements(accepted)
  BY ReceiverFrame DEF ChannelTypeOK
<1>1. ASSUME ChannelIsTyped', ReceiverIsTyped', delivered' \in Seq(Messages \union {<<>>}) PROVE ChannelTypeOK'
  BY <1>0, <1>1 DEF ChannelTypeOK, SendersAreTyped
<1>2. MessagesAreFresh'
  BY <1>0 DEF MessagesAreFresh
<1>3. ASSUME NEW t \in Handles PROVE RingAt(snd[t].pos) \in Ring
  BY <1>0, RingAtInRing DEF SendersAreTyped
<1>4. DOMAIN chan.slot = Ring /\ DOMAIN chan.value = Ring
  BY <1>0 DEF ChannelIsTyped
<1>5. CASE ~RecvClaim /\ ~RecvFree
  <2>1. /\ chan'.slot = chan.slot /\ chan'.value = chan.value /\ delivered' = delivered
        /\ ChannelIsTyped' /\ ReceiverIsTyped' /\ rcv'.pc # "free"
    BY <1>0, <1>5, ReceiverOutsideTheRing
  <2>2. Held' = Held
    BY <2>1 DEF Held
  <2>3. ClaimsAreOwn'
    BY <1>0, <2>1 DEF ClaimsAreOwn, At, RcvAt
  <2>4. PlacesDiffer'
    BY <2>1, <2>2 DEF PlacesDiffer
  <2>5. NothingIsLost'
    <3>1. {chan'.value[l] : l \in Held'} = {chan.value[l] : l \in Held}
      BY <2>1, <2>2
    <3>2. Elements(delivered') = Elements(delivered)
      BY <2>1
    <3> QED BY <1>0, <3>1, <3>2, Zenon DEF NothingIsLost, Elements
  <2>6. ChannelTypeOK'
    BY <1>0, <1>1, <2>1 DEF ChannelTypeOK
  <2> QED BY <1>2, <2>3, <2>4, <2>5, <2>6
<1>6. CASE RecvClaim
  <2> DEFINE k == RingAt(rcv.pos)
  <2>1. /\ k \in Ring /\ delivered' = delivered /\ chan'.value = chan.value
        /\ ChannelIsTyped' /\ ReceiverIsTyped' /\ rcv'.pos = rcv.pos /\ rcv.pc = "claim"
        /\ \/ /\ chan.slot[k] = Full /\ rcv'.pc = "free"
              /\ chan' = [chan EXCEPT !.slot = [chan.slot EXCEPT ![k] = Reading]]
           \/ chan.slot[k] # Full /\ chan' = chan /\ rcv'.pc = "skip"
    BY <1>0, <1>6, RecvClaimEffect
  <2>2. \/ /\ chan.slot[k] = Full /\ rcv'.pc = "free" /\ chan'.slot = [chan.slot EXCEPT ![k] = Reading]
        \/ chan'.slot = chan.slot /\ rcv'.pc = "skip"
    <3> HIDE DEF k
    <3> QED BY <1>0, <2>1 DEF ChannelIsTyped
  <2> HIDE DEF k
  <2>3. Held' = Held
    BY <1>4, <2>1, <2>2 DEF Held, Full, Reading
  <2>4. ClaimsAreOwn'
    <3>1. chan.slot[k] = Full => \A t \in Handles : snd[t].pc = "write" => RingAt(snd[t].pos) # k
      BY DEF ClaimsAreOwn, At, Full, Writing
    <3> QED BY <1>0, <1>3, <1>4, <2>1, <2>2, <3>1 DEF ClaimsAreOwn, At, RcvAt, k
  <2>5. PlacesDiffer'
    BY <2>1, <2>3 DEF PlacesDiffer
  <2>6. NothingIsLost'
    <3>1. {chan'.value[l] : l \in Held'} = {chan.value[l] : l \in Held}
      BY <2>1, <2>3
    <3>2. Elements(delivered') = Elements(delivered)
      BY <2>1
    <3> QED BY <1>0, <3>1, <3>2, Zenon DEF NothingIsLost, Elements
  <2>7. ChannelTypeOK'
    BY <1>0, <1>1, <2>1 DEF ChannelTypeOK
  <2> QED BY <1>2, <2>4, <2>5, <2>6, <2>7
<1>7. CASE RecvFree
  <2> DEFINE k == RingAt(rcv.pos)
             v == chan.value[k]
  <2>1. /\ k \in Ring /\ ChannelIsTyped' /\ ReceiverIsTyped' /\ rcv.pc = "free" /\ rcv'.pc = "advance"
        /\ delivered' = Append(delivered, v) /\ v \in Messages \union {<<>>}
        /\ chan'.slot = [chan.slot EXCEPT ![k] = Empty] /\ chan'.value = [chan.value EXCEPT ![k] = <<>>]
    BY <1>0, <1>7, RecvFreeEffect
  <2>2. chan.slot[k] = Reading
    BY <2>1 DEF ClaimsAreOwn, RcvAt
  <2> HIDE DEF k
  <2>3. k \in Held /\ Held' = Held \ {k}
    BY <1>4, <2>1, <2>2 DEF Held, Empty, Full, Reading
  <2>4. \A l \in Held' : chan'.value[l] = chan.value[l] /\ chan.value[l] # v
    BY <1>4, <2>1, <2>3 DEF Held, PlacesDiffer
  <2>5. \A i \in DOMAIN delivered : delivered[i] # v
    BY <2>3 DEF PlacesDiffer
  <2>6. {chan'.value[l] : l \in Held'} = {chan.value[l] : l \in Held} \ {v}
    BY <2>3, <2>4
  <2>7. v \in {chan.value[l] : l \in Held}
    BY <2>3
  <2> HIDE DEF v
  <2>8. delivered \in Seq(Messages \union {<<>>})
    BY <1>0 DEF ChannelTypeOK
  <2>9. /\ Append(delivered, v) \in Seq(Messages \union {<<>>}) /\ Len(delivered) \in Nat
        /\ DOMAIN delivered = 1 .. Len(delivered) /\ DOMAIN Append(delivered, v) = 1 .. Len(delivered) + 1
        /\ \A n \in 1 .. Len(delivered) : Append(delivered, v)[n] = delivered[n]
        /\ Append(delivered, v)[Len(delivered) + 1] = v
        /\ Elements(Append(delivered, v)) = Elements(delivered) \union {v}
    BY <2>1, <2>8, ElementsAppend
  <2>10. /\ delivered' \in Seq(Messages \union {<<>>})
         /\ DOMAIN delivered' = 1 .. Len(delivered) + 1
         /\ \A n \in 1 .. Len(delivered) : delivered'[n] = delivered[n]
         /\ delivered'[Len(delivered) + 1] = v
         /\ Elements(delivered') = Elements(delivered) \union {v}
    BY <2>1, <2>9, Zenon
  <2>11. ChannelTypeOK'
    BY <1>0, <1>1, <2>1, <2>10
  <2>12. ClaimsAreOwn'
    <3>1. \A t \in Handles : snd[t].pc = "write" => RingAt(snd[t].pos) # k
      BY <2>2 DEF ClaimsAreOwn, At, Reading, Writing
    <3> QED BY <1>0, <1>3, <1>4, <2>1, <3>1 DEF ClaimsAreOwn, At, RcvAt
  <2>13. PlacesDiffer'
    <3>1. ASSUME NEW i \in DOMAIN delivered', NEW j \in DOMAIN delivered', delivered'[i] = delivered'[j]
          PROVE  i = j
      BY <2>5, <2>9, <2>10, <3>1 DEF PlacesDiffer
    <3>2. \A l, l2 \in Held' : chan'.value[l] = chan'.value[l2] => l = l2
      BY <2>3, <2>4 DEF PlacesDiffer
    <3>3. ASSUME NEW l \in Held', NEW i \in DOMAIN delivered' PROVE chan'.value[l] # delivered'[i]
      BY <2>3, <2>4, <2>9, <2>10 DEF PlacesDiffer
    <3> QED BY <3>1, <3>2, <3>3 DEF PlacesDiffer
  <2>14. NothingIsLost'
    <3>1. {chan'.value[l] : l \in Held'} \union Elements(delivered')
            = {chan.value[l] : l \in Held} \union Elements(delivered)
      BY <2>6, <2>7, <2>10
    <3> QED BY <1>0, <3>1, Zenon DEF NothingIsLost, Elements
  <2> QED BY <1>2, <2>11, <2>12, <2>13, <2>14
<1> QED BY <1>5, <1>6, <1>7

(* A new channel satisfies the invariant. *)
LEMMA ChannelStart == ASSUME BoundedInit PROVE ChannelInv
<1>1. PICK script \in Scripts : BoundedRest(script)
  BY DEF BoundedInit
<1>2. Handles = DOMAIN script /\ Maker \in Handles /\ \A s \in Handles : script[s] \in Nat
  BY <1>1, BoundedAssumption DEF BoundedRest, Handles
<1>3. SendersAreTyped /\ \A s \in Handles : snd[s].pc # "write"
  BY <1>1, <1>2, Zenon DEF BoundedRest, SendersAreTyped
<1>4. ChannelIsTyped /\ Held = {}
  BY <1>1 DEF BoundedRest, NewChannel, ChannelIsTyped, Held, Empty, Full, Reading
<1>5. ReceiverIsTyped /\ rcv.pc # "free"
  BY <1>1 DEF BoundedRest, NewPoll, ReceiverIsTyped
<1>6. accepted = <<>> /\ delivered = <<>>
  BY <1>1 DEF BoundedRest
<1>7. ChannelTypeOK
  BY <1>2, <1>3, <1>4, <1>5, <1>6 DEF ChannelTypeOK
<1>8. ClaimsAreOwn
  BY <1>3, <1>5 DEF ClaimsAreOwn, At, RcvAt
<1>9. Elements(accepted) = {} /\ Elements(delivered) = {}
  BY <1>6 DEF Elements
<1>10. MessagesAreFresh /\ PlacesDiffer /\ NothingIsLost
  BY <1>4, <1>6, <1>9 DEF MessagesAreFresh, PlacesDiffer, NothingIsLost
<1> QED BY <1>7, <1>8, <1>10 DEF ChannelInv

(* Every step keeps the invariant. *)
LEMMA ChannelStep == ASSUME ChannelInv, [BoundedNext]_bVars PROVE ChannelInv'
<1>1. ASSUME NEW s \in DOMAIN snd, Sender(s) PROVE ChannelInv'
  BY <1>1, SenderKeepsChannel DEF Handles
<1>2. CASE UNCHANGED bVars
  <2>1. snd' = snd /\ chan' = chan /\ rcv' = rcv /\ accepted' = accepted /\ delivered' = delivered
    BY <1>2 DEF bVars
  <2>2. Handles' = Handles /\ Messages' = Messages /\ Held' = Held
    BY <2>1, Zenon DEF Handles, Messages, Held
  <2>3. ChannelTypeOK'
    BY <2>1, <2>2, Zenon DEF ChannelInv, ChannelTypeOK, SendersAreTyped, ChannelIsTyped, ReceiverIsTyped
  <2>4. ClaimsAreOwn' /\ MessagesAreFresh'
    BY <2>1, <2>2 DEF ChannelInv, ClaimsAreOwn, MessagesAreFresh, At, RcvAt
  <2>5. PlacesDiffer'
    BY <2>1, <2>2 DEF ChannelInv, PlacesDiffer
  <2>6. {chan'.value[l] : l \in Held'} = {chan.value[l] : l \in Held}
    BY <2>1, <2>2
  <2>7. NothingIsLost'
    <3>1. Elements(delivered)' = Elements(delivered) /\ Elements(accepted)' = Elements(accepted)
      BY <2>1 DEF Elements
    <3> QED BY <2>6, <3>1 DEF ChannelInv, NothingIsLost
  <2> QED BY <2>3, <2>4, <2>5, <2>7 DEF ChannelInv
<1> QED BY <1>1, <1>2, ReceiverKeepsChannel DEF BoundedNext

(* The bookkeeping of the ring holds throughout, however many handles race. *)
THEOREM ChannelInvariant == BoundedSpec => []ChannelInv
BY ChannelStart, ChannelStep, PTL DEF BoundedSpec
=============================================================================
