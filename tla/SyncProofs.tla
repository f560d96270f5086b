----------------------------- MODULE SyncProofs -----------------------------
(***************************************************************************)
(* Proofs about the unbounded channel for any messages and handles and     *)
(* without a bound on what is sent in practice (MaxSent is any number),    *)
(* and about the spin locks under interrupts for any number of CPUs.       *)
(***************************************************************************)
EXTENDS UnboundedChannel, IrqLocks, FiniteSetTheorems, TLAPS

-----------------------------------------------------------------------------
(* The unbounded channel.                                                  *)

(* NoneIsFinal needs the count to be what it says: the number of handles   *)
(* that are alive.                                                         *)
CountIsExact == IsFiniteSet(senders) /\ sender_count = Cardinality(senders)

ChInv == ChTypeOK /\ CountIsExact /\ FifoDelivery /\ NoLostWakeup /\ NoneIsFinal

(* What the operators on sequences do, position by position. *)
LEMMA LenProperties == ASSUME NEW S, NEW q \in Seq(S) PROVE Len(q) \in Nat /\ DOMAIN q = 1 .. Len(q)
  OBVIOUS

LEMMA ConcatProperties ==
    ASSUME NEW S, NEW p \in Seq(S), NEW q \in Seq(S)
    PROVE  /\ p \o q \in Seq(S) /\ Len(p \o q) = Len(p) + Len(q)
           /\ \A i \in 1 .. Len(p) + Len(q) : (p \o q)[i] = IF i <= Len(p) THEN p[i] ELSE q[i - Len(p)]
  OBVIOUS

LEMMA HeadTailProperties ==
    ASSUME NEW S, NEW q \in Seq(S), q # <<>>
    PROVE  /\ Head(q) \in S /\ Head(q) = q[1] /\ Tail(q) \in Seq(S) /\ Len(q) \in Nat \ {0}
           /\ Len(Tail(q)) = Len(q) - 1 /\ \A i \in 1 .. Len(q) - 1 : Tail(q)[i] = q[i + 1]
  OBVIOUS

LEMMA AppendProperties ==
    ASSUME NEW S, NEW q \in Seq(S), NEW e \in S
    PROVE  /\ Append(q, e) \in Seq(S) /\ Len(Append(q, e)) = Len(q) + 1 /\ Append(q, e) = q \o <<e>>
           /\ Append(q, e)[Len(q) + 1] = e /\ \A i \in 1 .. Len(q) : Append(q, e)[i] = q[i]
  OBVIOUS

LEMMA SeqEqual ==
    ASSUME NEW S, NEW p \in Seq(S), NEW q \in Seq(S), Len(p) = Len(q), \A i \in 1 .. Len(p) : p[i] = q[i]
    PROVE  p = q
  OBVIOUS

LEMMA ConcatAssociative ==
    ASSUME NEW S, NEW p \in Seq(S), NEW q \in Seq(S), NEW r \in Seq(S)
    PROVE  (p \o q) \o r = p \o (q \o r)
<1> DEFINE a == p \o q
           b == q \o r
           u == a \o r
           v == p \o b
           l == Len(p)
           m == Len(q)
           n == Len(r)
<1>1. l \in Nat /\ m \in Nat /\ n \in Nat
  BY LenProperties
<1>2. a \in Seq(S) /\ b \in Seq(S) /\ u \in Seq(S) /\ v \in Seq(S)
  BY ConcatProperties, Zenon
<1>3. Len(a) = l + m /\ Len(b) = m + n /\ Len(u) = Len(a) + n /\ Len(v) = l + Len(b)
  BY <1>2, ConcatProperties, Zenon
<1>4. /\ \A i \in 1 .. l + m : a[i] = IF i <= l THEN p[i] ELSE q[i - l]
      /\ \A i \in 1 .. m + n : b[i] = IF i <= m THEN q[i] ELSE r[i - m]
  BY ConcatProperties, Zenon
<1>5. /\ \A i \in 1 .. Len(a) + n : u[i] = IF i <= Len(a) THEN a[i] ELSE r[i - Len(a)]
      /\ \A i \in 1 .. l + Len(b) : v[i] = IF i <= l THEN p[i] ELSE b[i - l]
  BY <1>2, ConcatProperties, Zenon
<1> HIDE DEF a, b, u, v, l, m, n
<1>6. ASSUME NEW i \in 1 .. l + m + n PROVE u[i] = v[i]
  <2>0. i \in 1 .. (l + m) + n /\ i \in 1 .. l + (m + n)
    BY <1>1
  <2>1. /\ u[i] = IF i <= l + m THEN a[i] ELSE r[i - (l + m)]
        /\ v[i] = IF i <= l THEN p[i] ELSE b[i - l]
    BY <1>3, <1>5, <2>0, Zenon
  <2>2. CASE i <= l
    <3>1. i \in 1 .. l + m /\ i <= l + m
      BY <1>1, <2>2
    <3> QED BY <1>4, <2>1, <2>2, <3>1, Zenon
  <2>3. CASE ~(i <= l) /\ i <= l + m
    <3>1. i \in 1 .. l + m /\ i - l \in 1 .. m + n /\ i - l <= m
      BY <1>1, <2>3
    <3> QED BY <1>4, <2>1, <2>3, <3>1, Zenon
  <2>4. CASE ~(i <= l + m)
    <3>1. i - l \in 1 .. m + n /\ ~(i - l <= m) /\ ~(i <= l) /\ (i - l) - m = i - (l + m)
      BY <1>1, <2>4
    <3>2. b[i - l] = r[(i - l) - m]
      BY <1>4, <3>1, Zenon
    <3> QED BY <2>1, <2>4, <3>1, <3>2, Zenon
  <2> QED BY <2>2, <2>3, <2>4, Zenon
<1>7. Len(u) = Len(v) /\ Len(u) = l + m + n
  BY <1>1, <1>3
<1>8. u = v
  BY <1>2, <1>6, <1>7, SeqEqual, Zenon
<1> QED BY <1>8, Zenon DEF u, v, a, b

(* Moving the head of the buffer to the end of what was received changes   *)
(* nothing in the concatenation.                                           *)
LEMMA MoveHead ==
    ASSUME NEW S, NEW r \in Seq(S), NEW b \in Seq(S), b # <<>>
    PROVE  Append(r, Head(b)) \o Tail(b) = r \o b
<1> DEFINE x == Append(r, Head(b)) \o Tail(b)
           y == r \o b
<1>1. /\ Head(b) \in S /\ Head(b) = b[1] /\ Tail(b) \in Seq(S) /\ Len(b) \in Nat \ {0}
      /\ Len(Tail(b)) = Len(b) - 1
      /\ \A i \in 1 .. Len(b) - 1 : Tail(b)[i] = b[i + 1]
  BY HeadTailProperties
<1>2. /\ Append(r, Head(b)) \in Seq(S) /\ Len(Append(r, Head(b))) = Len(r) + 1
      /\ \A i \in 1 .. Len(r) : Append(r, Head(b))[i] = r[i]
      /\ Append(r, Head(b))[Len(r) + 1] = b[1]
      /\ Len(r) \in Nat
  BY <1>1, AppendProperties, LenProperties
<1>3. /\ x \in Seq(S) /\ Len(x) = Len(r) + 1 + (Len(b) - 1)
      /\ \A i \in 1 .. Len(r) + 1 + (Len(b) - 1) :
           x[i] = IF i <= Len(r) + 1 THEN Append(r, Head(b))[i]
                  ELSE Tail(b)[i - (Len(r) + 1)]
  BY <1>1, <1>2, ConcatProperties
<1>4. /\ y \in Seq(S) /\ Len(y) = Len(r) + Len(b)
      /\ \A i \in 1 .. Len(r) + Len(b) :
           y[i] = IF i <= Len(r) THEN r[i] ELSE b[i - Len(r)]
  BY ConcatProperties
<1> HIDE DEF x, y
<1>5. Len(x) = Len(y) /\ \A i \in 1 .. Len(x) : x[i] = y[i]
  <2>1. Len(x) = Len(y)
    BY <1>1, <1>2, <1>3, <1>4
  <2>2. ASSUME NEW i \in 1 .. Len(x) PROVE x[i] = y[i]
    <3>1. CASE i <= Len(r)
      BY <1>1, <1>2, <1>3, <1>4, <2>1, <3>1, SMTT(60)
    <3>2. CASE i = Len(r) + 1
      BY <1>1, <1>2, <1>3, <1>4, <2>1, <3>2, SMTT(60)
    <3>3. CASE i > Len(r) + 1
      <4>1. i - (Len(r) + 1) \in 1 .. Len(b) - 1
        BY <1>1, <1>2, <1>3, <3>3
      <4>2. Tail(b)[i - (Len(r) + 1)] = b[i - Len(r)]
        BY <1>1, <1>2, <4>1
      <4> QED
        BY <1>1, <1>2, <1>3, <1>4, <2>1, <3>3, <4>2
    <3> QED
      BY <1>1, <1>2, <1>3, <3>1, <3>2, <3>3
  <2> QED
    BY <2>1, <2>2
<1>6. x = y
  BY <1>3, <1>4, <1>5, SeqEqual
<1> QED
  BY <1>6 DEF x, y

(* Appending to the buffer appends to the concatenation. *)
LEMMA AppendToConcat ==
    ASSUME NEW r \in Seq(Messages), NEW b \in Seq(Messages), NEW e \in Messages
    PROVE  Append(r \o b, e) = r \o Append(b, e)
<1>1. <<e>> \in Seq(Messages)
  OBVIOUS
<1>2. r \o b \in Seq(Messages)
  BY ConcatProperties
<1>3. Append(r \o b, e) = (r \o b) \o <<e>>
  BY <1>2, AppendProperties
<1>4. Append(b, e) = b \o <<e>>
  BY AppendProperties, Zenon
<1>5. (r \o b) \o <<e>> = r \o (b \o <<e>>)
  BY <1>1, ConcatAssociative
<1> QED
  BY <1>3, <1>4, <1>5, Zenon

(* A new channel has one handle and nothing in it. *)
LEMMA ChInitInv == ChInit => ChInv
<1> SUFFICES ASSUME ChInit PROVE ChInv
  OBVIOUS
<1>1. ChTypeOK
  <2>1. <<>> \in Seq(Messages)
    OBVIOUS
  <2>2. woken \in BOOLEAN
    BY Zenon DEF ChInit
  <2> QED
    BY <2>1, <2>2, HandlesOK DEF ChInit, ChTypeOK
<1>2. CountIsExact
  BY FS_Singleton, Zenon DEF ChInit, CountIsExact
<1>3. FifoDelivery /\ NoLostWakeup /\ NoneIsFinal
  BY <1>1 DEF ChTypeOK, ChInit, FifoDelivery, NoLostWakeup, NoneIsFinal
<1> QED
  BY <1>1, <1>2, <1>3 DEF ChInv

(* clone() and drop() keep the count exact; nothing else touches it. *)
LEMMA CountStep == ChInv /\ [ChNext]_chVars => CountIsExact' /\ sender_count' \in Nat
<1> SUFFICES ASSUME ChInv, [ChNext]_chVars
             PROVE  CountIsExact' /\ sender_count' \in Nat
  OBVIOUS
<1> USE DEF ChInv, ChTypeOK, CountIsExact
<1>1. ASSUME NEW h \in Handles, NEW g \in Handles, Clone(h, g)
      PROVE  CountIsExact' /\ sender_count' \in Nat
  BY <1>1, FS_AddElement DEF Clone
<1>2. ASSUME NEW h \in Handles, Drop(h)
      PROVE  CountIsExact' /\ sender_count' \in Nat
  <2>1. /\ IsFiniteSet(senders \ {h})
        /\ Cardinality(senders \ {h}) = Cardinality(senders) - 1
    BY <1>2, FS_RemoveElement DEF Drop
  <2>2. Cardinality(senders \ {h}) \in Nat
    BY <2>1, FS_CardinalityType
  <2> QED
    BY <1>2, <2>1, <2>2 DEF Drop
<1>3. CASE UNCHANGED <<senders, sender_count>>
  BY <1>3
<1> QED
  BY <1>1, <1>2, <1>3 DEF ChNext, chVars, Send, Recv, Repoll, SpuriousPoll

(* A poll keeps the contents of the channel and parks only when it is      *)
(* empty, leaving a waker behind.                                          *)
LEMMA PollStep ==
    ASSUME ChInv, RecvPoll, UNCHANGED <<sent, senders>>
    PROVE  /\ buffer' \in Seq(Messages) /\ received' \in Seq(Messages)
           /\ rx' \in {"running", "parked", "closed"} /\ rx_wakers' \in Nat
           /\ FifoDelivery'
           /\ rx' = "parked" => buffer' = <<>> /\ rx_wakers' > 0
           /\ NoneIsFinal'
<1> USE DEF ChInv, ChTypeOK
<1>1. CASE buffer # <<>>
  <2>1. /\ buffer' = Tail(buffer) /\ received' = Append(received, Head(buffer))
        /\ rx' = "running" /\ rx_wakers' = rx_wakers
    BY <1>1 DEF RecvPoll
  <2>2. Head(buffer) \in Messages /\ Tail(buffer) \in Seq(Messages)
    BY <1>1
  <2>3. Append(received, Head(buffer)) \o Tail(buffer) = received \o buffer
    BY <1>1, MoveHead
  <2> QED
    BY <2>1, <2>2, <2>3, SMTT(60) DEF FifoDelivery, NoneIsFinal
<1>2. CASE buffer = <<>> /\ sender_count = 0
  <2>1. senders = {}
    BY <1>2, FS_EmptySet, Zenon DEF CountIsExact
  <2> QED
    BY <1>2, <2>1 DEF RecvPoll, FifoDelivery, NoneIsFinal
<1>3. CASE buffer = <<>> /\ sender_count # 0
  BY <1>3 DEF RecvPoll, FifoDelivery, NoneIsFinal
<1> QED
  BY <1>1, <1>2, <1>3

(* Every operation preserves the invariant. *)
LEMMA ChStep == ChInv /\ [ChNext]_chVars => ChInv'
<1> SUFFICES ASSUME ChInv, [ChNext]_chVars PROVE ChInv'
  OBVIOUS
<1>0. CountIsExact' /\ sender_count' \in Nat
  BY CountStep
<1> USE DEF ChInv, ChTypeOK
<1>1. ASSUME NEW h \in Handles, NEW g \in Handles, Clone(h, g) PROVE ChInv'
  BY <1>0, <1>1 DEF Clone, FifoDelivery, NoLostWakeup, NoneIsFinal
<1>2. ASSUME NEW h \in Handles, Drop(h) PROVE ChInv'
  BY <1>0, <1>2 DEF Drop, FifoDelivery, NoLostWakeup, NoneIsFinal
<1>3. ASSUME NEW h \in Handles, NEW m \in Messages, Send(h, m) PROVE ChInv'
  <2>1. Append(sent, m) = received \o Append(buffer, m)
    <3>1. Append(received \o buffer, m) = received \o Append(buffer, m)
      <4>1. received \in Seq(Messages) /\ buffer \in Seq(Messages) /\ m \in Messages
        OBVIOUS
      <4> HIDE DEF ChInv, ChTypeOK
      <4> QED
        BY <4>1, AppendToConcat, Zenon
    <3> QED
      BY <3>1 DEF FifoDelivery
  <2>2. FifoDelivery' /\ buffer' \in Seq(Messages) /\ sent' \in Seq(Messages)
    BY <1>3, <2>1 DEF Send, FifoDelivery
  <2>3. rx_wakers' \in Nat /\ woken' \in BOOLEAN
    <3>1. rx_wakers' \in Nat
      BY <1>3 DEF Send
    <3>2. woken' = TRUE \/ woken' = woken
      BY <1>3, Zenon DEF Send
    <3>3. woken' \in BOOLEAN
      BY <3>2, Zenon
    <3> QED
      BY <3>1, <3>3
  <2>4. NoLostWakeup' /\ NoneIsFinal'
    BY <1>3 DEF Send, NoLostWakeup, NoneIsFinal
  <2> QED
    BY <1>0, <1>3, <2>2, <2>3, <2>4 DEF Send
<1>4. CASE Recv
  BY <1>0, <1>4, PollStep DEF Recv, NoLostWakeup
<1>5. CASE Repoll
  BY <1>0, <1>5, PollStep, Zenon DEF Repoll, NoLostWakeup
<1>6. CASE SpuriousPoll
  BY <1>0, <1>6, PollStep DEF SpuriousPoll, NoLostWakeup
<1>7. CASE UNCHANGED chVars
  BY <1>0, <1>7 DEF chVars, FifoDelivery, NoLostWakeup, NoneIsFinal
<1> QED
  BY <1>1, <1>2, <1>3, <1>4, <1>5, <1>6, <1>7 DEF ChNext

(* The invariant holds in every reachable state. *)
THEOREM ChInvariance == ChSpec => []ChInv
  BY ChInitInv, ChStep, PTL DEF ChSpec

(* The fields of the channel keep their types; in particular the unsigned  *)
(* sender count never goes below zero.                                     *)
THEOREM ChTypeCorrect == ChSpec => []ChTypeOK
  BY ChInvariance, PTL DEF ChInv

(* What was received, followed by the buffer, is what was sent: nothing is *)
(* lost, duplicated or reordered, for any number of messages.              *)
THEOREM ChFifo == ChSpec => []FifoDelivery
  BY ChInvariance, PTL DEF ChInv

(* A receiver parked without a wake-up on its way faces an empty channel   *)
(* that holds its waker.                                                   *)
THEOREM ChNoLostWakeup == ChSpec => []NoLostWakeup
  BY ChInvariance, PTL DEF ChInv

(* recv() returns None only when no handle and no message is left. *)
THEOREM ChNoneIsFinal == ChSpec => []NoneIsFinal
  BY ChInvariance, PTL DEF ChInv

(* Delivery as a whole, for any number of handles, messages and polls. *)
THEOREM ChDelivery == ChSpec => []DeliveryIsSound
  BY ChFifo, ChNoneIsFinal, PTL DEF DeliveryIsSound

-----------------------------------------------------------------------------
(* The locks under interrupts.                                             *)

(* What a path is made of. *)
Instructions == {Mask, Unmask} \union {Acquire(l) : l \in Locks} \union {Release(l) : l \in Locks}

(* No instruction of q from i up to j enables interrupts. *)
StaysMasked(q, i, j) == \A k \in DOMAIN q : i <= k /\ k <= j => q[k].op # "unmask"

(* The lock is released after i, before interrupts are enabled. *)
WillRelease(q, i, l) == \E j \in DOMAIN q : i < j /\ q[j] = Release(l) /\ StaysMasked(q, i, j)

(* Interrupts are masked at i, if m says whether they are at the start. *)
UnderMask(q, i, m) ==
    \/ m /\ StaysMasked(q, 1, i)
    \/ \E j \in DOMAIN q : j < i /\ q[j] = Mask /\ StaysMasked(q, j, i)

(* A path that takes locks only with interrupts masked, and releases each  *)
(* before it unmasks them.                                                 *)
WellMasked(q, m) ==
    /\ q \in Seq(Instructions)
    /\ \A i \in DOMAIN q : q[i].op = "lock" => WillRelease(q, i, q[i].lock) /\ UnderMask(q, i, m)

(* What a path that never masks interrupts may ignore. *)
Guarded(c) == masked[c] \/ on[c] \notin MaskedPaths

(* The inductive invariant: what is left of each task is such a path, and  *)
(* a task that holds a lock will release it before it unmasks, and is      *)
(* masked if its path is one that masks; hence no handler runs on its CPU. *)
TasksAreMasked ==
    /\ DOMAIN task = Cpus /\ DOMAIN handler = Cpus /\ DOMAIN holder = Locks /\ DOMAIN on = Cpus
    /\ masked \in [Cpus -> BOOLEAN]
    /\ \A c \in Cpus :
         /\ handler[c] \in Seq(Instructions)
         /\ masked[c] => handler[c] = <<>>
         /\ WellMasked(task[c], Guarded(c))
         /\ \A l \in Locks : holder[l] = <<c, "task">> => Guarded(c) /\ WillRelease(task[c], 0, l)

(* The instructions are told apart by their fields. *)
LEMMA InstructionOps ==
    /\ Mask.op = "mask" /\ Unmask.op = "unmask"
    /\ \A l : Acquire(l).op = "lock" /\ Acquire(l).lock = l /\ Release(l).op = "unlock" /\ Release(l).lock = l
  BY DEF Mask, Unmask, Acquire, Release

(* The paths of the tasks, from the pieces they are made of. *)
LEMMA EmptyIsMasked == \A m : WellMasked(<<>>, m)
  BY DEF WellMasked

(* without_interrupts around one critical section. *)
LEMMA SectionIsMasked ==
    ASSUME NEW l \in Locks
    PROVE  WellMasked(<<Mask, Acquire(l), Release(l), Unmask>>, FALSE)
<1> DEFINE q == <<Mask, Acquire(l), Release(l), Unmask>>
<1>1. /\ q \in Seq(Instructions) /\ DOMAIN q = 1 .. 4
      /\ q[1] = Mask /\ q[2] = Acquire(l) /\ q[3] = Release(l) /\ q[4] = Unmask
  BY DEF Instructions
<1> HIDE DEF q
<1>2. ASSUME NEW i \in DOMAIN q, q[i].op = "lock" PROVE i = 2
  BY <1>1, <1>2, InstructionOps
<1>3. StaysMasked(q, 1, 3) /\ StaysMasked(q, 2, 3) /\ StaysMasked(q, 1, 2)
  BY <1>1, InstructionOps DEF StaysMasked
<1>4. WillRelease(q, 2, l) /\ UnderMask(q, 2, FALSE) /\ q[2].lock = l
  BY <1>1, <1>3, InstructionOps DEF WillRelease, UnderMask
<1>5. WellMasked(q, FALSE)
  BY <1>1, <1>2, <1>4, Zenon DEF WellMasked
<1> QED BY <1>5, Zenon DEF q

(* without_interrupts around two nested critical sections. *)
LEMMA NestedIsMasked ==
    ASSUME NEW l \in Locks, NEW m \in Locks
    PROVE  WellMasked(<<Mask, Acquire(l), Acquire(m), Release(m), Release(l), Unmask>>, FALSE)
<1> DEFINE q == <<Mask, Acquire(l), Acquire(m), Release(m), Release(l), Unmask>>
<1>1. /\ q \in Seq(Instructions) /\ DOMAIN q = 1 .. 6
      /\ q[1] = Mask /\ q[2] = Acquire(l) /\ q[3] = Acquire(m)
      /\ q[4] = Release(m) /\ q[5] = Release(l) /\ q[6] = Unmask
  BY DEF Instructions
<1> HIDE DEF q
<1>2. ASSUME NEW i \in DOMAIN q, q[i].op = "lock" PROVE i \in {2, 3}
  BY <1>1, <1>2, InstructionOps
<1>3. ASSUME NEW k \in DOMAIN q, k <= 5 PROVE q[k].op # "unmask"
  BY <1>1, <1>3, InstructionOps
<1>4. StaysMasked(q, 2, 5) /\ StaysMasked(q, 3, 4) /\ StaysMasked(q, 1, 2) /\ StaysMasked(q, 1, 3)
  BY <1>1, <1>3 DEF StaysMasked
<1>5. WillRelease(q, 2, l) /\ UnderMask(q, 2, FALSE) /\ q[2].lock = l
  BY <1>1, <1>4, InstructionOps DEF WillRelease, UnderMask
<1>6. WillRelease(q, 3, m) /\ UnderMask(q, 3, FALSE) /\ q[3].lock = m
  BY <1>1, <1>4, InstructionOps DEF WillRelease, UnderMask
<1>7. WellMasked(q, FALSE)
  BY <1>1, <1>2, <1>5, <1>6, Zenon DEF WellMasked
<1> QED BY <1>7, Zenon DEF q

(* The same sections on a path that does not mask interrupts. *)
LEMMA BareSection ==
    ASSUME NEW l \in Locks
    PROVE  WellMasked(<<Acquire(l), Release(l)>>, TRUE)
<1> DEFINE q == <<Acquire(l), Release(l)>>
<1>1. q \in Seq(Instructions) /\ DOMAIN q = 1 .. 2 /\ q[1] = Acquire(l) /\ q[2] = Release(l)
  BY DEF Instructions
<1> HIDE DEF q
<1>2. ASSUME NEW i \in DOMAIN q, q[i].op = "lock" PROVE i = 1
  BY <1>1, <1>2, InstructionOps
<1>3. StaysMasked(q, 1, 2) /\ StaysMasked(q, 1, 1)
  BY <1>1, InstructionOps DEF StaysMasked
<1>4. WillRelease(q, 1, l) /\ UnderMask(q, 1, TRUE) /\ q[1].lock = l
  BY <1>1, <1>3, InstructionOps DEF WillRelease, UnderMask
<1>5. WellMasked(q, TRUE)
  BY <1>1, <1>2, <1>4, Zenon DEF WellMasked
<1> QED BY <1>5, Zenon DEF q

LEMMA BareNested ==
    ASSUME NEW l \in Locks, NEW m \in Locks
    PROVE  WellMasked(<<Acquire(l), Acquire(m), Release(m), Release(l)>>, TRUE)
<1> DEFINE q == <<Acquire(l), Acquire(m), Release(m), Release(l)>>
<1>1. /\ q \in Seq(Instructions) /\ DOMAIN q = 1 .. 4
      /\ q[1] = Acquire(l) /\ q[2] = Acquire(m) /\ q[3] = Release(m) /\ q[4] = Release(l)
  BY DEF Instructions
<1> HIDE DEF q
<1>2. ASSUME NEW i \in DOMAIN q, q[i].op = "lock" PROVE i \in {1, 2}
  BY <1>1, <1>2, InstructionOps
<1>3. ASSUME NEW k \in DOMAIN q PROVE q[k].op # "unmask"
  BY <1>1, InstructionOps
<1>4. StaysMasked(q, 1, 4) /\ StaysMasked(q, 2, 3) /\ StaysMasked(q, 1, 1) /\ StaysMasked(q, 1, 2)
  BY <1>3 DEF StaysMasked
<1>5. WillRelease(q, 1, l) /\ UnderMask(q, 1, TRUE) /\ q[1].lock = l
  BY <1>1, <1>4, InstructionOps DEF WillRelease, UnderMask
<1>6. WillRelease(q, 2, m) /\ UnderMask(q, 2, TRUE) /\ q[2].lock = m
  BY <1>1, <1>4, InstructionOps DEF WillRelease, UnderMask
<1>7. WellMasked(q, TRUE)
  BY <1>1, <1>2, <1>5, <1>6, Zenon DEF WellMasked
<1> QED BY <1>7, Zenon DEF q

(* One masked path after the other. *)
LEMMA ConcatIsMasked ==
    ASSUME NEW p, NEW q, WellMasked(p, FALSE), WellMasked(q, FALSE)
    PROVE  WellMasked(p \o q, FALSE)
<1> DEFINE r == p \o q
           n == Len(p)
<1>1. /\ p \in Seq(Instructions) /\ q \in Seq(Instructions)
  BY DEF WellMasked
<1>2. /\ r \in Seq(Instructions) /\ n \in Nat /\ Len(q) \in Nat
      /\ DOMAIN p = 1 .. n /\ DOMAIN q = 1 .. Len(q) /\ Len(r) = n + Len(q) /\ DOMAIN r = 1 .. n + Len(q)
      /\ \A i \in 1 .. Len(r) : r[i] = IF i <= n THEN p[i] ELSE q[i - n]
  BY <1>1, ConcatProperties, LenProperties
<1> HIDE DEF r, n
<1>3. \A i \in DOMAIN p : i \in DOMAIN r /\ r[i] = p[i] /\ i <= n /\ i \in Int
  BY <1>2
<1>4. \A i \in DOMAIN q : i + n \in DOMAIN r /\ r[i + n] = q[i] /\ i \in Int
  BY <1>2
<1>5. ASSUME NEW i \in DOMAIN r, r[i].op = "lock" PROVE WillRelease(r, i, r[i].lock) /\ UnderMask(r, i, FALSE)
  <2>1. CASE i <= n
    <3>1. i \in DOMAIN p /\ r[i] = p[i]
      BY <1>2, <2>1
    <3>2. PICK j \in DOMAIN p : i < j /\ p[j] = Release(p[i].lock) /\ StaysMasked(p, i, j)
      BY <1>5, <3>1, Zenon DEF WellMasked, WillRelease
    <3>3. StaysMasked(r, i, j)
      BY <1>2, <1>3, <3>1, <3>2 DEF StaysMasked
    <3>4. PICK h \in DOMAIN p : h < i /\ p[h] = Mask /\ StaysMasked(p, h, i)
      BY <1>5, <3>1 DEF WellMasked, UnderMask
    <3>5. StaysMasked(r, h, i)
      BY <1>2, <1>3, <2>1, <3>4 DEF StaysMasked
    <3> QED BY <1>3, <3>1, <3>2, <3>3, <3>4, <3>5 DEF WillRelease, UnderMask
  <2>2. CASE i > n
    <3>1. i - n \in DOMAIN q /\ r[i] = q[i - n] /\ i \in Int
      BY <1>2, <2>2
    <3>2. PICK j \in DOMAIN q : i - n < j /\ q[j] = Release(q[i - n].lock) /\ StaysMasked(q, i - n, j)
      BY <1>5, <3>1, Zenon DEF WellMasked, WillRelease
    <3>3. StaysMasked(r, i, j + n)
      <4>1. ASSUME NEW k \in DOMAIN r, i <= k, k <= j + n
            PROVE  k - n \in DOMAIN q /\ r[k] = q[k - n] /\ i - n <= k - n /\ k - n <= j
        <5>1. j \in Int /\ k \in 1 .. n + Len(q)
          BY <1>2, <3>2
        <5>2. k > n /\ k - n \in 1 .. Len(q) /\ i - n <= k - n /\ k - n <= j
          BY <1>2, <2>2, <3>1, <4>1, <5>1
        <5> QED BY <1>2, <5>1, <5>2
      <4> QED BY <3>2, <4>1 DEF StaysMasked
    <3>4. PICK h \in DOMAIN q : h < i - n /\ q[h] = Mask /\ StaysMasked(q, h, i - n)
      BY <1>5, <3>1 DEF WellMasked, UnderMask
    <3>5. StaysMasked(r, h + n, i)
      <4>1. ASSUME NEW k \in DOMAIN r, h + n <= k, k <= i
            PROVE  k - n \in DOMAIN q /\ r[k] = q[k - n] /\ h <= k - n /\ k - n <= i - n
        <5>1. h \in Int /\ 1 <= h /\ k \in 1 .. n + Len(q)
          BY <1>2, <3>4
        <5>2. k > n /\ k - n \in 1 .. Len(q) /\ h <= k - n /\ k - n <= i - n
          BY <1>2, <3>1, <4>1, <5>1
        <5> QED BY <1>2, <5>1, <5>2
      <4> QED BY <3>4, <4>1 DEF StaysMasked
    <3>6. i < j + n /\ h + n < i /\ j + n \in DOMAIN r /\ h + n \in DOMAIN r /\ r[j + n] = q[j] /\ r[h + n] = q[h]
      <4>1. j \in Int /\ h \in Int /\ n \in Int
        BY <1>2, <1>4
      <4>2. i < j + n /\ h + n < i
        BY <3>1, <3>2, <3>4, <4>1
      <4> QED BY <1>4, <4>2
    <3> QED BY <3>1, <3>2, <3>3, <3>4, <3>5, <3>6 DEF WillRelease, UnderMask
  <2>3. i \in Int /\ n \in Int
    BY <1>2
  <2>4. i <= n \/ i > n
    BY <2>3
  <2> QED BY <2>1, <2>2, <2>4, Zenon
<1> QED BY <1>2, <1>5, Zenon DEF WellMasked, r

(* A sequence that starts as p and goes on as q is their concatenation. *)
LEMMA IsConcat ==
    ASSUME NEW p \in Seq(Instructions), NEW q \in Seq(Instructions), NEW r \in Seq(Instructions),
           Len(r) = Len(p) + Len(q), \A i \in 1 .. Len(p) : r[i] = p[i],
           \A i \in 1 .. Len(q) : r[Len(p) + i] = q[i]
    PROVE  p \o q = r
<1> DEFINE t == p \o q
<1>1. /\ t \in Seq(Instructions) /\ Len(t) = Len(p) + Len(q) /\ Len(p) \in Nat /\ Len(q) \in Nat
      /\ \A i \in 1 .. Len(t) : t[i] = IF i <= Len(p) THEN p[i] ELSE q[i - Len(p)]
  BY ConcatProperties, LenProperties
<1> HIDE DEF t
<1>2. ASSUME NEW i \in 1 .. Len(t) PROVE t[i] = r[i]
  <2>1. CASE i <= Len(p)
    BY <1>1, <2>1
  <2>2. CASE i > Len(p)
    <3>1. i - Len(p) \in 1 .. Len(q) /\ i = Len(p) + (i - Len(p))
      BY <1>1, <2>2
    <3>2. r[Len(p) + (i - Len(p))] = q[i - Len(p)]
      BY <3>1, Zenon
    <3> QED BY <1>1, <2>2, <3>1, <3>2
  <2> QED BY <1>1, <2>1, <2>2
<1>3. t = r
  BY <1>1, <1>2, SeqEqual
<1> QED BY <1>3 DEF t

(* The concatenations that the paths are written with. *)
LEMMA OneAndTwo ==
    ASSUME NEW a \in Instructions, NEW b \in Instructions, NEW c \in Instructions
    PROVE  <<a>> \o <<b, c>> = <<a, b, c>>
<1> DEFINE p == <<a>>
           q == <<b, c>>
           r == <<a, b, c>>
<1>1. /\ p \in Seq(Instructions) /\ q \in Seq(Instructions) /\ r \in Seq(Instructions)
      /\ Len(p) = 1 /\ Len(q) = 2 /\ Len(r) = 3
      /\ r[1] = p[1] /\ r[2] = q[1] /\ r[3] = q[2]
  OBVIOUS
<1> HIDE DEF p, q, r
<1>2. Len(r) = Len(p) + Len(q) /\ \A i \in 1 .. Len(p) : r[i] = p[i]
  BY <1>1
<1>3. \A i \in 1 .. Len(q) : r[Len(p) + i] = q[i]
  BY <1>1
<1>4. p \o q = r
  BY <1>1, <1>2, <1>3, IsConcat, Zenon
<1> QED BY <1>4 DEF p, q, r

LEMMA ThreeAndOne ==
    ASSUME NEW a \in Instructions, NEW b \in Instructions, NEW c \in Instructions, NEW d \in Instructions
    PROVE  <<a, b, c>> \o <<d>> = <<a, b, c, d>>
<1> DEFINE p == <<a, b, c>>
           q == <<d>>
           r == <<a, b, c, d>>
<1>1. /\ p \in Seq(Instructions) /\ q \in Seq(Instructions) /\ r \in Seq(Instructions)
      /\ Len(p) = 3 /\ Len(q) = 1 /\ Len(r) = 4
      /\ r[1] = p[1] /\ r[2] = p[2] /\ r[3] = p[3] /\ r[4] = q[1]
  OBVIOUS
<1> HIDE DEF p, q, r
<1>2. Len(r) = Len(p) + Len(q) /\ \A i \in 1 .. Len(p) : r[i] = p[i]
  BY <1>1
<1>3. \A i \in 1 .. Len(q) : r[Len(p) + i] = q[i]
  BY <1>1
<1>4. p \o q = r
  BY <1>1, <1>2, <1>3, IsConcat, Zenon
<1> QED BY <1>4 DEF p, q, r

LEMMA TwoAndTwo ==
    ASSUME NEW a \in Instructions, NEW b \in Instructions, NEW c \in Instructions, NEW d \in Instructions
    PROVE  <<a, b>> \o <<c, d>> = <<a, b, c, d>>
<1> DEFINE p == <<a, b>>
           q == <<c, d>>
           r == <<a, b, c, d>>
<1>1. /\ p \in Seq(Instructions) /\ q \in Seq(Instructions) /\ r \in Seq(Instructions)
      /\ Len(p) = 2 /\ Len(q) = 2 /\ Len(r) = 4
      /\ r[1] = p[1] /\ r[2] = p[2] /\ r[3] = q[1] /\ r[4] = q[2]
  OBVIOUS
<1> HIDE DEF p, q, r
<1>2. Len(r) = Len(p) + Len(q) /\ \A i \in 1 .. Len(p) : r[i] = p[i]
  BY <1>1
<1>3. \A i \in 1 .. Len(q) : r[Len(p) + i] = q[i]
  BY <1>1
<1>4. p \o q = r
  BY <1>1, <1>2, <1>3, IsConcat, Zenon
<1> QED BY <1>4 DEF p, q, r

LEMMA FourAndTwo ==
    ASSUME NEW a \in Instructions, NEW b \in Instructions, NEW c \in Instructions, NEW d \in Instructions,
           NEW e \in Instructions, NEW f \in Instructions
    PROVE  <<a, b, c, d>> \o <<e, f>> = <<a, b, c, d, e, f>>
<1> DEFINE p == <<a, b, c, d>>
           q == <<e, f>>
           r == <<a, b, c, d, e, f>>
<1>1. /\ p \in Seq(Instructions) /\ q \in Seq(Instructions) /\ r \in Seq(Instructions)
      /\ Len(p) = 4 /\ Len(q) = 2 /\ Len(r) = 6
      /\ r[1] = p[1] /\ r[2] = p[2] /\ r[3] = p[3] /\ r[4] = p[4] /\ r[5] = q[1] /\ r[6] = q[2]
  OBVIOUS
<1> HIDE DEF p, q, r
<1>2. Len(r) = Len(p) + Len(q) /\ \A i \in 1 .. Len(p) : r[i] = p[i]
  BY <1>1
<1>3. \A i \in 1 .. Len(q) : r[Len(p) + i] = q[i]
  BY <1>1
<1>4. p \o q = r
  BY <1>1, <1>2, <1>3, IsConcat, Zenon
<1> QED BY <1>4 DEF p, q, r

(* Each path that masks interrupts does so around its locks. *)
LEMMA PathsAreMasked ==
    ASSUME NEW c \in Cpus, NEW p \in MaskedPaths, NEW path \in PathsOf(c, p)
    PROVE  WellMasked(path, FALSE)
<1>1. /\ Timer \in Locks /\ WakersList \in Locks /\ \A d \in Cpus : Queue(d) \in Locks
      /\ Mask \in Instructions /\ Unmask \in Instructions
      /\ \A l \in Locks : Acquire(l) \in Instructions /\ Release(l) \in Instructions
  BY DEF Locks, Instructions
<1>2. CASE p = "pop"
  <2> DEFINE s == <<Mask, Acquire(Queue(c)), Release(Queue(c)), Unmask>>
  <2>1. path = s \o s
    BY <1>2 DEF PathsOf, PopPath
  <2>2. WellMasked(s, FALSE)
    BY <1>1, SectionIsMasked, Zenon
  <2> QED BY <2>1, <2>2, ConcatIsMasked, Zenon
<1>3. CASE p = "wait"
  <2>1. path = <<Mask, Acquire(Timer), Release(Timer), Unmask>>
    BY <1>3 DEF PathsOf, WaitPath
  <2> QED BY <1>1, <2>1, SectionIsMasked, Zenon
<1>4. CASE p = "drop_guard"
  <2>1. PICK d \in Cpus : path = DropGuardPath(d)
    BY <1>4 DEF PathsOf
  <2>2. path = <<Mask, Acquire(WakersList), Acquire(Queue(d)), Release(Queue(d)), Release(WakersList), Unmask>>
    <3>0. /\ Mask \in Instructions /\ Unmask \in Instructions
          /\ Acquire(Queue(d)) \in Instructions /\ Release(Queue(d)) \in Instructions
          /\ Acquire(WakersList) \in Instructions /\ Release(WakersList) \in Instructions
      BY <1>1
    <3>1. <<Mask, Acquire(WakersList)>> \o WakePath(d)
            = <<Mask, Acquire(WakersList), Acquire(Queue(d)), Release(Queue(d))>>
      BY <3>0, TwoAndTwo DEF WakePath
    <3>2. path = <<Mask, Acquire(WakersList), Acquire(Queue(d)), Release(Queue(d))>>
                   \o <<Release(WakersList), Unmask>>
      BY <2>1, <3>1, Zenon DEF DropGuardPath
    <3> QED BY <3>0, <3>2, FourAndTwo
  <2> QED BY <1>1, <2>2, NestedIsMasked, Zenon
<1>5. CASE p = "spawn"
  <2>1. PICK d \in Cpus : path = <<Mask, Acquire(Queue(d)), Release(Queue(d)), Unmask>>
    BY <1>5 DEF PathsOf, SpawnPath
  <2> QED BY <1>1, <2>1, SectionIsMasked, Zenon
<1>6. CASE p = "compare"
  <2>1. PICK ij \in {x \in Cpus \X Cpus : x[1] < x[2]} : path = ComparePath(ij[1], ij[2])
    BY <1>6 DEF PathsOf
  <2>2. ij[1] \in Cpus /\ ij[2] \in Cpus
    BY <2>1
  <2> QED BY <1>1, <2>1, <2>2, NestedIsMasked, Zenon DEF ComparePath
<1> QED BY <1>2, <1>3, <1>4, <1>5, <1>6, Zenon DEF MaskedPaths

(* The other paths release what they take too, and never unmask. *)
LEMMA PathsAreReleased ==
    ASSUME NEW c \in Cpus, NEW p \in UnmaskedPaths, NEW path \in PathsOf(c, p)
    PROVE  WellMasked(path, TRUE)
<1>1. /\ Senders \in Locks /\ Channel \in Locks /\ Cell \in Locks /\ TaskChannel \in Locks
      /\ \A d \in Cpus : Queue(d) \in Locks
      /\ \A l \in Locks : Acquire(l) \in Instructions /\ Release(l) \in Instructions
  BY DEF Locks, Instructions
<1>2. ASSUME NEW d \in Cpus, NEW l \in Locks
      PROVE  WellMasked(<<Acquire(l)>> \o WakePath(d) \o <<Release(l)>>, TRUE)
  <2>1. /\ Acquire(l) \in Instructions /\ Release(l) \in Instructions
        /\ Acquire(Queue(d)) \in Instructions /\ Release(Queue(d)) \in Instructions
    BY <1>1
  <2>2. <<Acquire(l)>> \o WakePath(d) = <<Acquire(l), Acquire(Queue(d)), Release(Queue(d))>>
    BY <2>1, OneAndTwo, Zenon DEF WakePath
  <2>3. <<Acquire(l), Acquire(Queue(d)), Release(Queue(d))>> \o <<Release(l)>>
          = <<Acquire(l), Acquire(Queue(d)), Release(Queue(d)), Release(l)>>
    BY <2>1, ThreeAndOne
  <2>4. WellMasked(<<Acquire(l), Acquire(Queue(d)), Release(Queue(d)), Release(l)>>, TRUE)
    BY <1>1, BareNested, Zenon
  <2> QED BY <2>2, <2>3, <2>4, Zenon
<1>3. CASE p = "register" \/ p = "recv" \/ p = "yield"
  <2>1. PICK l \in Locks : path = <<Acquire(l), Release(l)>>
    BY <1>1, <1>3 DEF PathsOf, RegisterPath, RecvPath, YieldPath, WakePath
  <2> QED BY <2>1, BareSection, Zenon
<1>4. CASE p = "set"
  <2>1. PICK d \in Cpus : path = SetPath(d)
    BY <1>4 DEF PathsOf
  <2> QED BY <1>1, <1>2, <2>1, Zenon DEF SetPath
<1>5. CASE p = "send"
  <2>1. PICK d \in Cpus : path = SendPath(d)
    BY <1>5 DEF PathsOf
  <2> QED BY <1>1, <1>2, <2>1, Zenon DEF SendPath
<1> QED BY <1>3, <1>4, <1>5, Zenon DEF UnmaskedPaths

(* Whether interrupts are masked after the instruction. *)
MaskAfter(i, m) == IF i.op \in {"mask", "unmask"} THEN i.op = "mask" ELSE m

(* The rest of a path is as well masked as the path. *)
LEMMA TailIsMasked ==
    ASSUME NEW q, NEW m \in BOOLEAN, WellMasked(q, m), q # <<>>
    PROVE  /\ WellMasked(Tail(q), MaskAfter(Head(q), m))
           /\ Head(q).op = "lock" => m /\ WillRelease(Tail(q), 0, Head(q).lock)
           /\ \A l : WillRelease(q, 0, l) => /\ Head(q).op # "unmask"
                                             /\ Head(q) # Release(l) => WillRelease(Tail(q), 0, l)
<1> DEFINE t == Tail(q)
           h == Head(q)
           n == Len(t)
<1>1. /\ q \in Seq(Instructions) /\ t \in Seq(Instructions) /\ n \in Nat /\ Len(q) = n + 1 /\ h = q[1]
      /\ DOMAIN q = 1 .. n + 1 /\ DOMAIN t = 1 .. n /\ \A i \in 1 .. n : t[i] = q[i + 1]
  BY HeadTailProperties, LenProperties DEF WellMasked
<1>2. h \in Instructions /\ 1 \in DOMAIN q
  BY <1>1
<1> HIDE DEF t, h, n
<1>3. \A k \in DOMAIN t : k + 1 \in DOMAIN q /\ q[k + 1] = t[k] /\ k \in Int /\ k >= 1
  BY <1>1
<1>4. \A j \in DOMAIN q : j \in Int /\ (j # 1 => j - 1 \in DOMAIN t /\ t[j - 1] = q[j] /\ j > 1)
  BY <1>1
<1>5. ASSUME NEW i \in Int, NEW j \in Int, StaysMasked(q, i, j) PROVE StaysMasked(t, i - 1, j - 1)
  <2>1. ASSUME NEW k \in DOMAIN t, i - 1 <= k, k <= j - 1 PROVE t[k].op # "unmask"
    <3>1. k + 1 \in DOMAIN q /\ i <= k + 1 /\ k + 1 <= j /\ q[k + 1] = t[k]
      BY <1>3, <2>1
    <3> QED BY <1>5, <3>1 DEF StaysMasked
  <2> QED BY <2>1 DEF StaysMasked
<1>6. ASSUME NEW i \in DOMAIN q, NEW l, WillRelease(q, i, l) PROVE WillRelease(t, i - 1, l)
  <2>1. PICK j \in DOMAIN q : i < j /\ q[j] = Release(l) /\ StaysMasked(q, i, j)
    BY <1>6 DEF WillRelease
  <2>2. i \in Int /\ j \in Int /\ j # 1 /\ i - 1 < j - 1
    BY <1>1, <2>1
  <2>3. j - 1 \in DOMAIN t /\ t[j - 1] = Release(l) /\ StaysMasked(t, i - 1, j - 1)
    BY <1>4, <1>5, <2>1, <2>2
  <2> QED BY <2>2, <2>3 DEF WillRelease
<1>7. ASSUME NEW i \in DOMAIN t, t[i].op = "lock"
      PROVE  WillRelease(t, i, t[i].lock) /\ UnderMask(t, i, MaskAfter(h, m))
  <2>1. i + 1 \in DOMAIN q /\ q[i + 1] = t[i] /\ i \in Int /\ i >= 1 /\ (i + 1) - 1 = i
    BY <1>3
  <2>2. WillRelease(q, i + 1, t[i].lock) /\ UnderMask(q, i + 1, m)
    BY <1>7, <2>1 DEF WellMasked
  <2>3. WillRelease(t, i, t[i].lock)
    BY <1>6, <2>1, <2>2
  <2>4. CASE m /\ StaysMasked(q, 1, i + 1)
    <3>1. h.op # "unmask"
      BY <1>1, <1>2, <2>1, <2>4 DEF StaysMasked
    <3>2. MaskAfter(h, m)
      BY <2>4, <3>1 DEF MaskAfter
    <3>3. StaysMasked(t, 0, i)
      BY <1>5, <2>1, <2>4
    <3>4. StaysMasked(t, 1, i)
      BY <1>3, <3>3 DEF StaysMasked
    <3> QED BY <2>3, <3>2, <3>4 DEF UnderMask
  <2>5. ASSUME NEW j \in DOMAIN q, j < i + 1, q[j] = Mask, StaysMasked(q, j, i + 1)
        PROVE  UnderMask(t, i, MaskAfter(h, m))
    <3>1. StaysMasked(t, j - 1, i) /\ j \in Int
      BY <1>4, <1>5, <2>1, <2>5
    <3>2. CASE j = 1
      <4>1. MaskAfter(h, m)
        BY <1>1, <2>5, <3>2, InstructionOps DEF MaskAfter
      <4>2. StaysMasked(t, 1, i)
        BY <1>3, <3>1, <3>2 DEF StaysMasked
      <4> QED BY <4>1, <4>2 DEF UnderMask
    <3>3. CASE j # 1
      <4>1. j - 1 \in DOMAIN t /\ t[j - 1] = Mask /\ j - 1 < i
        BY <1>4, <2>1, <2>5, <3>3
      <4> QED BY <3>1, <4>1 DEF UnderMask
    <3> QED BY <3>2, <3>3
  <2> QED BY <2>2, <2>3, <2>4, <2>5 DEF UnderMask
<1>8. WellMasked(t, MaskAfter(h, m))
  BY <1>1, <1>7 DEF WellMasked
<1>9. ASSUME h.op = "lock" PROVE m /\ WillRelease(t, 0, h.lock)
  <2>1. WillRelease(q, 1, h.lock) /\ UnderMask(q, 1, m)
    BY <1>1, <1>2, <1>9 DEF WellMasked
  <2>2. m
    BY <1>4, <2>1 DEF UnderMask
  <2>3. WillRelease(t, 1 - 1, h.lock)
    BY <1>2, <1>6, <2>1
  <2> QED BY <2>2, <2>3
<1>10. ASSUME NEW l, WillRelease(q, 0, l)
       PROVE  /\ h.op # "unmask"
              /\ h # Release(l) => WillRelease(t, 0, l)
  <2>1. PICK j \in DOMAIN q : 0 < j /\ q[j] = Release(l) /\ StaysMasked(q, 0, j)
    BY <1>10 DEF WillRelease
  <2>2. h.op # "unmask"
    <3>1. h = q[1] /\ 0 <= 1 /\ 1 <= j
      BY <1>1, <1>4, <2>1
    <3> QED BY <1>2, <2>1, <3>1, Zenon DEF StaysMasked
  <2>3. ASSUME h # Release(l) PROVE WillRelease(t, 0, l)
    <3>1. j \in Int /\ j # 1 /\ j - 1 \in DOMAIN t /\ t[j - 1] = Release(l) /\ 0 < j - 1
      BY <1>1, <1>4, <2>1, <2>3
    <3>2. StaysMasked(t, 0 - 1, j - 1)
      BY <1>5, <2>1, <3>1
    <3>3. StaysMasked(t, 0, j - 1)
      BY <1>3, <3>1, <3>2 DEF StaysMasked
    <3> QED BY <3>1, <3>3 DEF WillRelease
  <2> QED BY <2>2, <2>3
<1> QED BY <1>8, <1>9, <1>10 DEF t, h

(* The handlers are made of lock operations. *)
LEMMA HandlersAreTyped ==
    ASSUME NEW c \in Cpus, NEW path \in HandlerPaths(c)
    PROVE  path \in Seq(Instructions)
<1>1. \A d \in Cpus : Queue(d) \in Locks
  BY DEF Locks
<1>2. Timer \in Locks /\ Senders \in Locks /\ Channel \in Locks
  BY DEF Locks
<1>3. \A l \in Locks : Acquire(l) \in Instructions /\ Release(l) \in Instructions
  BY DEF Instructions
<1>4. \A d \in Cpus : WakePath(d) \in Seq(Instructions)
  BY <1>1, <1>3 DEF WakePath
<1>5. \A d \in Cpus : TimerHandlerPath(d) \in Seq(Instructions)
  BY <1>2, <1>3, <1>4 DEF TimerHandlerPath
<1>6. \A d \in Cpus : AhciHandlerPath(d) \in Seq(Instructions)
  BY <1>2, <1>3, <1>4 DEF AhciHandlerPath
<1> QED BY <1>5, <1>6 DEF HandlerPaths

(* The contexts of the CPUs are told apart. *)
LEMMA ContextsDiffer ==
    ASSUME NEW c \in Cpus, NEW d \in Cpus
    PROVE  /\ Nobody # <<c, "task">> /\ <<c, "handler">> # <<d, "task">>
           /\ c # d => <<c, "task">> # <<d, "task">>
<1>1. <<c, "task">> \in Cpus \X {"task", "handler"}
  OBVIOUS
<1>2. "task" # "handler"
  OBVIOUS
<1> QED BY <1>1, <1>2, NobodyOK

(* Masking more can only help. *)
LEMMA MaskedIsEnough ==
    ASSUME NEW q, NEW m, NEW n, WellMasked(q, m), m => n
    PROVE  WellMasked(q, n)
  BY DEF WellMasked, UnderMask

(* Every step keeps the invariant. *)
LEMMA MaskingStep ==
    ASSUME TasksAreMasked, [Next]_vars
    PROVE  TasksAreMasked'
<1> USE DEF TasksAreMasked
<1>0. ASSUME NEW c \in Cpus, Advance(c)
      PROVE  /\ task'[c] = Tail(task[c]) /\ DOMAIN task' = Cpus /\ DOMAIN on' = Cpus
             /\ \A d \in Cpus : d # c => task'[d] = task[d] /\ on'[d] = on[d]
             /\ on'[c] \in MaskedPaths => on'[c] = on[c]
  <2>1. /\ task' = [task EXCEPT ![c] = Tail(task[c])]
        /\ on' = [on EXCEPT ![c] = IF Tail(task[c]) = <<>> THEN "none" ELSE on[c]]
    BY <1>0 DEF Advance
  <2>2. "none" \notin MaskedPaths
    BY DEF MaskedPaths
  <2> QED BY <2>1, <2>2
<1>1. ASSUME NEW c \in Cpus, TakePath(c) PROVE TasksAreMasked'
  <2>0. PICK p \in Paths : \E path \in PathsOf(c, p) : /\ task' = [task EXCEPT ![c] = path]
                                                       /\ on' = [on EXCEPT ![c] = p]
    BY <1>1, Zenon DEF TakePath
  <2>1. PICK path \in PathsOf(c, p) : task' = [task EXCEPT ![c] = path] /\ on' = [on EXCEPT ![c] = p]
    BY <2>0, Zenon
  <2>2. UNCHANGED <<handler, masked, holder>> /\ task[c] = <<>>
    BY <1>1 DEF TakePath
  <2>3. /\ DOMAIN task' = Cpus /\ task'[c] = path /\ DOMAIN on' = Cpus /\ on'[c] = p
        /\ \A d \in Cpus : d # c => task'[d] = task[d] /\ on'[d] = on[d]
    BY <2>1
  <2>4. WellMasked(path, Guarded(c)')
    <3>1. CASE p \in MaskedPaths
      <4>1. WellMasked(path, FALSE)
        BY <2>1, <3>1, PathsAreMasked, Zenon
      <4> QED BY <4>1, MaskedIsEnough, Zenon
    <3>2. CASE p \notin MaskedPaths
      <4>1. p \in UnmaskedPaths
        BY <3>2, PathsOK DEF TaskPaths
      <4>2. WellMasked(path, TRUE)
        BY <2>1, <4>1, PathsAreReleased, Zenon
      <4>3. Guarded(c)'
        BY <2>3, <3>2 DEF Guarded
      <4> QED BY <4>2, <4>3, MaskedIsEnough, Zenon
    <3> QED BY <3>1, <3>2
  <2>5. \A l \in Locks : holder[l] # <<c, "task">>
    BY <2>2 DEF WillRelease
  <2>6. \A d \in Cpus : d # c => Guarded(d)' = Guarded(d)
    BY <2>2, <2>3, Zenon DEF Guarded
  <2> QED BY <2>2, <2>3, <2>4, <2>5, <2>6, Zenon
<1>2. ASSUME NEW c \in Cpus, Interrupt(c) PROVE TasksAreMasked'
  <2>1. PICK path \in HandlerPaths(c) : handler' = [handler EXCEPT ![c] = path]
    BY <1>2, Zenon DEF Interrupt
  <2>2. UNCHANGED <<task, masked, holder, on>> /\ ~masked[c]
    BY <1>2 DEF Interrupt
  <2>3. /\ DOMAIN handler' = Cpus /\ handler'[c] = path /\ path \in Seq(Instructions)
        /\ \A d \in Cpus : d # c => handler'[d] = handler[d]
    BY <2>1, HandlersAreTyped
  <2>4. \A d \in Cpus : Guarded(d)' = Guarded(d)
    BY <2>2, Zenon DEF Guarded
  <2> QED BY <2>2, <2>3, <2>4
<1>3. ASSUME NEW c \in Cpus, SetMask(c) PROVE TasksAreMasked'
  <2> DEFINE h == Head(task[c])
             t == Tail(task[c])
  <2>1. /\ handler[c] = <<>> /\ task[c] # <<>> /\ h.op \in {"mask", "unmask"}
        /\ masked' = [masked EXCEPT ![c] = (h.op = "mask")] /\ Advance(c)
        /\ UNCHANGED <<handler, holder>>
    BY <1>3 DEF SetMask
  <2>2. Guarded(c) \in BOOLEAN
    BY DEF Guarded
  <2>3. /\ WellMasked(t, MaskAfter(h, Guarded(c)))
        /\ \A l : WillRelease(task[c], 0, l) => /\ h.op # "unmask"
                                                /\ h # Release(l) => WillRelease(t, 0, l)
    BY <2>1, <2>2, TailIsMasked, Zenon
  <2>4. /\ task'[c] = t /\ DOMAIN task' = Cpus /\ DOMAIN on' = Cpus
        /\ \A d \in Cpus : d # c => task'[d] = task[d] /\ on'[d] = on[d]
    BY <1>0, <2>1
  <2> HIDE DEF h, t
  <2>5. MaskAfter(h, Guarded(c)) = (h.op = "mask") /\ \A l : h # Release(l)
    BY <2>1, InstructionOps DEF MaskAfter
  <2>6. /\ masked' \in [Cpus -> BOOLEAN] /\ masked'[c] = (h.op = "mask")
        /\ \A d \in Cpus : d # c => masked'[d] = masked[d]
    BY <2>1
  <2>7. h.op = "mask" => Guarded(c)'
    BY <2>6 DEF Guarded
  <2>8. WellMasked(task'[c], Guarded(c)')
    BY <2>3, <2>4, <2>5, <2>7, MaskedIsEnough, Zenon
  <2>9. ASSUME NEW l \in Locks, holder[l] = <<c, "task">> PROVE Guarded(c)' /\ WillRelease(task'[c], 0, l)
    <3>1. WillRelease(task[c], 0, l)
      BY <2>9
    <3>2. h.op # "unmask" /\ WillRelease(t, 0, l)
      BY <2>3, <2>5, <3>1
    <3> QED BY <2>1, <2>4, <2>7, <3>2, Zenon
  <2>10. \A d \in Cpus : d # c => Guarded(d)' = Guarded(d)
    BY <2>4, <2>6, Zenon DEF Guarded
  <2>11. \A d \in Cpus : d # c => WellMasked(task'[d], Guarded(d)') /\ (masked'[d] => handler[d] = <<>>)
    BY <2>4, <2>6, <2>10, Zenon
  <2>12. ASSUME NEW d \in Cpus, d # c, NEW l \in Locks, holder[l] = <<d, "task">>
         PROVE  Guarded(d)' /\ WillRelease(task'[d], 0, l)
    BY <2>4, <2>10, <2>12, Zenon
  <2>13. UNCHANGED <<handler, holder>> /\ handler[c] = <<>>
    BY <2>1
  <2> QED BY <2>4, <2>6, <2>8, <2>9, <2>11, <2>12, <2>13, Zenon
<1>4. ASSUME NEW c \in Cpus, TaskLockOp(c) PROVE TasksAreMasked'
  <2> DEFINE h == Head(task[c])
             t == Tail(task[c])
             w == <<c, "task">>
  <2>1. /\ handler[c] = <<>> /\ task[c] # <<>> /\ Advance(c) /\ UNCHANGED <<handler, masked>>
        /\ \/ h.op = "lock" /\ holder' = [holder EXCEPT ![h.lock] = w]
           \/ h.op = "unlock" /\ holder' = [holder EXCEPT ![h.lock] = Nobody]
    BY <1>4 DEF TaskLockOp, LockOp
  <2>2. Guarded(c) \in BOOLEAN
    BY DEF Guarded
  <2>3. /\ WellMasked(t, MaskAfter(h, Guarded(c)))
        /\ h.op = "lock" => Guarded(c) /\ WillRelease(t, 0, h.lock)
        /\ \A l : WillRelease(task[c], 0, l) => /\ h.op # "unmask"
                                                /\ h # Release(l) => WillRelease(t, 0, l)
    BY <2>1, <2>2, TailIsMasked
  <2>4. /\ task'[c] = t /\ DOMAIN task' = Cpus /\ DOMAIN on' = Cpus /\ DOMAIN holder' = Locks
        /\ \A d \in Cpus : d # c => task'[d] = task[d] /\ on'[d] = on[d]
        /\ on'[c] \in MaskedPaths => on'[c] = on[c]
    BY <1>0, <2>1
  <2> HIDE DEF h, t
  <2>5. MaskAfter(h, Guarded(c)) = Guarded(c) /\ (Guarded(c) => Guarded(c)')
    BY <2>1, <2>4 DEF MaskAfter, Guarded
  <2>6. WellMasked(task'[c], Guarded(c)')
    BY <2>3, <2>4, <2>5, MaskedIsEnough
  <2>7. ASSUME NEW d \in Cpus, d # c, NEW l \in Locks, holder'[l] = <<d, "task">> PROVE holder[l] = <<d, "task">>
    BY <2>1, <2>7, ContextsDiffer, Zenon
  <2>8. ASSUME NEW l \in Locks, holder'[l] = w PROVE Guarded(c) /\ WillRelease(t, 0, l)
    <3>1. CASE h.op = "lock" /\ holder' = [holder EXCEPT ![h.lock] = w]
      <4>1. CASE l = h.lock
        BY <2>3, <3>1, <4>1
      <4>2. CASE l # h.lock
        <5>1. holder[l] = w
          BY <2>8, <3>1, <4>2
        <5>2. h # Release(l)
          BY <3>1, InstructionOps
        <5> QED BY <2>3, <5>1, <5>2
      <4> QED BY <4>1, <4>2
    <3>2. CASE h.op = "unlock" /\ holder' = [holder EXCEPT ![h.lock] = Nobody]
      <4>1. l # h.lock /\ holder[l] = w
        BY <2>8, <3>2, ContextsDiffer, Zenon
      <4>2. h # Release(l)
        BY <4>1, InstructionOps
      <4> QED BY <2>3, <4>1, <4>2
    <3> QED BY <2>1, <3>1, <3>2
  <2>9. \A d \in Cpus : d # c => Guarded(d)' = Guarded(d)
    BY <2>1, <2>4, Zenon DEF Guarded
  <2>10. ASSUME NEW l \in Locks, holder'[l] = w PROVE Guarded(c)' /\ WillRelease(task'[c], 0, l)
    BY <2>4, <2>5, <2>8, <2>10, Zenon
  <2>11. ASSUME NEW d \in Cpus, d # c, NEW l \in Locks, holder'[l] = <<d, "task">>
         PROVE  Guarded(d)' /\ WillRelease(task'[d], 0, l)
    BY <2>4, <2>7, <2>9, <2>11, Zenon
  <2> QED BY <2>1, <2>4, <2>6, <2>9, <2>10, <2>11, Zenon
<1>5. ASSUME NEW c \in Cpus, HandlerLockOp(c) PROVE TasksAreMasked'
  <2> DEFINE h == Head(handler[c])
  <2>1. /\ handler[c] # <<>> /\ handler' = [handler EXCEPT ![c] = Tail(handler[c])] /\ UNCHANGED <<task, masked, on>>
        /\ \/ holder' = [holder EXCEPT ![h.lock] = <<c, "handler">>]
           \/ holder' = [holder EXCEPT ![h.lock] = Nobody]
    BY <1>5 DEF HandlerLockOp, LockOp
  <2> HIDE DEF h
  <2>2. ASSUME NEW d \in Cpus, NEW l \in Locks, holder'[l] = <<d, "task">> PROVE holder[l] = <<d, "task">>
    BY <2>1, <2>2, ContextsDiffer, Zenon
  <2>3. DOMAIN holder' = Locks /\ DOMAIN handler' = Cpus /\ \A d \in Cpus : d # c => handler'[d] = handler[d]
    BY <2>1
  <2>4. handler'[c] \in Seq(Instructions) /\ ~masked[c]
    BY <2>1
  <2>5. \A d \in Cpus : Guarded(d)' = Guarded(d)
    BY <2>1, Zenon DEF Guarded
  <2> QED BY <2>1, <2>2, <2>3, <2>4, <2>5, Zenon
<1>6. CASE UNCHANGED vars
  BY <1>6 DEF vars, Guarded
<1> QED BY <1>1, <1>2, <1>3, <1>4, <1>5, <1>6, Zenon DEF Next

(* MaskedPathsAreSafe: on any number of CPUs and whichever paths the tasks *)
(* take, masked or not, a handler runs on top of a task that holds a lock  *)
(* only if the task is on a path that does not mask interrupts; so it is   *)
(* never the run loop, spawn, WaitFuture or the drop of a MutexGuard that  *)
(* makes a handler spin for ever.                                          *)
THEOREM MaskedPathsNeverDeadlock == Spec => []MaskedPathsAreSafe
<1>1. Init => TasksAreMasked
  <2> SUFFICES ASSUME Init PROVE TasksAreMasked
    OBVIOUS
  <2>1. \A c \in Cpus : \A l \in Locks : holder[l] # <<c, "task">>
    BY ContextsDiffer DEF Init
  <2>2. <<>> \in Seq(Instructions)
    OBVIOUS
  <2> QED BY <2>1, <2>2, EmptyIsMasked, Zenon DEF Init, TasksAreMasked
<1>2. TasksAreMasked => MaskedPathsAreSafe
  BY Zenon DEF TasksAreMasked, MaskedPathsAreSafe, Caught, Guarded
<1> QED BY <1>1, <1>2, MaskingStep, PTL DEF Spec
=============================================================================
