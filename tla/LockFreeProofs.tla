--------------------------- MODULE LockFreeProofs ---------------------------
(***************************************************************************)
(* Proofs about the two structures that are shared without a lock.         *)
(*                                                                         *)
(* The bounded channel, for any capacity and whatever handles race: every  *)
(* message accepted is in one place.                                       *)
(*                                                                         *)
(* BufferPool, for any number of buffers, users and frames: PoolInv says   *)
(* what a user has in hand, RoomyInv that the mask is exact while there is *)
(* room.                                                                   *)
(***************************************************************************)
EXTENDS BoundedChannelProofs, BufferPool, FiniteSetTheorems, FunctionTheorems

-----------------------------------------------------------------------------
(* Where the messages of the bounded channel are.                          *)

(* A set that a one-to-one function lists is as large as its domain. *)
LEMMA Listed ==
    ASSUME NEW S, IsFiniteSet(S), NEW f, S \subseteq DOMAIN f,
           \A i, j \in S : f[i] = f[j] => i = j
    PROVE  Cardinality({f[i] : i \in S}) = Cardinality(S)
<1> DEFINE T == {f[i] : i \in S}
           g == [i \in S |-> f[i]]
<1>1. g \in Bijection(S, T)
  <2>1. g \in [S -> T]
    OBVIOUS
  <2>2. \A i, j \in S : g[i] = g[j] => i = j
    OBVIOUS
  <2>3. \A t \in T : \E i \in S : g[i] = t
    OBVIOUS
  <2> HIDE DEF g, T
  <2> QED BY <2>1, <2>2, <2>3, Fun_IsBij
<1> QED BY <1>1, FS_Bijection DEF ExistsBijection

(* However many handles race, every message accepted is in one place. *)
THEOREM BoundedIsExactlyOnce == BoundedSpec => []ExactlyOnce
<1>1. ChannelInv => ExactlyOnce
  <2> SUFFICES ASSUME ChannelInv PROVE ExactlyOnce
    OBVIOUS
  <2> USE DEF ChannelInv
  <2> DEFINE values == {chan.value[k] : k \in Held}
  <2>1. /\ DOMAIN delivered = 1 .. Len(delivered) /\ Len(delivered) \in Nat
        /\ DOMAIN chan.value = Ring
    BY LenFacts DEF ChannelTypeOK, ChannelIsTyped
  <2>2. /\ IsFiniteSet(DOMAIN delivered) /\ Cardinality(DOMAIN delivered) = Len(delivered)
    <3> DEFINE L == Len(delivered)
    <3>1. L \in Nat /\ DOMAIN delivered = 1 .. L
      BY <2>1
    <3> HIDE DEF L
    <3>2. IsFiniteSet(1 .. L) /\ Cardinality(1 .. L) = IF 1 > L THEN 0 ELSE L - 1 + 1
      BY <3>1, FS_Interval
    <3>3. Cardinality(1 .. L) = L
      BY <3>1, <3>2
    <3> QED BY <3>1, <3>2, <3>3 DEF L
  <2>3. Cardinality(Elements(delivered)) = Len(delivered)
    BY <2>2, Listed DEF PlacesDiffer, Elements
  <2>4. IsFiniteSet(Held) /\ Held \subseteq Ring
    BY FS_Interval, FS_Subset, BoundedAssumption DEF Held, Ring
  <2>5. Cardinality(values) = Cardinality(Held)
    BY <2>1, <2>4, Listed DEF PlacesDiffer
  <2>6. values \cap Elements(delivered) = {}
    BY DEF PlacesDiffer, Elements
  <2> QED BY <2>3, <2>5, <2>6 DEF ExactlyOnce, Held, NothingIsLost
<1> QED BY <1>1, ChannelInvariant, PTL

-----------------------------------------------------------------------------
(* A non-empty set of natural numbers has a least member. *)
LEMMA LeastOf ==
    ASSUME NEW T, T \subseteq Nat, T # {}
    PROVE  \E x \in T : \A y \in T : x <= y
<1> DEFINE R == {ss \in Nat \X Nat : ss[1] < ss[2]}
<1>1. IsWellFoundedOn(R, Nat)
  BY NatLessThanWellFounded DEF OpToRel
<1>2. PICK x \in T : \A y \in T : ~ (<<y, x>> \in R)
  <2> HIDE DEF R
  <2> QED BY <1>1, WFMin, Zenon
<1>3. ASSUME NEW y \in T PROVE x <= y
  <2>1. x \in Nat /\ y \in Nat /\ <<y, x>> \notin R
    BY <1>2
  <2>2. ~(y < x)
    BY <2>1
  <2> QED BY <2>1, <2>2
<1> QED BY <1>3

-----------------------------------------------------------------------------
(* The buffer pool.  The pool does not run full when there are as many     *)
(* buffers as users.                                                       *)
EnoughBuffers == Cardinality(Users) <= Count

(* trailing_ones finds a bit that is clear, if there is one. *)
LEMMA LowestClearIsClear ==
    ASSUME NEW m \in SUBSET Slots, ~IsFull(m)
    PROVE  LowestClear(m) \in Slots \ m
<1>1. Slots \ m # {}
  BY DEF IsFull
<1>2. \E i \in Slots \ m : \A j \in Slots \ m : i <= j
  <2>1. Slots \ m \subseteq Nat
    BY PoolOK DEF Slots
  <2> QED BY <1>1, <2>1, LeastOf, Zenon
<1> QED BY <1>2 DEF LowestClear

(* No two buffers overlap. *)
BuffersAreApart ==
    \A i, j \in Slots : i # j =>
        \/ buffers[i] + Size <= buffers[j]
        \/ buffers[j] + Size <= buffers[i]

(* What the closure of get_buffer left in `result' is the bit it set in    *)
(* the value it returned; a handle that is dropped into the pool has one.  *)
ClaimsAreKept ==
    \A u \in Users :
        /\ pc[u] = "get_cas" /\ ~IsFull(val[u]) => result[u] = LowestClear(val[u])
        /\ pc[u] = "drop_cas" => result[u] # None

(* The invariant of the pool, full or not. *)
PoolInv == TypeOK /\ ClaimsAreKept /\ NoBufferLeaks

(* ... and what else holds as long as it is not full: the mask is exact,   *)
(* no index is owned twice, and no closure found the mask full.            *)
OwnersDiffer == \A u, w \in Owners : u # w => result[u] # result[w]
NeverFull == \A u \in Users : pc[u] = "get_cas" => ~IsFull(val[u])

RoomyInv == PoolInv /\ MaskIsExact /\ OwnersDiffer /\ NeverFull /\ BuffersAreApart

LEMMA PoolTypeStep == ASSUME TypeOK, [Next]_vars PROVE TypeOK'
<1>1. ASSUME NEW m \in SUBSET Slots PROVE LowestClear(m) \in Slots \/ IsFull(m)
  BY LowestClearIsClear
<1>2. ASSUME NEW u \in Users, GetBuffer(u) PROVE TypeOK'
  BY <1>2 DEF GetBuffer, TypeOK
<1>3. ASSUME NEW u \in Users, GetLoad(u) PROVE TypeOK'
  BY <1>1, <1>3 DEF GetLoad, Claim, TypeOK
<1>4. ASSUME NEW u \in Users, GetCas(u) PROVE TypeOK'
  <2>1. CASE mask = val[u]
    BY <1>1, <1>4, <2>1 DEF GetCas, Claimed, TypeOK
  <2>2. CASE mask # val[u]
    BY <1>1, <1>4, <2>2 DEF GetCas, Claim, TypeOK
  <2> QED BY <2>1, <2>2
<1>5. ASSUME NEW u \in Users, DropLoad(u) PROVE TypeOK'
  BY <1>5 DEF DropLoad, TypeOK
<1>6. ASSUME NEW u \in Users, DropCas(u) PROVE TypeOK'
  BY <1>6 DEF DropCas, TypeOK
<1>7. CASE UNCHANGED vars
  BY <1>7 DEF vars, TypeOK
<1> QED BY <1>2, <1>3, <1>4, <1>5, <1>6, <1>7 DEF Next

LEMMA Times ==
    ASSUME NEW a \in Nat, NEW b \in Nat, NEW c \in Nat, a <= b
    PROVE  a * c \in Nat /\ b * c \in Nat /\ a * c <= b * c
  OBVIOUS

(* Whole buffers fit in a page. *)
LEMMA PageIsFilled == PerPage \in Nat \ {0} /\ PageSize = PerPage * Size
<1>1. PageSize = Size * (PageSize \div Size) + (PageSize % Size) /\ PageSize \div Size \in Nat
  BY NewAsserts, Division
<1>2. PageSize = Size * PerPage /\ PerPage \in Nat
  BY <1>1, NewAsserts DEF PerPage
<1>3. PerPage # 0
  BY <1>2, NewAsserts
<1> QED BY <1>2, <1>3, NewAsserts

(* The buffers lie in frames that new() asked for. *)
LEMMA FramesSuffice ==
    ASSUME NEW i \in Slots
    PROVE  i \div PerPage \in 0 .. FrameCount - 1
<1> DEFINE q == i \div PerPage
           x == Size * Count + PageSize - 1
<1>1. /\ i \in Nat /\ i + 1 <= Count /\ Count \in Nat /\ Size \in Nat \ {0}
      /\ PageSize \in Nat \ {0} /\ PerPage \in Nat \ {0} /\ PageSize = PerPage * Size
  BY PoolOK, NewAsserts, PageIsFilled DEF Slots
<1>2. q \in Nat /\ PerPage * q <= i
  <2>1. q \in Nat /\ i % PerPage \in 0 .. PerPage - 1 /\ i = PerPage * q + (i % PerPage)
    BY <1>1, Division, Zenon
  <2> DEFINE z == i % PerPage
  <2>2. z \in Nat /\ i = PerPage * q + z
    BY <1>1, <2>1
  <2> HIDE DEF q, z
  <2>3. PerPage * q \in Int
    BY <1>1, <2>1
  <2> QED BY <1>1, <2>1, <2>2, <2>3
<1> HIDE DEF q
<1>3. PageSize * q + Size <= Size * Count
  <2>1. PerPage * q \in Nat /\ PageSize * q = (PerPage * q) * Size
    BY <1>1, <1>2
  <2>2. (PerPage * q) * Size <= i * Size /\ (PerPage * q) * Size \in Nat /\ i * Size \in Nat
    BY <1>1, <1>2, <2>1, Times
  <2>3. (i + 1) * Size <= Count * Size
    BY <1>1, Times
  <2>4. (i + 1) * Size = i * Size + Size /\ Count * Size = Size * Count
    BY <1>1
  <2>5. Count * Size \in Nat
    BY <1>1
  <2> QED BY <1>1, <2>1, <2>2, <2>3, <2>4, <2>5
<1>4. x \in Nat /\ PageSize * (q + 1) <= x
  <2>1. PageSize * (q + 1) = PageSize * q + PageSize /\ PageSize * q \in Nat /\ Size * Count \in Nat
    BY <1>1, <1>2
  <2> QED BY <1>1, <1>3, <2>1
<1> HIDE DEF x
<1>5. x \div PageSize \in Nat /\ x < PageSize * (x \div PageSize + 1)
  <2>1. /\ x \div PageSize \in Nat /\ x % PageSize \in 0 .. PageSize - 1
        /\ x = PageSize * (x \div PageSize) + (x % PageSize)
    BY <1>1, <1>4, Division, Zenon
  <2> DEFINE y == x \div PageSize
             z == x % PageSize
  <2>2. y \in Nat /\ z \in 0 .. PageSize - 1 /\ x = PageSize * y + z
    BY <2>1
  <2> HIDE DEF y, z
  <2>3. y \in Nat /\ x < PageSize * (y + 1)
    BY <1>1, <1>4, <2>2
  <2> QED BY <2>3 DEF y
<1>6. q < x \div PageSize
  <2>1. SUFFICES ASSUME x \div PageSize + 1 <= q + 1 PROVE FALSE
    BY <1>2, <1>5
  <2>2. (x \div PageSize + 1) * PageSize <= (q + 1) * PageSize
    BY <1>1, <1>2, <1>5, <2>1, Times
  <2> QED BY <1>1, <1>2, <1>4, <1>5, <2>2
<1> QED BY <1>2, <1>5, <1>6 DEF q, x, FrameCount

(* Buffers cut out of distinct frames do not overlap. *)
LEMMA NewIsApart ==
    ASSUME NEW frame \in [0 .. FrameCount - 1 -> Frames],
           \A i, j \in DOMAIN frame : frame[i] = frame[j] => i = j,
           NEW i \in Slots, NEW j \in Slots, i # j
    PROVE  /\ New(frame)[i] \in Nat
           /\ \/ New(frame)[i] + Size <= New(frame)[j]
              \/ New(frame)[j] + Size <= New(frame)[i]
<1> DEFINE f == frame[i \div PerPage]
           g == frame[j \div PerPage]
           a == i % PerPage
           b == j % PerPage
<1>1. /\ i \in Nat /\ j \in Nat /\ Size \in Nat \ {0}
      /\ PageSize \in Nat \ {0} /\ PerPage \in Nat \ {0} /\ PageSize = PerPage * Size
  BY PoolOK, NewAsserts, PageIsFilled DEF Slots
<1>2. /\ f \in Nat /\ g \in Nat
      /\ f = g => i \div PerPage = j \div PerPage
  BY FramesSuffice, PoolOK, Zenon
<1>3. /\ a \in 0 .. PerPage - 1 /\ b \in 0 .. PerPage - 1
      /\ i = PerPage * (i \div PerPage) + a /\ j = PerPage * (j \div PerPage) + b
      /\ i \div PerPage \in Nat /\ j \div PerPage \in Nat
  BY <1>1, Division, Zenon
<1>4. f = g => a # b
  BY <1>2, <1>3
<1>5. New(frame)[i] = f * PageSize + a * Size /\ New(frame)[j] = g * PageSize + b * Size
  BY DEF New
<1> HIDE DEF f, g, a, b
<1>6. /\ f * PageSize \in Nat /\ g * PageSize \in Nat /\ a * Size \in Nat /\ b * Size \in Nat
      /\ a * Size + Size <= PageSize /\ b * Size + Size <= PageSize
  <2>1. (a + 1) * Size <= PerPage * Size /\ (b + 1) * Size <= PerPage * Size
    BY <1>1, <1>3, Times
  <2>2. (a + 1) * Size = a * Size + Size /\ (b + 1) * Size = b * Size + Size
    BY <1>1, <1>3
  <2>3. f * PageSize \in Nat /\ g * PageSize \in Nat /\ a * Size \in Nat /\ b * Size \in Nat
    BY <1>1, <1>2, <1>3
  <2> QED BY <1>1, <2>1, <2>2, <2>3
<1>7. ASSUME NEW x \in Nat, NEW y \in Nat, NEW s \in Nat, x < y
      PROVE  x * s + s <= y * s
  <2>1. (x + 1) * s <= y * s
    BY <1>7, Times
  <2> QED BY <2>1
<1>8. CASE f = g
  <2>1. a < b => a * Size + Size <= b * Size
    BY <1>1, <1>3, <1>7
  <2>2. b < a => b * Size + Size <= a * Size
    BY <1>1, <1>3, <1>7
  <2>3. a < b \/ b < a
    BY <1>3, <1>4, <1>8
  <2> QED BY <1>1, <1>5, <1>6, <1>8, <2>1, <2>2, <2>3
<1>9. CASE f # g
  <2>1. f < g => f * PageSize + PageSize <= g * PageSize
    BY <1>1, <1>2, <1>7
  <2>2. g < f => g * PageSize + PageSize <= f * PageSize
    BY <1>1, <1>2, <1>7
  <2>3. f < g \/ g < f
    BY <1>2, <1>9
  <2> DEFINE F == f * PageSize
             G == g * PageSize
             A == a * Size
             B == b * Size
  <2>4. F + PageSize <= G \/ G + PageSize <= F
    BY <2>1, <2>2, <2>3
  <2>5. F \in Nat /\ G \in Nat /\ A \in Nat /\ B \in Nat /\ A + Size <= PageSize /\ B + Size <= PageSize
    BY <1>6
  <2>6. New(frame)[i] = F + A /\ New(frame)[j] = G + B
    BY <1>5
  <2> HIDE DEF F, G, A, B
  <2> QED BY <1>1, <2>4, <2>5, <2>6
<1> QED BY <1>8, <1>9

(* The steps of a user that owns no buffer before and after leave the      *)
(* owners and their indices alone.                                         *)
LEMMA NonOwnerStep ==
    ASSUME TypeOK, NEW u \in Users, NEW l, pc' = [pc EXCEPT ![u] = l],
           pc[u] \notin {"handle", "drop_cas"}, l \notin {"handle", "drop_cas"},
           \A w \in Users : w # u => result'[w] = result[w]
    PROVE  /\ Owners' = Owners
           /\ \A w \in Owners : w # u /\ result'[w] = result[w]
           /\ {result[w] : w \in Owners}' = {result[w] : w \in Owners}
<1>1. \A w \in Users : w # u => pc'[w] = pc[w]
  BY DEF TypeOK
<1>2. pc'[u] = l
  BY DEF TypeOK
<1>3. \A w \in Owners : w # u /\ result'[w] = result[w]
  BY DEF Owners
<1>4. Owners' = Owners
  BY <1>1, <1>2 DEF Owners
<1> QED BY <1>3, <1>4

(* The claim of get_buffer: only this user's locals change. *)
LEMMA ClaimFacts ==
    ASSUME TypeOK, NEW u \in Users, Claim(u, mask)
    PROVE  /\ val'[u] = mask /\ (~IsFull(mask) => result'[u] = LowestClear(mask))
           /\ \A w \in Users : w # u => val'[w] = val[w] /\ result'[w] = result[w]
  BY DEF Claim, TypeOK

(* Each step keeps what the closures left, and lets no bit outlive the     *)
(* owners of its buffer.                                                   *)
LEMMA PoolStep == ASSUME PoolInv, [Next]_vars PROVE PoolInv'
<1> USE DEF PoolInv
<1>0. TypeOK'
  BY PoolTypeStep
<1> DEFINE Owned == {result[w] : w \in Owners}
<1>1. ASSUME NEW u \in Users, GetBuffer(u) PROVE PoolInv'
  <2>1. \A w \in Users : w # u => result'[w] = result[w] /\ pc'[w] = pc[w]
    BY <1>1 DEF GetBuffer, TypeOK
  <2>2. pc' = [pc EXCEPT ![u] = "start"] /\ pc[u] = "idle" /\ pc'[u] = "start"
        /\ mask' = mask /\ val' = val
    BY <1>1 DEF GetBuffer, TypeOK
  <2>3. Owned' = Owned
    BY <2>1, <2>2, NonOwnerStep, Zenon
  <2>4. NoBufferLeaks'
    BY <2>2, <2>3 DEF NoBufferLeaks
  <2>5. ClaimsAreKept'
    BY <2>1, <2>2, Zenon DEF ClaimsAreKept
  <2> QED BY <1>0, <2>4, <2>5
<1>2. ASSUME NEW u \in Users, Claim(u, mask), UNCHANGED mask,
             pc' = [pc EXCEPT ![u] = "get_cas"], pc[u] \in {"start", "get_cas"}
      PROVE  PoolInv'
  <2>1. \A w \in Users : w # u => result'[w] = result[w] /\ pc'[w] = pc[w] /\ val'[w] = val[w]
    BY <1>2, ClaimFacts DEF TypeOK
  <2>2. Owned' = Owned
    BY <1>2, <2>1, NonOwnerStep, Zenon
  <2>3. NoBufferLeaks'
    BY <1>2, <2>2, Zenon DEF NoBufferLeaks
  <2>4. pc'[u] = "get_cas" /\ val'[u] = mask /\ (~IsFull(mask) => result'[u] = LowestClear(mask))
    BY <1>2, ClaimFacts DEF TypeOK
  <2>5. ClaimsAreKept'
    BY <2>1, <2>4 DEF ClaimsAreKept
  <2> QED BY <1>0, <2>3, <2>5
<1>3. ASSUME NEW u \in Users, GetLoad(u) PROVE PoolInv'
  BY <1>2, <1>3, Zenon DEF GetLoad
<1>4. ASSUME NEW u \in Users, GetCas(u) PROVE PoolInv'
  <2>1. CASE mask # val[u]
    <3>1. pc' = [pc EXCEPT ![u] = "get_cas"]
      BY <1>4, <2>1 DEF GetCas, TypeOK
    <3> QED BY <1>2, <1>4, <2>1, <3>1, Zenon DEF GetCas
  <2>2. CASE mask = val[u]
    <3>1. /\ pc[u] = "get_cas" /\ pc'[u] = "handle" /\ mask' = Claimed(mask)
          /\ val' = val /\ result' = result
          /\ \A w \in Users : w # u => pc'[w] = pc[w]
      BY <1>4, <2>2 DEF GetCas, TypeOK
    <3>2. ClaimsAreKept'
      BY <3>1 DEF ClaimsAreKept
    <3>3. Owners \subseteq Owners'
      BY <3>1 DEF Owners
    <3>4. mask \subseteq Owned'
      BY <3>1, <3>3 DEF NoBufferLeaks
    <3>5. CASE IsFull(mask)
      <4>1. NoBufferLeaks'
        BY <3>1, <3>4, <3>5 DEF NoBufferLeaks, Claimed
      <4> QED BY <1>0, <3>2, <4>1, Zenon
    <3>6. CASE ~IsFull(mask)
      <4>1. result[u] = LowestClear(mask) /\ LowestClear(mask) \in Slots
        BY <2>2, <3>1, <3>6, LowestClearIsClear DEF ClaimsAreKept, TypeOK
      <4>2. result[u] # None
        BY <4>1, PoolOK DEF Slots
      <4>3. u \in Owners'
        BY <3>1, <4>2 DEF Owners
      <4>4. result[u] \in Owned'
        BY <3>1, <4>3, Zenon
      <4>5. NoBufferLeaks'
        BY <3>1, <3>4, <3>6, <4>1, <4>4 DEF NoBufferLeaks, Claimed
      <4> QED BY <1>0, <3>2, <4>5
    <3> QED BY <3>5, <3>6, Zenon
  <2> QED BY <2>1, <2>2
<1>5. ASSUME NEW u \in Users, DropLoad(u) PROVE PoolInv'
  <2>1. /\ pc[u] = "handle" /\ result' = result /\ mask' = mask
        /\ pc'[u] = (IF result[u] = None THEN "idle" ELSE "drop_cas")
        /\ \A w \in Users : w # u => pc'[w] = pc[w] /\ val'[w] = val[w]
    BY <1>5 DEF DropLoad, TypeOK
  <2>2. Owners' = Owners
    BY <2>1 DEF Owners
  <2>3. NoBufferLeaks'
    BY <2>1, <2>2 DEF NoBufferLeaks
  <2>4. ClaimsAreKept'
    BY <2>1 DEF ClaimsAreKept
  <2> QED BY <1>0, <2>3, <2>4
<1>6. ASSUME NEW u \in Users, DropCas(u) PROVE PoolInv'
  <2>1. /\ pc[u] = "drop_cas" /\ result' = result
        /\ pc'[u] \in {"idle", "drop_cas"}
        /\ \A w \in Users : w # u => pc'[w] = pc[w] /\ val'[w] = val[w]
    BY <1>6 DEF DropCas, TypeOK
  <2>2. ClaimsAreKept'
    BY <2>1 DEF ClaimsAreKept
  <2>3. CASE mask # val[u]
    <3>1. pc' = pc /\ mask' = mask
      BY <1>6, <2>3 DEF DropCas
    <3>2. Owners' = Owners
      BY <2>1, <3>1 DEF Owners
    <3>3. NoBufferLeaks'
      BY <2>1, <3>1, <3>2 DEF NoBufferLeaks
    <3> QED BY <1>0, <2>2, <3>3
  <2>4. CASE mask = val[u]
    <3>1. mask' = mask \ {result[u]}
      BY <1>6, <2>4 DEF DropCas
    <3>2. Owners \ {u} \subseteq Owners'
      BY <2>1 DEF Owners
    <3>3. ASSUME NEW i \in mask' PROVE i \in Owned'
      <4>1. PICK w \in Owners : i = result[w]
        BY <3>1, <3>3 DEF NoBufferLeaks
      <4>2. w # u
        BY <3>1, <3>3, <4>1
      <4> QED BY <2>1, <3>2, <4>1, <4>2
    <3>4. NoBufferLeaks'
      BY <3>3 DEF NoBufferLeaks
    <3> QED BY <1>0, <2>2, <3>4
  <2> QED BY <2>3, <2>4
<1>7. CASE UNCHANGED vars
  BY <1>0, <1>7 DEF vars, ClaimsAreKept, NoBufferLeaks, Owners
<1> QED BY <1>1, <1>3, <1>4, <1>5, <1>6, <1>7 DEF Next

LEMMA PoolStart == ASSUME Init PROVE PoolInv /\ MaskIsExact /\ OwnersDiffer /\ NeverFull /\ BuffersAreApart
<1>1. PICK frame \in [0 .. FrameCount - 1 -> Frames] :
        /\ \A i, j \in DOMAIN frame : frame[i] = frame[j] => i = j
        /\ buffers = New(frame)
  BY Zenon DEF Init
<1>2. BuffersAreApart
  BY <1>1, NewIsApart, Zenon DEF BuffersAreApart
<1>3. buffers \in [Slots -> Nat]
  <2>1. buffers = [i \in Slots |-> frame[i \div PerPage] * PageSize + (i % PerPage) * Size]
    BY <1>1 DEF New
  <2>2. ASSUME NEW i \in Slots PROVE frame[i \div PerPage] * PageSize + (i % PerPage) * Size \in Nat
    <3>1. frame[i \div PerPage] \in Nat /\ i % PerPage \in Nat /\ PageSize \in Nat /\ Size \in Nat
      <4>1. i \in Nat /\ PerPage \in Nat \ {0}
        BY PageIsFilled, PoolOK DEF Slots
      <4>2. i % PerPage \in 0 .. PerPage - 1
        BY <4>1, Division, Zenon
      <4>3. frame[i \div PerPage] \in Frames
        BY FramesSuffice
      <4> DEFINE f == frame[i \div PerPage]
                 a == i % PerPage
      <4>4. a \in 0 .. PerPage - 1 /\ f \in Frames
        BY <4>2, <4>3
      <4> HIDE DEF f, a
      <4>5. a \in Nat /\ f \in Nat /\ PageSize \in Nat /\ Size \in Nat
        BY <4>1, <4>4, PoolOK, NewAsserts
      <4> QED BY <4>5 DEF f, a
    <3> DEFINE f == frame[i \div PerPage]
               a == i % PerPage
    <3> HIDE DEF f, a
    <3>2. f * PageSize + a * Size \in Nat
      BY <3>1 DEF f, a
    <3> QED BY <3>2 DEF f, a
  <2> QED BY <2>1, <2>2
<1>4. Owners = {} /\ mask = {}
  BY DEF Init, Owners
<1>5. TypeOK
  BY <1>3 DEF Init, TypeOK
<1>6. ClaimsAreKept /\ NeverFull
  BY DEF Init, ClaimsAreKept, NeverFull
<1>7. NoBufferLeaks /\ MaskIsExact /\ OwnersDiffer
  BY <1>4 DEF NoBufferLeaks, MaskIsExact, OwnersDiffer
<1> QED BY <1>2, <1>5, <1>6, <1>7 DEF PoolInv

(* With enough buffers a user that owns none never finds the mask full:    *)
(* every bit is one of another user's.                                     *)
LEMMA RoomLeft ==
    ASSUME EnoughBuffers, TypeOK, MaskIsExact, NEW u \in Users, u \notin Owners
    PROVE  ~IsFull(mask)
<1> DEFINE f == [i \in Slots |-> CHOOSE w \in Owners : result[w] = i]
           Rest_ == Users \ {u}
<1>1. SUFFICES ASSUME mask = Slots PROVE FALSE
  BY DEF IsFull
<1>2. \A i \in Slots : f[i] \in Owners /\ result[f[i]] = i
  BY <1>1 DEF MaskIsExact
<1>3. Owners \subseteq Rest_
  BY DEF Owners
<1> HIDE DEF f
<1>4. f \in [Slots -> Rest_] /\ \A i, j \in Slots : f[i] = f[j] => i = j
  <2>1. \A i \in Slots : f[i] \in Rest_
    BY <1>2, <1>3
  <2>2. f \in [Slots -> Rest_]
    BY <2>1 DEF f
  <2> QED BY <1>2, <2>2
<1>5. IsFiniteSet(Rest_) /\ Cardinality(Rest_) = Cardinality(Users) - 1 /\ Cardinality(Users) \in Nat
  BY PoolOK, FS_RemoveElement, FS_CardinalityType
<1>6. f \in Injection(Slots, Rest_)
  BY <1>4 DEF Injection, IsInjective
<1>7. Cardinality(Slots) <= Cardinality(Rest_)
  BY <1>5, <1>6, FS_Injection
<1>8. Cardinality(Slots) = Count
  BY PoolOK, FS_Interval DEF Slots
<1> QED BY <1>5, <1>7, <1>8, PoolOK DEF EnoughBuffers

LEMMA RoomyStep == ASSUME EnoughBuffers, RoomyInv, [Next]_vars PROVE RoomyInv'
<1>0. PoolInv' /\ PoolInv /\ TypeOK /\ TypeOK'
  BY PoolStep DEF RoomyInv, PoolInv
<1>1. BuffersAreApart'
  <2>1. buffers' = buffers
    BY DEF Next, vars, GetBuffer, GetLoad, GetCas, DropLoad, DropCas
  <2> QED BY <2>1 DEF RoomyInv, BuffersAreApart
<1> DEFINE Owned == {result[w] : w \in Owners}
           Goal == MaskIsExact' /\ OwnersDiffer' /\ NeverFull'
<1>2. ASSUME NEW u \in Users, GetBuffer(u) PROVE Goal
  <2>1. /\ \A w \in Users : w # u => result'[w] = result[w] /\ pc'[w] = pc[w]
        /\ pc' = [pc EXCEPT ![u] = "start"] /\ pc[u] = "idle" /\ pc'[u] = "start"
        /\ mask' = mask /\ val' = val
    BY <1>0, <1>2 DEF GetBuffer, TypeOK
  <2>2. Owned' = Owned /\ Owners' = Owners /\ \A w \in Owners : result'[w] = result[w]
    BY <1>0, <2>1, NonOwnerStep, Zenon
  <2> QED BY <2>1, <2>2 DEF RoomyInv, MaskIsExact, OwnersDiffer, NeverFull
<1>3. ASSUME NEW u \in Users, Claim(u, mask), UNCHANGED mask,
             pc' = [pc EXCEPT ![u] = "get_cas"], pc[u] \in {"start", "get_cas"}
      PROVE  Goal
  <2>1. /\ \A w \in Users : w # u => result'[w] = result[w] /\ pc'[w] = pc[w] /\ val'[w] = val[w]
        /\ val'[u] = mask
    BY <1>0, <1>3, ClaimFacts DEF TypeOK
  <2>2. Owned' = Owned /\ Owners' = Owners /\ \A w \in Owners : result'[w] = result[w]
    BY <1>0, <1>3, <2>1, NonOwnerStep, Zenon
  <2>3. ~IsFull(mask)
    BY <1>0, <1>3, RoomLeft DEF Owners, RoomyInv
  <2>4. MaskIsExact' /\ OwnersDiffer'
    BY <1>3, <2>2 DEF RoomyInv, MaskIsExact, OwnersDiffer
  <2>5. NeverFull'
    BY <1>3, <2>1, <2>3 DEF RoomyInv, NeverFull
  <2> QED BY <2>4, <2>5
<1>4. ASSUME NEW u \in Users, GetLoad(u) PROVE Goal
  BY <1>3, <1>4, Zenon DEF GetLoad
<1>5. ASSUME NEW u \in Users, GetCas(u) PROVE Goal
  <2>1. CASE mask # val[u]
    <3>1. pc' = [pc EXCEPT ![u] = "get_cas"]
      BY <1>0, <1>5, <2>1 DEF GetCas, TypeOK
    <3> QED BY <1>3, <1>5, <2>1, <3>1, Zenon DEF GetCas
  <2>2. CASE mask = val[u]
    <3>1. /\ pc[u] = "get_cas" /\ pc'[u] = "handle" /\ mask' = Claimed(mask)
          /\ val' = val /\ result' = result
          /\ \A w \in Users : w # u => pc'[w] = pc[w]
      BY <1>0, <1>5, <2>2 DEF GetCas, TypeOK
    <3>2. ~IsFull(mask) /\ result[u] = LowestClear(mask)
      BY <1>0, <2>2, <3>1 DEF RoomyInv, NeverFull, PoolInv, ClaimsAreKept
    <3>3. result[u] \in Slots \ mask /\ result[u] # None
      BY <1>0, <3>2, LowestClearIsClear, PoolOK DEF TypeOK, Slots
    <3>4. Owners' = Owners \union {u}
      BY <3>1, <3>3 DEF Owners
    <3>5. Owned' = Owned \union {result[u]}
      BY <3>1, <3>4
    <3>6. mask' = mask \union {result[u]} /\ mask = Owned
      BY <3>1, <3>2 DEF Claimed, RoomyInv, MaskIsExact
    <3>7. MaskIsExact'
      BY <3>5, <3>6 DEF MaskIsExact
    <3>8. \A w \in Owners : result[w] # result[u]
      BY <3>3, <3>6, Zenon
    <3>9. OwnersDiffer'
      BY <3>1, <3>4, <3>8 DEF RoomyInv, OwnersDiffer
    <3>10. NeverFull'
      BY <3>1 DEF RoomyInv, NeverFull
    <3> QED BY <3>7, <3>9, <3>10
  <2> QED BY <2>1, <2>2
<1>6. ASSUME NEW u \in Users, DropLoad(u) PROVE Goal
  <2>1. /\ pc[u] = "handle" /\ result' = result /\ mask' = mask
        /\ pc'[u] = (IF result[u] = None THEN "idle" ELSE "drop_cas")
        /\ \A w \in Users : w # u => pc'[w] = pc[w] /\ val'[w] = val[w]
    BY <1>0, <1>6 DEF DropLoad, TypeOK
  <2>2. Owners' = Owners
    BY <2>1 DEF Owners
  <2> QED BY <2>1, <2>2 DEF RoomyInv, MaskIsExact, OwnersDiffer, NeverFull
<1>7. ASSUME NEW u \in Users, DropCas(u) PROVE Goal
  <2>1. /\ pc[u] = "drop_cas" /\ result' = result
        /\ pc'[u] \in {"idle", "drop_cas"}
        /\ \A w \in Users : w # u => pc'[w] = pc[w] /\ val'[w] = val[w]
    BY <1>0, <1>7 DEF DropCas, TypeOK
  <2>2. NeverFull'
    BY <2>1, Zenon DEF RoomyInv, NeverFull
  <2>3. CASE mask # val[u]
    <3>1. pc' = pc /\ mask' = mask
      BY <1>7, <2>3 DEF DropCas
    <3>2. Owners' = Owners
      BY <2>1, <3>1 DEF Owners
    <3> QED BY <2>1, <2>2, <3>1, <3>2 DEF RoomyInv, MaskIsExact, OwnersDiffer
  <2>4. CASE mask = val[u]
    <3>1. mask' = mask \ {result[u]} /\ pc'[u] = "idle"
      BY <1>0, <1>7, <2>4, Zenon DEF DropCas, TypeOK
    <3>2. u \in Owners /\ Owners' = Owners \ {u}
      BY <1>0, <2>1, <3>1 DEF Owners, PoolInv, ClaimsAreKept
    <3>3. OwnersDiffer'
      BY <2>1, <3>2 DEF RoomyInv, OwnersDiffer
    <3>4. Owned' = Owned \ {result[u]}
      BY <2>1, <3>2 DEF RoomyInv, OwnersDiffer
    <3>5. MaskIsExact'
      BY <3>1, <3>4, Zenon DEF RoomyInv, MaskIsExact
    <3> QED BY <2>2, <3>3, <3>5
  <2> QED BY <2>3, <2>4
<1>8. ASSUME UNCHANGED vars PROVE Goal
  <2>1. mask' = mask /\ pc' = pc /\ val' = val /\ result' = result
    BY <1>8 DEF vars
  <2>2. Owners' = Owners
    BY <2>1 DEF Owners
  <2> QED BY <2>1, <2>2 DEF RoomyInv, MaskIsExact, OwnersDiffer, NeverFull
<1> QED BY <1>0, <1>1, <1>2, <1>4, <1>5, <1>6, <1>7, <1>8 DEF Next, RoomyInv

(* The locals and the mask of the pool keep their types. *)
THEOREM PoolTypeCorrect == Spec => []TypeOK
<1>1. PoolInv => TypeOK
  BY DEF PoolInv
<1> QED BY <1>1, PoolStart, PoolStep, PTL DEF Spec

(* However full the pool is and whatever exchanges fail, no bit of the     *)
(* mask outlives the owners of its buffer: no buffer is lost for good.     *)
THEOREM PoolNeverLeaks == Spec => []NoBufferLeaks
<1>1. PoolInv => NoBufferLeaks
  BY DEF PoolInv
<1> QED BY <1>1, PoolStart, PoolStep, PTL DEF Spec

(* With as many buffers as users, no two handles share memory and the mask *)
(* shows exactly the buffers that are owned.                               *)
THEOREM PoolIsAccounted == ASSUME EnoughBuffers PROVE Spec => []BuffersAreAccounted
<1>1. Init => RoomyInv
  BY PoolStart DEF RoomyInv
<1>2. RoomyInv /\ [Next]_vars => RoomyInv'
  BY RoomyStep
<1>3. RoomyInv => BuffersAreAccounted
  <2> SUFFICES ASSUME RoomyInv, NEW u \in Owners, NEW w \in Owners, u # w
               PROVE  \/ buffers[result[u]] + Size <= buffers[result[w]]
                      \/ buffers[result[w]] + Size <= buffers[result[u]]
    BY Zenon DEF BuffersAreAccounted, BuffersAreExclusive, RoomyInv
  <2>1. result[u] \in Slots /\ result[w] \in Slots /\ result[u] # result[w]
    BY DEF Owners, RoomyInv, PoolInv, TypeOK, OwnersDiffer
  <2> QED BY <2>1 DEF RoomyInv, BuffersAreApart
<1> QED BY <1>1, <1>2, <1>3, PTL DEF Spec
=============================================================================
