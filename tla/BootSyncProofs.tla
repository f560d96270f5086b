--------------------------- MODULE BootSyncProofs ---------------------------
(***************************************************************************)
(* Proofs about BootSync, for any number of CPUs, any skews and delays:    *)
(* the inductive invariant is TypeOK with LockInv (who measures has        *)
(* PIT_LOCK and programmed the PIT), BarrierInv (the counter counts the    *)
(* CPUs that have arrived) and ClockInv (no counter is read before the     *)
(* barrier opens, and the base is the boot CPU's reading).                 *)
(***************************************************************************)
EXTENDS BootSync, FiniteSetTheorems, TLAPS

-----------------------------------------------------------------------------
(* The CPUs and their clocks.                                              *)

Holding == {"timer_wait", "timer_load", "tsc_wait", "tsc_store"}
AfterArrive == {"follow_wait", "base_wait", "ready_wait", "kernel"}
Sampled == {"base_wait", "ready_wait", "kernel"}
Synced == {"ready_wait", "kernel"}
LeadRead == LeadOpen \ {"lead_read"}

Arrived == {c \in Aps : pc[c] \in AfterArrive}

LockInv ==
    /\ \A c \in Cpus : pc[c] \in Holding => pitLock = c
    /\ PitIsOwn

BarrierInv ==
    /\ count = Cardinality(Arrived)
    /\ allReady <=> pc[Bsp] \in LeadOpen
    /\ allReady => Arrived = Aps /\ opened <= now
    /\ ~allReady => opened = MaxNow + 1
    /\ \A c \in Aps : pc[c] \in Sampled => allReady

ClockInv ==
    /\ \A c \in Aps : pc[c] \notin Sampled => sample[c] = 0
    /\ pc[Bsp] \notin LeadRead => sample[Bsp] = 0
    /\ \A c \in Aps : pc[c] \in Sampled => sample[c] >= opened + skew[c]
    /\ pc[Bsp] \in LeadRead => sample[Bsp] >= opened + skew[Bsp]
    /\ base # 0 => base = sample[Bsp] /\ pc[Bsp] \in LeadRead \ {"lead_store"}
    /\ \A c \in Aps : pc[c] \in Synced => base # 0 /\ offset[c] = base - sample[c]

BootInv == TypeOK /\ LockInv /\ BarrierInv /\ ClockInv

-----------------------------------------------------------------------------
(* The other CPUs are finitely many, one less than all of them.            *)
LEMMA ApsFinite ==
    IsFiniteSet(Aps) /\ Cardinality(Aps) = Cardinality(Cpus) - 1
    /\ Cardinality(Cpus) \in Nat /\ Cardinality(Aps) \in Nat
  BY BootAssumption, FS_RemoveElement, FS_CardinalityType DEF Aps

(* The CPUs that have arrived are some of the others; when they are as     *)
(* many, they are all of them.                                             *)
LEMMA ArrivedFacts ==
    /\ IsFiniteSet(Arrived) /\ Cardinality(Arrived) \in 0..Cardinality(Aps)
    /\ Cardinality(Arrived) = Cardinality(Aps) => Arrived = Aps
  <1>1. Arrived \subseteq Aps
    BY DEF Arrived
  <1>2. IsFiniteSet(Arrived) /\ Cardinality(Arrived) <= Cardinality(Aps)
        /\ (Cardinality(Arrived) = Cardinality(Aps) => Arrived = Aps)
    BY <1>1, ApsFinite, FS_Subset
  <1> QED
    BY <1>2, ApsFinite, FS_CardinalityType

(* What a CPU reads from its counter.                                      *)
LEMMA TscFacts ==
    ASSUME TypeOK, NEW c \in Cpus
    PROVE  Tsc(c) \in Nat \ {0} /\ Tsc(c) = now + skew[c] /\ skew[c] \in Nat
  <1>a. skew[c] \in Skews
    BY DEF TypeOK
  <1>b. now \in Nat
    BY BootAssumption DEF TypeOK
  <1>1. skew[c] \in Nat \ {0} /\ now \in Nat
    BY <1>a, <1>b, BootAssumption, Zenon
  <1> QED
    BY <1>1 DEF Tsc

-----------------------------------------------------------------------------
(* The type invariant is preserved by every step.                          *)
LEMMA TypeStep == TypeOK /\ BarrierInv /\ [Next]_vars => TypeOK'
  <1> SUFFICES ASSUME TypeOK, BarrierInv, [Next]_vars PROVE TypeOK'
    OBVIOUS
  <1> USE BootAssumption, ApsFinite
  <1>1. ASSUME NEW c \in Aps, StartAp(c) PROVE TypeOK'
    BY <1>1 DEF TypeOK, StartAp, Go, Sync, Aps, BspPcs, ApPcs
  <1>2. CASE AllStarted
    BY <1>2 DEF TypeOK, AllStarted, Go, Sync, Aps, BspPcs, ApPcs
  <1>3. ASSUME NEW c \in Cpus, CalibrateTimer(c) PROVE TypeOK'
    <2>1. CASE StartCountdown(c, "timer_lock", "timer_wait")
      BY <2>1 DEF TypeOK, StartCountdown, Go, Sync, Aps, BspPcs, ApPcs
    <2>2. CASE EndCountdown(c, "timer_wait", "timer_load")
      BY <2>2 DEF TypeOK, EndCountdown, Go, Sync, Aps, BspPcs, ApPcs
    <2>3. CASE DropPit(c, "timer_load", IF c = Bsp THEN "tsc_lock" ELSE "arrive")
      BY <2>3 DEF TypeOK, DropPit, Go, Sync, Aps, BspPcs, ApPcs
    <2>4. CASE GiveUp(c, "timer_lock")
      BY <2>4 DEF TypeOK, GiveUp, Go, Sync, Aps, BspPcs, ApPcs
    <2> QED BY <1>3, <2>1, <2>2, <2>3, <2>4, Zenon DEF CalibrateTimer
  <1>4. CASE CalibrateTsc
    <2>1. CASE StartCountdown(Bsp, "tsc_lock", "tsc_wait")
      BY <2>1 DEF TypeOK, StartCountdown, Go, Sync, Aps, BspPcs, ApPcs
    <2>2. CASE EndCountdown(Bsp, "tsc_wait", "tsc_store")
      BY <2>2 DEF TypeOK, EndCountdown, Go, Sync, Aps, BspPcs, ApPcs
    <2>3. CASE DropPit(Bsp, "tsc_store", "lead_wait")
      BY <2>3 DEF TypeOK, DropPit, Go, Sync, Aps, BspPcs, ApPcs
    <2>4. CASE GiveUp(Bsp, "tsc_lock")
      BY <2>4 DEF TypeOK, GiveUp, Go, Sync, Aps, BspPcs, ApPcs
    <2>5. CASE NoDateAtBoot
      BY <2>5 DEF TypeOK, NoDateAtBoot, Go, Sync, Aps, BspPcs, ApPcs
    <2> QED BY <1>4, <2>1, <2>2, <2>3, <2>4, <2>5, Zenon DEF CalibrateTsc
  <1>5. CASE OpenBarrier
    BY <1>5 DEF TypeOK, OpenBarrier, Go, Aps, BspPcs, ApPcs
  <1>6. CASE ReadLead
    <2>1. Tsc(Bsp) \in Nat
      BY TscFacts
    <2> QED
      BY <1>6, <2>1 DEF TypeOK, ReadLead, Go, Aps, BspPcs, ApPcs
  <1>7. CASE StoreBase
    BY <1>7 DEF TypeOK, StoreBase, Go, Aps, BspPcs, ApPcs
  <1>8. CASE Publish
    BY <1>8 DEF TypeOK, Publish, Go, Sync, Aps, BspPcs, ApPcs
  <1>9. ASSUME NEW c \in Aps, Arrive(c) PROVE TypeOK'
    <2>1. c \notin Arrived /\ c \in Aps /\ Arrived \subseteq Aps
      BY <1>9 DEF Arrived, Arrive, Go, AfterArrive
    <2>2. Cardinality(Arrived) # Cardinality(Aps)
      BY <2>1, ArrivedFacts
    <2>3. count + 1 \in 0..(Cardinality(Cpus) - 1)
      BY <2>2, ArrivedFacts, ApsFinite DEF BarrierInv
    <2> QED
      BY <1>9, <2>3 DEF TypeOK, Arrive, Go, Aps, BspPcs, ApPcs
  <1>10. ASSUME NEW c \in Aps, ReadFollow(c) PROVE TypeOK'
    <2>1. Tsc(c) \in Nat
      BY TscFacts DEF Aps
    <2> QED
      BY <1>10, <2>1 DEF TypeOK, ReadFollow, Go, Aps, BspPcs, ApPcs
  <1>11. ASSUME NEW c \in Aps, SetOffset(c) PROVE TypeOK'
    BY <1>11 DEF TypeOK, SetOffset, Go, Aps, BspPcs, ApPcs
  <1>12. ASSUME NEW c \in Aps, LoadKernelThread(c) PROVE TypeOK'
    BY <1>12 DEF TypeOK, LoadKernelThread, Go, Sync, Aps, BspPcs, ApPcs
  <1>13. CASE Tick
    BY <1>13 DEF TypeOK, Tick, Sync
  <1>14. CASE UNCHANGED vars
    BY <1>14 DEF TypeOK, vars
  <1>15. CASE FindMcfg
    BY <1>15 DEF TypeOK, FindMcfg, Go, Sync, Aps, BspPcs, ApPcs
  <1>16. CASE IdentifyStorageDevices
    BY <1>16 DEF TypeOK, IdentifyStorageDevices, Go, Sync, Aps, BspPcs, ApPcs
  <1> QED
    BY <1>1, <1>2, <1>3, <1>4, <1>5, <1>6, <1>7, <1>8, <1>9, <1>10, <1>11,
       <1>12, <1>13, <1>14, <1>15, <1>16, Zenon DEF Next, BspStep, ApStep, Aps

-----------------------------------------------------------------------------
(* A CPU keeps PIT_LOCK from the start of a countdown to the end of the    *)
(* calibration, so that no other CPU programs the PIT meanwhile.           *)
LEMMA LockStep == TypeOK /\ LockInv /\ [Next]_vars => LockInv'
  <1> SUFFICES ASSUME TypeOK, LockInv, [Next]_vars PROVE LockInv'
    OBVIOUS
  <1> USE BootAssumption DEF LockInv, PitIsOwn, Measuring, Holding
  <1>1. ASSUME NEW c \in Cpus, NEW at, NEW to, to \in Measuring,
               StartCountdown(c, at, to)
        PROVE  LockInv'
    BY <1>1 DEF TypeOK, StartCountdown, Go
  <1>2. ASSUME NEW c \in Cpus, NEW at, NEW to, at \in Measuring, to \notin Measuring,
               EndCountdown(c, at, to)
        PROVE  LockInv'
    BY <1>2 DEF TypeOK, EndCountdown, Go
  <1>3. ASSUME NEW c \in Cpus, NEW at, NEW to, at \in Holding, to \notin Holding,
               DropPit(c, at, to)
        PROVE  LockInv'
    BY <1>3 DEF TypeOK, DropPit, Go
  <1>a. ASSUME NEW c \in Cpus, NEW at, GiveUp(c, at) PROVE LockInv'
    BY <1>a DEF TypeOK, GiveUp, Go
  <1>b. CASE NoDateAtBoot
    BY <1>b DEF TypeOK, NoDateAtBoot, Go
  <1>4. ASSUME NEW c \in Cpus, CalibrateTimer(c) PROVE LockInv'
    BY <1>1, <1>2, <1>3, <1>4, <1>a DEF CalibrateTimer
  <1>5. CASE CalibrateTsc
    BY <1>1, <1>2, <1>3, <1>5, <1>a, <1>b DEF CalibrateTsc
  <1>6. ASSUME NEW c \in Aps, StartAp(c) PROVE LockInv'
    BY <1>6 DEF TypeOK, StartAp, Go, Aps
  <1>7. CASE AllStarted
    BY <1>7 DEF TypeOK, AllStarted, Go
  <1>8. CASE OpenBarrier \/ ReadLead \/ StoreBase
    BY <1>8 DEF TypeOK, OpenBarrier, ReadLead, StoreBase, Go
  <1>c. CASE FindMcfg \/ IdentifyStorageDevices \/ Publish
    BY <1>c DEF TypeOK, FindMcfg, IdentifyStorageDevices, Publish, Go
  <1>9. ASSUME NEW c \in Aps,
               Arrive(c) \/ ReadFollow(c) \/ SetOffset(c) \/ LoadKernelThread(c)
        PROVE  LockInv'
    BY <1>9 DEF TypeOK, Arrive, ReadFollow, SetOffset, LoadKernelThread, Go, Aps
  <1>10. CASE Tick
    BY <1>10 DEF TypeOK, Tick
  <1>11. CASE UNCHANGED vars
    BY <1>11 DEF vars
  <1> QED
    BY <1>4, <1>5, <1>6, <1>7, <1>8, <1>c, <1>9, <1>10, <1>11
    DEF Next, BspStep, ApStep, Aps

-----------------------------------------------------------------------------
(* What BarrierInv and ClockInv speak of is left alone by the steps before *)
(* the barrier: the CPU that moves stays on the near side of it.           *)
Near == {"start_aps", "parked", "timer_lock", "timer_wait", "timer_load",
         "tsc_lock", "tsc_wait", "tsc_store", "lead_wait", "arrive", "lock_panic"}

LEMMA NearStep ==
    ASSUME TypeOK, BarrierInv, ClockInv, NEW c \in Cpus,
           NEW at \in Near, NEW to \in Near, Go(c, at, to),
           UNCHANGED <<Sync, skew, now>>
    PROVE  BarrierInv' /\ ClockInv'
  <1>1. \A d \in Cpus : d # c => pc'[d] = pc[d]
    BY DEF Go, TypeOK
  <1>2. pc[c] \in Near /\ pc'[c] \in Near
    BY DEF Go, TypeOK
  <1>3. Arrived' = Arrived
    BY <1>1, <1>2 DEF Arrived, Near, AfterArrive, Aps
  <1>4. BarrierInv'
    BY <1>1, <1>2, <1>3, BootAssumption
    DEF BarrierInv, Near, LeadOpen, Sampled, Sync, Aps
  <1>5. ClockInv'
    BY <1>1, <1>2, BootAssumption
    DEF ClockInv, Near, LeadRead, LeadOpen, Sampled, Synced, Sync, Aps
  <1> QED
    BY <1>4, <1>5

(* The barrier opens when the counter has reached the number of the other  *)
(* CPUs: all of them have arrived.                                         *)
LEMMA OpenStep == BootInv /\ OpenBarrier => BarrierInv' /\ ClockInv'
  <1> SUFFICES ASSUME BootInv, OpenBarrier PROVE BarrierInv' /\ ClockInv'
    OBVIOUS
  <1>1. Arrived = Aps
    BY ArrivedFacts, ApsFinite DEF BootInv, BarrierInv, OpenBarrier
  <1>2. Arrived' = Arrived
    BY DEF BootInv, TypeOK, Arrived, OpenBarrier, Go, Aps
  <1>3. \A c \in Aps : pc'[c] = pc[c]
    BY DEF BootInv, TypeOK, OpenBarrier, Go, Aps
  <1>4. pc[Bsp] = "lead_wait" /\ pc'[Bsp] = "lead_read"
    BY BootAssumption DEF BootInv, TypeOK, OpenBarrier, Go
  <1>5. \A c \in Aps : pc[c] \notin Sampled
    BY <1>4 DEF BootInv, BarrierInv, LeadOpen
  <1>6. now \in Nat
    BY BootAssumption DEF BootInv, TypeOK
  <1>7. BarrierInv'
    <2>1. count' = Cardinality(Arrived')
      BY <1>2, Zenon DEF BootInv, BarrierInv, OpenBarrier
    <2>2. allReady' /\ pc'[Bsp] \in LeadOpen
      BY <1>4 DEF OpenBarrier, LeadOpen
    <2>3. opened' <= now'
      BY <1>6 DEF OpenBarrier
    <2>4. Arrived' = Aps'
      BY <1>1, <1>2 DEF Aps
    <2> QED
      BY <2>1, <2>2, <2>3, <2>4 DEF BarrierInv
  <1>8. ClockInv'
    BY <1>3, <1>4, <1>5
    DEF BootInv, ClockInv, OpenBarrier, LeadRead, LeadOpen, Sampled, Synced
  <1> QED
    BY <1>7, <1>8

(* The boot CPU's reading, the publication of the base and what it does    *)
(* from there on: the other CPUs stay where they are.                      *)
AfterLead == FindMcfg \/ IdentifyStorageDevices \/ Publish

LEMMA LeadStep ==
    BootInv /\ (ReadLead \/ StoreBase \/ AfterLead) => BarrierInv' /\ ClockInv'
  <1> SUFFICES ASSUME BootInv, ReadLead \/ StoreBase \/ AfterLead
               PROVE  BarrierInv' /\ ClockInv'
    OBVIOUS
  <1>a. PICK to \in LeadOpen : Go(Bsp, pc[Bsp], to) /\ pc[Bsp] \in LeadOpen
    BY DEF ReadLead, StoreBase, AfterLead, FindMcfg, IdentifyStorageDevices, Publish, Go, LeadOpen
  <1>b. UNCHANGED <<count, allReady, opened, now>>
    BY DEF ReadLead, StoreBase, AfterLead, FindMcfg, IdentifyStorageDevices, Publish, Sync
  <1>1. Arrived' = Arrived /\ \A c \in Aps : pc'[c] = pc[c]
    BY <1>a DEF BootInv, TypeOK, Arrived, Go, Aps
  <1>2. pc[Bsp] \in LeadOpen /\ pc'[Bsp] \in LeadOpen
    BY <1>a, BootAssumption, Zenon DEF BootInv, TypeOK, Go
  <1>3. BarrierInv'
    BY <1>1, <1>2, <1>b DEF BootInv, BarrierInv, Sampled
  <1>4. CASE ReadLead
    <2>1. pc[Bsp] = "lead_read" /\ pc'[Bsp] = "lead_store"
      BY <1>4, BootAssumption DEF BootInv, TypeOK, ReadLead, Go
    <2>2. base = 0
      BY <2>1 DEF BootInv, ClockInv, LeadRead, LeadOpen
    <2>3. sample'[Bsp] = now + skew[Bsp] /\ \A c \in Aps : sample'[c] = sample[c]
      BY <1>4, TscFacts, BootAssumption DEF BootInv, TypeOK, ReadLead, Aps
    <2>4. opened <= now /\ opened \in Nat /\ now \in Nat /\ skew[Bsp] \in Nat
      BY <1>2, TscFacts, BootAssumption DEF BootInv, BarrierInv, TypeOK
    <2>5. sample'[Bsp] >= opened' + skew'[Bsp]
      BY <1>4, <2>3, <2>4 DEF ReadLead
    <2>6. \A c \in Aps : /\ pc'[c] = pc[c] /\ sample'[c] = sample[c]
                         /\ offset'[c] = offset[c] /\ skew'[c] = skew[c]
      BY <1>1, <1>4, <2>3 DEF ReadLead
    <2>7. base' = 0 /\ opened' = opened /\ Aps' = Aps
      BY <1>4, <2>2 DEF ReadLead, Aps
    <2>8. ClockInv'
      BY <2>1, <2>2, <2>5, <2>6, <2>7 DEF BootInv, ClockInv, LeadRead, LeadOpen
    <2> QED
      BY <1>3, <2>8
  <1>5. CASE StoreBase
    <2>1. pc[Bsp] = "lead_store" /\ pc'[Bsp] = "mcfg"
      BY <1>5, BootAssumption DEF BootInv, TypeOK, StoreBase, Go
    <2>2. base = 0
      BY <2>1 DEF BootInv, ClockInv
    <2> QED
      BY <1>1, <1>3, <1>5, <2>1, <2>2
      DEF BootInv, ClockInv, StoreBase, LeadRead, LeadOpen, Sampled, Synced
  <1>6. CASE AfterLead
    <2>1. pc[Bsp] \in LeadRead \ {"lead_store"} /\ pc'[Bsp] \in LeadRead \ {"lead_store"}
      BY <1>6, BootAssumption
      DEF BootInv, TypeOK, AfterLead, FindMcfg, IdentifyStorageDevices, Publish, Go, LeadRead, LeadOpen
    <2>2. UNCHANGED <<Sync, skew>>
      BY <1>6 DEF AfterLead, FindMcfg, IdentifyStorageDevices, Publish
    <2> QED
      BY <1>1, <1>3, <2>1, <2>2 DEF BootInv, ClockInv, Sync, Aps
  <1> QED
    BY <1>4, <1>5, <1>6

(* One more CPU has arrived.                                               *)
LEMMA ArriveStep ==
    ASSUME BootInv, NEW c \in Aps, Arrive(c)
    PROVE  BarrierInv' /\ ClockInv'
  <1>1. \A d \in Cpus : d # c => pc'[d] = pc[d]
    BY DEF BootInv, TypeOK, Arrive, Go
  <1>2. pc[c] = "arrive" /\ pc'[c] = "follow_wait" /\ c # Bsp /\ Bsp \in Cpus /\ c \in Cpus
    BY BootAssumption DEF BootInv, TypeOK, Arrive, Go, Aps
  <1>3. Arrived' = Arrived \cup {c} /\ c \notin Arrived
    BY <1>1, <1>2 DEF Arrived, AfterArrive, Aps
  <1>4. Cardinality(Arrived') = Cardinality(Arrived) + 1
    BY <1>3, ArrivedFacts, FS_AddElement, Zenon
  <1>5. ~allReady
    BY <1>3 DEF BootInv, BarrierInv
  <1>6. BarrierInv'
    BY <1>1, <1>2, <1>4, <1>5, Zenon
    DEF BootInv, BarrierInv, Arrive, Sampled, Aps
  <1>7. ClockInv'
    BY <1>1, <1>2 DEF BootInv, ClockInv, Arrive, Sampled, Synced, Aps
  <1> QED
    BY <1>6, <1>7

(* The steps of another CPU behind the barrier.                            *)
LEMMA FollowStep ==
    ASSUME BootInv, NEW c \in Aps,
           ReadFollow(c) \/ SetOffset(c) \/ LoadKernelThread(c)
    PROVE  BarrierInv' /\ ClockInv'
  <1>1. \A d \in Cpus : d # c => pc'[d] = pc[d]
    BY DEF BootInv, TypeOK, ReadFollow, SetOffset, LoadKernelThread, Go
  <1>2. c # Bsp /\ Bsp \in Cpus /\ c \in Cpus /\ pc'[Bsp] = pc[Bsp]
    BY <1>1, BootAssumption DEF Aps
  <1>3. pc[c] \in AfterArrive /\ pc'[c] \in Sampled
    BY <1>2 DEF BootInv, TypeOK, ReadFollow, SetOffset, LoadKernelThread, Go,
               AfterArrive, Sampled
  <1>4. Arrived' = Arrived
    BY <1>1, <1>3 DEF Arrived, Sampled, AfterArrive, Aps
  <1>5. allReady
    BY <1>2 DEF BootInv, TypeOK, BarrierInv, ReadFollow, SetOffset,
                LoadKernelThread, Go, Sampled
  <1>6. BarrierInv'
    BY <1>1, <1>2, <1>4, <1>5, Zenon
    DEF BootInv, BarrierInv, ReadFollow, SetOffset, LoadKernelThread, Sync
  <1>7. CASE ReadFollow(c)
    <2>1. pc[c] = "follow_wait" /\ pc'[c] = "base_wait"
      BY <1>2, <1>7, Zenon DEF BootInv, TypeOK, ReadFollow, Go
    <2>2. sample'[c] = now + skew[c] /\ \A d \in Cpus : d # c => sample'[d] = sample[d]
      BY <1>2, <1>7, TscFacts, Zenon DEF BootInv, TypeOK, ReadFollow
    <2>3. opened <= now /\ opened \in Nat /\ now \in Nat /\ skew[c] \in Nat
      BY <1>2, <1>5, TscFacts, BootAssumption, SMTT(60) DEF BootInv, BarrierInv, TypeOK
    <2>4. UNCHANGED <<base, offset, skew, opened>> /\ ClockInv
      BY <1>7 DEF BootInv, ReadFollow
    <2>5. sample'[c] >= opened' + skew'[c]
      BY <2>2, <2>3, <2>4
    <2>6. /\ \A d \in Aps : pc'[d] \notin Sampled => sample'[d] = 0
          /\ \A d \in Aps : pc'[d] \in Sampled => sample'[d] >= opened' + skew'[d]
      <3> SUFFICES ASSUME NEW d \in Aps
                   PROVE  /\ pc'[d] \notin Sampled => sample'[d] = 0
                          /\ pc'[d] \in Sampled => sample'[d] >= opened' + skew'[d]
        OBVIOUS
      <3>1. CASE d = c BY <1>3, <2>5, <3>1, Zenon
      <3>2. CASE d # c BY <1>1, <2>2, <2>4, <3>2, Zenon DEF ClockInv, Aps
      <3> QED BY <3>1, <3>2
    <2>7. \A d \in Aps : pc'[d] \in Synced => base' # 0 /\ offset'[d] = base' - sample'[d]
      <3> SUFFICES ASSUME NEW d \in Aps, pc'[d] \in Synced
                   PROVE  base' # 0 /\ offset'[d] = base' - sample'[d]
        OBVIOUS
      <3>1. d # c BY <2>1 DEF Synced
      <3> QED BY <1>1, <2>2, <2>4, <3>1 DEF ClockInv, Aps
    <2>8. sample'[Bsp] = sample[Bsp]
      BY <1>2, <2>2, Zenon
    <2> QED
      BY <1>2, <1>6, <2>4, <2>6, <2>7, <2>8 DEF ClockInv
  <1>8. CASE SetOffset(c)
    <2>1. pc[c] = "base_wait" /\ pc'[c] = "ready_wait"
      BY <1>2, <1>8, Zenon DEF BootInv, TypeOK, SetOffset, Go
    <2>2. offset'[c] = base - sample[c] /\ \A d \in Cpus : d # c => offset'[d] = offset[d]
      BY <1>2, <1>8, Zenon DEF BootInv, TypeOK, SetOffset
    <2> QED
      BY <1>1, <1>2, <1>6, <1>8, <2>1, <2>2
      DEF BootInv, ClockInv, SetOffset, Sampled, Synced, Aps
  <1>9. CASE LoadKernelThread(c)
    <2>1. pc[c] = "ready_wait" /\ pc'[c] = "kernel"
      BY <1>2, <1>9 DEF BootInv, TypeOK, LoadKernelThread, Go
    <2> QED
      BY <1>1, <1>2, <1>6, <1>9, <2>1
      DEF BootInv, ClockInv, LoadKernelThread, Sync, Sampled, Synced, Aps
  <1> QED
    BY <1>7, <1>8, <1>9

(* The clock only goes on.                                                 *)
LEMMA TickStep == BootInv /\ (Tick \/ UNCHANGED vars) => BarrierInv' /\ ClockInv'
  <1> SUFFICES ASSUME BootInv, Tick \/ UNCHANGED vars
               PROVE  BarrierInv' /\ ClockInv'
    OBVIOUS
  <1>1. UNCHANGED <<pc, Sync, skew>>
    BY DEF Tick, vars, Sync
  <1>2. Arrived' = Arrived
    BY <1>1 DEF Arrived, Aps
  <1>3. now' >= now /\ now \in Nat /\ now' \in Nat /\ opened \in Nat
    BY BootAssumption DEF BootInv, TypeOK, Tick, vars
  <1>4. BarrierInv'
    BY <1>1, <1>2, <1>3 DEF BootInv, BarrierInv, Sync, Aps
  <1>5. ClockInv'
    BY <1>1 DEF BootInv, ClockInv, Sync, Aps
  <1> QED
    BY <1>4, <1>5

(* Every step keeps the barrier and the clocks right.                      *)
LEMMA SyncStep == BootInv /\ [Next]_vars => BarrierInv' /\ ClockInv'
  <1> SUFFICES ASSUME BootInv, [Next]_vars PROVE BarrierInv' /\ ClockInv'
    OBVIOUS
  <1> TypeOK /\ BarrierInv /\ ClockInv /\ Bsp \in Cpus /\ Aps \subseteq Cpus
    BY BootAssumption DEF BootInv, Aps
  <1>1. ASSUME NEW c \in Aps, StartAp(c) PROVE BarrierInv' /\ ClockInv'
    BY <1>1, NearStep DEF StartAp, Near
  <1>2. CASE AllStarted
    BY <1>2, NearStep, Zenon DEF AllStarted, Near
  <1>3. ASSUME NEW c \in Cpus, CalibrateTimer(c) PROVE BarrierInv' /\ ClockInv'
    BY <1>3, NearStep, Zenon DEF CalibrateTimer, StartCountdown, GiveUp, EndCountdown, DropPit, Near
  <1>4. CASE CalibrateTsc
    BY <1>4, NearStep, Zenon
    DEF CalibrateTsc, StartCountdown, GiveUp, NoDateAtBoot, EndCountdown, DropPit, Near
  <1> QED
    BY <1>1, <1>2, <1>3, <1>4, OpenStep, LeadStep, ArriveStep, FollowStep,
       TickStep, Zenon
    DEF Next, BspStep, ApStep, AfterLead

(* The initial states satisfy the inductive invariant.                     *)
LEMMA BootInit == Init => BootInv
  <1> SUFFICES ASSUME Init PROVE BootInv
    OBVIOUS
  <1> USE BootAssumption
  <1>1. TypeOK
    <2>1. count \in 0..(Cardinality(Cpus) - 1)
      BY ApsFinite DEF Init
    <2>2. /\ pc \in [Cpus -> BspPcs \cup ApPcs] /\ pc[Bsp] \in BspPcs
          /\ \A c \in Aps : pc[c] \in ApPcs
      BY DEF Init, Aps, BspPcs, ApPcs
    <2>3. now \in 0..MaxNow /\ opened \in 0..(MaxNow + 1)
      BY DEF Init
    <2>4. pit \in [left : 0..Divisor, by : Cpus \cup {None}]
      BY DEF Init
    <2>5. sample \in [Cpus -> Nat] /\ offset \in [Cpus -> Int] /\ base \in Nat
      BY DEF Init
    <2> QED
      BY <2>1, <2>2, <2>3, <2>4, <2>5, Zenon DEF Init, TypeOK
  <1>2. LockInv
    BY DEF Init, LockInv, PitIsOwn, Measuring, Holding
  <1>3. Arrived = {}
    BY DEF Init, Arrived, Aps, AfterArrive
  <1>4. BarrierInv
    BY <1>3, FS_EmptySet DEF Init, BarrierInv, Aps, LeadOpen, Sampled
  <1>5. ClockInv
    BY DEF Init, ClockInv, Aps, Sampled, Synced, LeadRead, LeadOpen
  <1> QED
    BY <1>1, <1>2, <1>4, <1>5 DEF BootInv

(* The inductive invariant holds in every reachable state.                 *)
THEOREM BootInvariant == Spec => []BootInv
  <1>1. BootInv /\ [Next]_vars => BootInv'
    BY TypeStep, LockStep, SyncStep DEF BootInv
  <1> QED
    BY <1>1, BootInit, PTL DEF Spec

-----------------------------------------------------------------------------
(* The type invariant: no CPU leaves its own path through the boot, and    *)
(* the barrier counts no CPU twice.                                        *)
THEOREM BootTypeCorrect == Spec => []TypeOK
  BY BootInvariant, PTL DEF BootInv

(* No CPU programs the PIT while another measures with it.                 *)
THEOREM CalibrationsAreExclusive == Spec => []PitIsOwn
  <1>1. BootInv => PitIsOwn
    BY DEF BootInv, LockInv
  <1> QED
    BY <1>1, BootInvariant, PTL

(* Nobody is let through the TSC barrier, and no counter is read, before   *)
(* all of the CPUs have come to it.                                        *)
THEOREM BarrierIsABarrier == Spec => []BarrierHolds
  <1>1. BootInv => BarrierHolds
    <2> SUFFICES ASSUME BootInv PROVE BarrierHolds
      OBVIOUS
    <2>1. CASE allReady
      BY <2>1 DEF BootInv, BarrierInv, BarrierHolds, Arrived, AfterArrive, LeadOpen
    <2>2. CASE ~allReady
      <3>1. opened > MaxNow
        BY <2>2, BootAssumption DEF BootInv, BarrierInv
      <3>2. \A c \in Aps : sample[c] = 0
        BY <2>2 DEF BootInv, BarrierInv, ClockInv
      <3>3. sample[Bsp] = 0
        BY <2>2, Zenon DEF BootInv, BarrierInv, ClockInv, LeadOpen, LeadRead
      <3> QED
        BY <3>1, <3>2, <3>3 DEF BarrierHolds, Aps
    <2> QED
      BY <2>1, <2>2
  <1> QED
    BY <1>1, BootInvariant, PTL

(* Once a CPU has its offset, its Instants and the boot CPU's differ by no *)
(* more than the delay of the later reading after the barrier opened.      *)
THEOREM OffsetsAreBounded == Spec => []InstantsAgree
  <1>1. BootInv => InstantsAgree
    <2> SUFFICES ASSUME BootInv, NEW c \in Aps, pc[c] \in Synced
                 PROVE  Ahead(c) <= ReadAfter(Bsp) /\ -Ahead(c) <= ReadAfter(c)
      BY Zenon DEF InstantsAgree, Synced
    <2>1. base # 0 /\ base = sample[Bsp] /\ offset[c] = base - sample[c]
          /\ sample[c] >= opened + skew[c] /\ sample[Bsp] >= opened + skew[Bsp]
      BY Zenon DEF BootInv, ClockInv, Synced, Sampled
    <2>2. /\ sample[c] \in Nat /\ sample[Bsp] \in Nat /\ opened \in Nat
          /\ skew[c] \in Nat /\ skew[Bsp] \in Nat
      BY TscFacts, BootAssumption DEF BootInv, TypeOK, Aps
    <2>3. Ahead(c) = skew[c] + (sample[Bsp] - sample[c]) - skew[Bsp]
      BY <2>1 DEF Ahead
    <2> QED
      BY <2>1, <2>2, <2>3 DEF ReadAfter
  <1> QED
    BY <1>1, BootInvariant, PTL

(* Together: for any number of CPUs, skews and delays the counters agree   *)
(* as well as the barrier lets them.                                       *)
THEOREM CpusAgree == Spec => []CountersAgree
  BY BarrierIsABarrier, OffsetsAreBounded, PTL DEF CountersAgree
=============================================================================
