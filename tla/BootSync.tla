------------------------------ MODULE BootSync ------------------------------
(***************************************************************************)
(* Bringing the CPUs up: the boot CPU (Bsp) starts the others in           *)
(* initialize_mp, every CPU calibrates its APIC timer against the one PIT, *)
(* the boot CPU calibrates the TSC too, and all of them meet at the TSC    *)
(* barrier, where the others take their tsc_offset from a reading of the   *)
(* boot CPU's counter.  The boot CPU then looks for the storage devices    *)
(* and publishes the executor.  A CPU that panics halts with what it holds *)
(* (hcf), and the others go on.                                            *)
(*                                                                         *)
(* Time is a clock `now`; the TSC of CPU c is now + skew[c].  A CPU may be *)
(* delayed for any time between two of its steps (an interrupt, a log      *)
(* line, a host that runs something else).  A countdown of the PIT that    *)
(* has ended stays ended until the PIT is programmed again: in the code    *)
(* the counter shows it for some 45 ms.                                    *)
(***************************************************************************)
EXTENDS Integers, FiniteSets

CONSTANTS Cpus, Bsp,
          Divisor,    \* TEN_MS_DIVISOR: what the PIT counts down from
          Skews,      \* what a TSC may be ahead of the clock
          MaxNow,     \* bound on the clock
          None

ASSUME BootAssumption ==
    /\ IsFiniteSet(Cpus) /\ Bsp \in Cpus /\ None \notin Cpus
    /\ Divisor \in Nat \ {0}
    /\ Skews \subseteq Nat \ {0} /\ Skews # {}
    /\ MaxNow \in Nat

VARIABLES pc,       \* CPU -> where it is
          pitLock,  \* PIT_LOCK: the CPU that has it, or None
          pit,      \* the countdown: what is left, and who programmed it
          count,    \* TSC_CORE_SYNC_COUNT
          allReady, \* TSC_SYNC_IS_ALL_CORE_READY
          base,     \* TSC_SYNC_BASE
          sample,   \* CPU -> the counter it read at the barrier, or 0
          offset,   \* CPU -> tsc_offset in its per CPU data
          ready,    \* IS_EXECUTOR_READY
          skew, now,
          opened    \* when the barrier opened (not in the code)

vars == <<pc, pitLock, pit, count, allReady, base, sample, offset, ready,
          skew, now, opened>>

Aps == Cpus \ {Bsp}
Tsc(c) == now + skew[c]

(* The CPUs between configure_pit_with_divisor and the end of the wait.    *)
Measuring == {"timer_wait", "tsc_wait"}

BspPcs == {"start_aps", "timer_lock", "timer_wait", "timer_load", "tsc_lock",
           "tsc_wait", "tsc_store", "lead_wait", "lead_read", "lead_store",
           "mcfg", "storage", "publish", "kernel", "lock_panic", "init_panic"}
ApPcs == {"parked", "timer_lock", "timer_wait", "timer_load", "arrive",
          "follow_wait", "base_wait", "ready_wait", "kernel", "lock_panic"}

(* The boot CPU has opened the barrier. *)
LeadOpen == {"lead_read", "lead_store", "mcfg", "storage", "publish", "kernel", "init_panic"}

Go(c, at, to) == pc[c] = at /\ pc' = [pc EXCEPT ![c] = to]

Init ==
    /\ pc = [c \in Cpus |-> IF c = Bsp THEN "start_aps" ELSE "parked"]
    /\ pitLock = None
    /\ pit = [left |-> 0, by |-> None]
    /\ count = 0 /\ allReady = FALSE /\ base = 0
    /\ sample = [c \in Cpus |-> 0]
    /\ offset = [c \in Cpus |-> 0]
    /\ ready = FALSE
    /\ skew \in [Cpus -> Skews]
    /\ now = 0
    /\ opened = MaxNow + 1

Sync == <<count, allReady, base, sample, offset, opened>>

-----------------------------------------------------------------------------
(* initialize_mp: goto_address of one AP after the other.                  *)
StartAp(c) ==
    /\ pc[Bsp] = "start_aps"
    /\ Go(c, "parked", "timer_lock")
    /\ UNCHANGED <<pitLock, pit, Sync, ready, skew, now>>

AllStarted ==
    /\ \A c \in Aps : pc[c] # "parked"
    /\ Go(Bsp, "start_aps", "timer_lock")
    /\ UNCHANGED <<pitLock, pit, Sync, ready, skew, now>>

(* The head of calibrate_timer and of calibrate_tsc: take PIT_LOCK and     *)
(* start the countdown.                                                    *)
StartCountdown_NoLock(c, at, to) ==
    /\ pitLock' = c
    /\ pit' = [left |-> Divisor, by |-> c]
    /\ Go(c, at, to)
    /\ UNCHANGED <<Sync, ready, skew, now>>

StartCountdown(c, at, to) ==
    /\ pitLock = None
    /\ pitLock' = c
    /\ pit' = [left |-> Divisor, by |-> c]
    /\ Go(c, at, to)
    /\ UNCHANGED <<Sync, ready, skew, now>>

(* lock() panics after 10,000,000 spins, deadlock or not: the CPUs queue   *)
(* for PIT_LOCK, and each keeps it for the 10 ms it measures.              *)
GiveUp(c, at) ==
    /\ pitLock # None
    /\ Go(c, at, "lock_panic")
    /\ UNCHANGED <<pitLock, pit, Sync, ready, skew, now>>

(* calibrate_tsc expects the date at boot, with PIT_LOCK taken.            *)
NoDateAtBoot ==
    /\ pitLock = None
    /\ pitLock' = Bsp
    /\ Go(Bsp, "tsc_lock", "lock_panic")
    /\ UNCHANGED <<pit, Sync, ready, skew, now>>

(* The read of the PIT that ends the loop.                                 *)
EndCountdown(c, at, to) ==
    /\ pit.left = 0
    /\ Go(c, at, to)
    /\ UNCHANGED <<pitLock, pit, Sync, ready, skew, now>>

(* Storing what was measured, and dropping the guard.                      *)
DropPit(c, at, to) ==
    /\ Go(c, at, to)
    /\ pitLock' = None
    /\ UNCHANGED <<pit, Sync, ready, skew, now>>

CalibrateTimer(c) ==
    \/ StartCountdown(c, "timer_lock", "timer_wait")
    \/ GiveUp(c, "timer_lock")
    \/ EndCountdown(c, "timer_wait", "timer_load")
    \/ DropPit(c, "timer_load", IF c = Bsp THEN "tsc_lock" ELSE "arrive")

CalibrateTsc ==
    \/ StartCountdown(Bsp, "tsc_lock", "tsc_wait")
    \/ GiveUp(Bsp, "tsc_lock")
    \/ NoDateAtBoot
    \/ EndCountdown(Bsp, "tsc_wait", "tsc_store")
    \/ DropPit(Bsp, "tsc_store", "lead_wait")

-----------------------------------------------------------------------------
OpenBarrier_OneMissing ==
    /\ count >= Cardinality(Cpus) - 2
    /\ Go(Bsp, "lead_wait", "lead_read")
    /\ allReady' = TRUE
    /\ opened' = now
    /\ UNCHANGED <<pitLock, pit, count, base, sample, offset, ready, skew, now>>

(* sync_tsc_lead.                                                          *)
OpenBarrier ==
    /\ count = Cardinality(Cpus) - 1
    /\ Go(Bsp, "lead_wait", "lead_read")
    /\ allReady' = TRUE
    /\ opened' = now
    /\ UNCHANGED <<pitLock, pit, count, base, sample, offset, ready, skew, now>>

ReadLead ==
    /\ Go(Bsp, "lead_read", "lead_store")
    /\ sample' = [sample EXCEPT ![Bsp] = Tsc(Bsp)]
    /\ UNCHANGED <<pitLock, pit, count, allReady, base, offset, ready, skew,
                   now, opened>>

StoreBase ==
    /\ Go(Bsp, "lead_store", "mcfg")
    /\ base' = sample[Bsp]
    /\ UNCHANGED <<pitLock, pit, count, allReady, sample, offset, ready, skew,
                   now, opened>>

(* init() from there to the end.  The tables are expected to be there ...  *)
FindMcfg ==
    /\ \E to \in {"storage", "init_panic"} : Go(Bsp, "mcfg", to)
    /\ UNCHANGED <<pitLock, pit, Sync, ready, skew, now>>

(* ... a drive may make identify_storage_devices panic, or keep it waiting *)
(* for ever (module PortInit) ...                                          *)
IdentifyStorageDevices ==
    /\ \E to \in {"publish", "init_panic"} : Go(Bsp, "storage", to)
    /\ UNCHANGED <<pitLock, pit, Sync, ready, skew, now>>

(* ... and then the executor is there for everyone.                        *)
Publish ==
    /\ Go(Bsp, "publish", "kernel")
    /\ ready' = TRUE
    /\ UNCHANGED <<pitLock, pit, Sync, skew, now>>

-----------------------------------------------------------------------------
(* sync_tsc_follow.                                                        *)
Arrive(c) ==
    /\ Go(c, "arrive", "follow_wait")
    /\ count' = count + 1
    /\ UNCHANGED <<pitLock, pit, allReady, base, sample, offset, ready, skew,
                   now, opened>>

ReadFollow(c) ==
    /\ allReady
    /\ Go(c, "follow_wait", "base_wait")
    /\ sample' = [sample EXCEPT ![c] = Tsc(c)]
    /\ UNCHANGED <<pitLock, pit, count, allReady, base, offset, ready, skew,
                   now, opened>>

SetOffset_Swapped(c) ==
    /\ base # 0
    /\ Go(c, "base_wait", "ready_wait")
    /\ offset' = [offset EXCEPT ![c] = sample[c] - base]
    /\ UNCHANGED <<pitLock, pit, count, allReady, base, sample, ready, skew,
                   now, opened>>

SetOffset(c) ==
    /\ base # 0
    /\ Go(c, "base_wait", "ready_wait")
    /\ offset' = [offset EXCEPT ![c] = base - sample[c]]
    /\ UNCHANGED <<pitLock, pit, count, allReady, base, sample, ready, skew,
                   now, opened>>

LoadKernelThread_NeverReady(c) ==
    /\ ~ready
    /\ Go(c, "ready_wait", "kernel")
    /\ UNCHANGED <<pitLock, pit, Sync, ready, skew, now>>

LoadKernelThread(c) ==
    /\ ready
    /\ Go(c, "ready_wait", "kernel")
    /\ UNCHANGED <<pitLock, pit, Sync, ready, skew, now>>

-----------------------------------------------------------------------------
(* The clock and the PIT, which the clock drives.                          *)
Tick ==
    /\ now < MaxNow \/ pit.left > 0
    /\ now' = IF now < MaxNow THEN now + 1 ELSE now
    /\ pit' = [pit EXCEPT !.left = IF @ > 0 THEN @ - 1 ELSE 0]
    /\ UNCHANGED <<pc, pitLock, Sync, ready, skew>>

BspStep ==
    \/ AllStarted
    \/ (\E c \in Aps : StartAp(c))
    \/ CalibrateTimer(Bsp)
    \/ CalibrateTsc
    \/ OpenBarrier \/ ReadLead \/ StoreBase \/ FindMcfg \/ Publish

ApStep(c) ==
    \/ CalibrateTimer(c)
    \/ Arrive(c) \/ ReadFollow(c) \/ SetOffset(c) \/ LoadKernelThread(c)

Next == BspStep \/ IdentifyStorageDevices \/ (\E c \in Aps : ApStep(c)) \/ Tick

Spec == Init /\ [][Next]_vars

(* Every CPU executes its next instruction and the clock goes on; nothing  *)
(* is assumed of the drives.  The spin lock is not fair, but each CPU      *)
(* takes it once or twice only, so that it stays free in the end for the   *)
(* one that still spins.                                                   *)
FairSpec ==
    /\ Spec
    /\ WF_vars(BspStep) /\ WF_vars(Tick)
    /\ \A c \in Aps : WF_vars(ApStep(c))

-----------------------------------------------------------------------------
TypeOK ==
    /\ pc \in [Cpus -> BspPcs \cup ApPcs]
    /\ pc[Bsp] \in BspPcs
    /\ \A c \in Aps : pc[c] \in ApPcs
    /\ pitLock \in Cpus \cup {None}
    /\ pit \in [left : 0..Divisor, by : Cpus \cup {None}]
    /\ count \in 0..(Cardinality(Cpus) - 1)
    /\ allReady \in BOOLEAN /\ ready \in BOOLEAN
    /\ base \in Nat
    /\ sample \in [Cpus -> Nat]
    /\ offset \in [Cpus -> Int]
    /\ skew \in [Cpus -> Skews]
    /\ now \in 0..MaxNow
    /\ opened \in 0..(MaxNow + 1)

(* A CPU that waits for the PIT waits for the countdown it started itself: *)
(* nobody programs the PIT during a calibration.                           *)
PitIsOwn == \A c \in Cpus : pc[c] \in Measuring => pit.by = c

(* The barrier opens for nobody before every CPU has come to it, all of    *)
(* the calibrations done.                                                  *)
BarrierHolds ==
    \/ opened > MaxNow /\ (\A c \in Cpus : sample[c] = 0)
    \/ /\ \A c \in Aps : pc[c] \in {"follow_wait", "base_wait", "ready_wait", "kernel"}
       /\ pc[Bsp] \in LeadOpen

(* Once a CPU has its tsc_offset, Instant::now() on it and on the boot CPU *)
(* differ by no more than the time that passed between the opening of the  *)
(* barrier and the later of the two readings, whatever the skews are.      *)
Ahead(c) == skew[c] + offset[c] - skew[Bsp]
ReadAfter(c) == sample[c] - skew[c] - opened
InstantsAgree ==
    \A c \in Aps :
        pc[c] \in {"ready_wait", "kernel"} =>
            /\ Ahead(c) <= ReadAfter(Bsp)
            /\ -Ahead(c) <= ReadAfter(c)

(* The counters of the CPUs agree: no CPU passes the barrier early, and    *)
(* the offsets that follow are as good as the barrier.                     *)
CountersAgree == BarrierHolds /\ InstantsAgree

(* Every CPU reaches its kernel thread, if no CPU panics and the boot CPU  *)
(* gets through the storage devices: the two barriers and the queue for    *)
(* the PIT keep nobody for ever.                                           *)
EveryCpuStarts ==
    \/ <>(\E c \in Cpus : pc[c] \in {"lock_panic", "init_panic"})
    \/ <>[](pc[Bsp] = "storage")
    \/ \A c \in Cpus : <>(pc[c] = "kernel")

=============================================================================
