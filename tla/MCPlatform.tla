----------------------------- MODULE MCPlatform -----------------------------
(***************************************************************************)
(* What the kernel does once, at boot, and what it asks of the machine     *)
(* later, for TLC: the start of the CPUs, the routing of interrupts, the   *)
(* naming of the drives, the clock, paths, and the block map of a file.    *)
(* They touch no state of each other, so in a behaviour one of them moves  *)
(* and the others rest.                                                    *)
(***************************************************************************)
EXTENDS BootSync, MCApic, MCStorage, MCClock, Path, BlockMap

VARIABLE part

platformVars == <<part, vars, apicVars, storageVars, clockVars, pathVars, blockVars>>

MCStrings == UNION {[1 .. n -> {"/", ".", "a"}] : n \in 0 .. 6}
MCOthers == {<<>>, <<"a">>, <<"/", "a">>, <<"/", "/">>, <<".", ".", "/", "a">>}

(* The CPUs are up, as a boot without delays at the barrier leaves them. *)
BootDone ==
    /\ pc = [c \in Cpus |-> "kernel"]
    /\ pitLock = None /\ pit = [left |-> 0, by |-> Bsp]
    /\ count = Cardinality(Aps) /\ allReady = TRUE /\ ready = TRUE
    /\ skew = [c \in Cpus |-> 1] /\ now = MaxNow /\ opened = MaxNow
    /\ sample = [c \in Cpus |-> Tsc(c)] /\ base = Tsc(Bsp)
    /\ offset = [c \in Cpus |-> IF c = Bsp THEN 0 ELSE base - sample[c]]

ApicResting == madt = <<>> /\ ApicRest
StorageResting == controllers = <<>> /\ StorageRest
ClockResting == ClockRest(At(1970, 1, 1, 0, 0, 0), [binary |-> TRUE, h24 |-> TRUE, century |-> TRUE])
                /\ rpc = "wait" /\ reading = NoReading /\ retries = FALSE
PathResting == PathRest(<<>>)
BlocksResting == BlockMapRest(FALSE)

PlatformInit ==
    /\ part \in {"boot", "apic", "storage", "clock", "path", "blocks"}
    /\ IF part = "boot" THEN Init ELSE BootDone
    /\ IF part = "apic" THEN ApicInit ELSE ApicResting
    /\ IF part = "storage" THEN StorageInit ELSE StorageResting
    /\ IF part = "clock" THEN ClockInit ELSE ClockResting
    /\ IF part = "path" THEN PathInit ELSE PathResting
    /\ IF part = "blocks" THEN BlockMapInit ELSE BlocksResting

PlatformNext ==
    /\ UNCHANGED part
    /\ \/ part = "boot" /\ Next /\ UNCHANGED <<apicVars, storageVars, clockVars, pathVars, blockVars>>
       \/ part = "apic" /\ ApicNext /\ UNCHANGED <<vars, storageVars, clockVars, pathVars, blockVars>>
       \/ part = "storage" /\ StorageNext /\ UNCHANGED <<vars, apicVars, clockVars, pathVars, blockVars>>
       \/ part = "clock" /\ ClockNext /\ UNCHANGED <<vars, apicVars, storageVars, pathVars, blockVars>>
       \/ part = "path" /\ PathNext /\ UNCHANGED <<vars, apicVars, storageVars, clockVars, blockVars>>
       \/ part = "blocks" /\ BlockMapNext
          /\ UNCHANGED <<vars, apicVars, storageVars, clockVars, pathVars>>

(* The fairness of BootSync, while the CPUs start. *)
PlatformFairSpec ==
    /\ PlatformInit /\ [][PlatformNext]_platformVars
    /\ WF_vars(part = "boot" /\ BspStep) /\ WF_vars(part = "boot" /\ Tick)
    /\ \A c \in Aps : WF_vars(part = "boot" /\ ApStep(c))
=============================================================================
