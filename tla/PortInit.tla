------------------------------ MODULE PortInit ------------------------------
(***************************************************************************)
(* How an AHCI controller is brought up: AhciHba::init (sata/ahci.rs)      *)
(* looks for the MSI capability and takes the ports in turn, each through  *)
(* AhciSata::new and AhciSata::init (sata/mod.rs) up to the identification *)
(* of its drive.  A port keeps what the firmware left in it.  The hardware *)
(* is external: PxCMD.CR and FR follow ST and FRE after a while, a drive   *)
(* may or may not wake up or become ready, and a command that fails keeps  *)
(* its bit in PxCI or ends with the error bit of PxTFD set.  A wait reads  *)
(* the register and then the clock.                                        *)
(***************************************************************************)
EXTENDS Integers, Sequences, FiniteSets

CONSTANTS
    Controllers,    \* [caps, is64, ports]: what may be on the bus
    MaxPorts        \* the most ports of one

PortStates == [
    sig : {"ata", "other"},
    det : {"absent", "nophy", "present", "offline"},    \* PxSSTS.DET
    ipm : {"none", "active", "sleep"},                  \* PxSSTS.IPM
    st : BOOLEAN, fre : BOOLEAN, cr : BOOLEAN, fr : BOOLEAN, \* PxCMD
    ie : BOOLEAN,                       \* PxIE
    base : {"old", "ours"},             \* PxCLB and PxFB
    ci : BOOLEAN,                       \* slot 0 in PxCI
    comreset : BOOLEAN, icc : BOOLEAN,  \* asked for in PxSCTL and PxCMD
    busy : BOOLEAN,                     \* BSY or DRQ in PxTFD
    good : BOOLEAN]                     \* the drive carries out IDENTIFY

ASSUME ControllersOK ==
    /\ MaxPorts \in Nat
    /\ \A c \in Controllers :
        c.is64 \in BOOLEAN /\ c.ports \in Seq(PortStates) /\ Len(c.ports) <= MaxPorts

VARIABLES
    hpc,        \* where the driver is
    hba,        \* the controller
    msi_at,     \* which capability was written as the MSI capability, 0: none
    at,         \* the port it is at
    port,       \* the registers of the ports
    status,     \* PxSSTS as read first in init
    saw,        \* the engine was seen to have stopped
    late,       \* more than a second passed in this wait
    up          \* devices: the ports handed to the storage layer

portVars == <<hpc, hba, msi_at, at, port, status, saw, late, up>>

PortRest ==
    /\ hpc = "hba" /\ msi_at = 0 /\ at = 1 /\ port = hba.ports
    /\ status = [det |-> "absent", ipm |-> "none"]
    /\ saw = FALSE /\ late = FALSE /\ up = {}

PortInit == hba \in Controllers /\ PortRest

-----------------------------------------------------------------------------
(* The hardware *)
Change(p, q) == port[p] # q /\ port' = [port EXCEPT ![p] = q]

EngineFollows(p) ==
    /\ \/ Change(p, [port[p] EXCEPT !.cr = port[p].st])
       \/ Change(p, [port[p] EXCEPT !.fr = port[p].fre])
    /\ UNCHANGED <<hpc, hba, msi_at, at, status, saw, late, up>>

DriveWakes(p) ==
    /\ \/ port[p].comreset /\ Change(p, [port[p] EXCEPT !.det = "present", !.ipm = "active"])
       \/ port[p].icc /\ Change(p, [port[p] EXCEPT !.ipm = "active"])
    /\ UNCHANGED <<hpc, hba, msi_at, at, status, saw, late, up>>

DriveReady(p) ==
    /\ Change(p, [port[p] EXCEPT !.busy = FALSE])
    /\ UNCHANGED <<hpc, hba, msi_at, at, status, saw, late, up>>

Identifies(p) ==
    /\ port[p].ci /\ port[p].cr
    /\ Change(p, [port[p] EXCEPT !.ci = FALSE])
    /\ UNCHANGED <<hpc, hba, msi_at, at, status, saw, late, up>>

SecondPasses ==
    /\ ~late /\ late' = TRUE
    /\ UNCHANGED <<hpc, hba, msi_at, at, port, status, saw, up>>

-----------------------------------------------------------------------------
(* AhciHba::init.  The pointer of the loop over the capabilities shadows   *)
(* the one used after it, which stays at the first capability.             *)
HbaInit ==
    /\ hpc = "hba"
    /\ IF "msi" \in {hba.caps[k] : k \in DOMAIN hba.caps}
       THEN msi_at' = 1 /\ hpc' = IF hba.is64 THEN "new" ELSE "done"
       ELSE msi_at' = 0 /\ hpc' = "done"
    /\ UNCHANGED <<hba, at, port, status, saw, late, up>>

Port == port[at]
SetPort(q) == port' = [port EXCEPT ![at] = q]
GoTo(l) == hpc' = l /\ UNCHANGED <<hba, msi_at, at, up>>
NextPort == hpc' = "new" /\ at' = at + 1 /\ UNCHANGED <<hba, msi_at, status, saw, late>>

PortsDone ==
    /\ hpc = "new" /\ at > Len(port)
    /\ GoTo("done")
    /\ UNCHANGED <<port, status, saw, late>>

(* AhciSata::new: only a drive that is there. *)
new ==
    /\ hpc = "new" /\ at <= Len(port)
    /\ IF Port.sig # "ata" \/ Port.det \in {"absent", "nophy"}
       THEN NextPort /\ UNCHANGED <<port, up>>
       ELSE GoTo("init") /\ UNCHANGED <<port, status, saw, late>>

(* Five contiguous frames for it are expected.                             *)
NoMemory ==
    /\ hpc = "new" /\ at <= Len(port)
    /\ Port.sig = "ata" /\ Port.det \notin {"absent", "nophy"}
    /\ GoTo("no_memory") /\ UNCHANGED <<port, status, saw, late>>

reset_cmd(q) == [q EXCEPT !.st = FALSE, !.fre = FALSE]

(* init: interrupts off, then COMRESET for a drive that is offline. *)
ReadStatus ==
    /\ hpc = "init"
    /\ status' = [det |-> Port.det, ipm |-> Port.ipm]
    /\ SetPort([Port EXCEPT !.ie = FALSE])
    /\ GoTo("wake") /\ UNCHANGED <<saw, late>>

WakeUp ==
    /\ hpc = "wake"
    /\ IF status.det = "offline" \/ status.ipm = "none"
       THEN SetPort([reset_cmd(Port) EXCEPT !.comreset = TRUE]) /\ late' = FALSE /\ GoTo("det")
       ELSE GoTo("power") /\ UNCHANGED <<port, late>>
    /\ UNCHANGED <<status, saw>>

WaitDet ==
    /\ hpc = "det"
    /\ IF Port.det = "present"
       THEN SetPort([reset_cmd(Port) EXCEPT !.comreset = FALSE]) /\ GoTo("power")
       ELSE GoTo("det_clock") /\ UNCHANGED port
    /\ UNCHANGED <<status, saw, late>>

(* And power for a link that slept when the status was read. *)
PowerUp ==
    /\ hpc = "power"
    /\ IF status.ipm # "active"
       THEN SetPort([Port EXCEPT !.icc = TRUE]) /\ late' = FALSE /\ GoTo("ipm")
       ELSE GoTo("reset") /\ UNCHANGED <<port, late>>
    /\ UNCHANGED <<status, saw>>

WaitIpm ==
    /\ hpc = "ipm"
    /\ IF Port.ipm = "active"
       THEN SetPort([reset_cmd(Port) EXCEPT !.comreset = FALSE]) /\ GoTo("reset")
       ELSE GoTo("ipm_clock") /\ UNCHANGED port
    /\ UNCHANGED <<status, saw, late>>

(* reset: nothing to do if the port is idle, else stop it and wait. *)
is_idle_Started(q) == ~q.st /\ ~q.fre
is_idle(q) == ~q.st /\ ~q.cr /\ ~q.fre /\ ~q.fr

ResetPort ==
    /\ hpc = "reset"
    /\ IF is_idle(Port) THEN GoTo("bases") /\ UNCHANGED <<port, late>>
       ELSE SetPort(reset_cmd(Port)) /\ late' = FALSE /\ GoTo("stop")
    /\ UNCHANGED <<status, saw>>

WaitStop ==
    /\ hpc = "stop"
    /\ saw' = (~Port.cr /\ ~Port.fr)
    /\ GoTo("stop_clock") /\ UNCHANGED <<port, status, late>>

(* The wait for the engine looks at the clock first, the others after. *)
Again == [det_clock |-> "det", ipm_clock |-> "ipm", stop_clock |-> "stop", tfd_clock |-> "tfd"]

CheckClock_Never ==
    /\ hpc \in DOMAIN Again
    /\ GoTo(IF hpc = "stop_clock" /\ saw THEN "bases" ELSE Again[hpc])
    /\ UNCHANGED <<port, status, saw, late>>

CheckClock ==
    /\ hpc \in DOMAIN Again
    /\ IF late THEN NextPort /\ UNCHANGED <<port, up>>
       ELSE /\ GoTo(IF hpc = "stop_clock" /\ saw THEN "bases" ELSE Again[hpc])
            /\ UNCHANGED <<port, status, saw, late>>

(* The addresses of the command list and of the received FISes, then the   *)
(* drive has to be ready.                                                  *)
WriteBases ==
    /\ hpc = "bases"
    /\ SetPort([Port EXCEPT !.base = "ours"])
    /\ late' = FALSE
    /\ GoTo("tfd") /\ UNCHANGED <<status, saw>>

WaitReady ==
    /\ hpc = "tfd"
    /\ IF ~Port.busy THEN SetPort([Port EXCEPT !.fre = TRUE]) /\ GoTo("fr")
       ELSE GoTo("tfd_clock") /\ UNCHANGED port
    /\ UNCHANGED <<status, saw, late>>

(* These waits have no clock. *)
StartEngine ==
    /\ hpc = "fr" /\ Port.fr
    /\ SetPort([Port EXCEPT !.fre = TRUE, !.st = TRUE])
    /\ GoTo("cr") /\ UNCHANGED <<status, saw, late>>

WaitRunning ==
    /\ hpc = "cr" /\ Port.cr
    /\ GoTo("issue") /\ UNCHANGED <<port, status, saw, late>>

(* identify in slot 0, then interrupts. *)
IssueIdentify ==
    /\ hpc = "issue"
    /\ SetPort([Port EXCEPT !.ci = TRUE])
    /\ GoTo("identify") /\ UNCHANGED <<status, saw, late>>

PortUp_Early ==
    /\ hpc = "identify"
    /\ Port.good /\ ~Port.busy
    /\ SetPort([Port EXCEPT !.ie = TRUE])
    /\ up' = up \union {at}
    /\ NextPort

(* The command has ended: without an error, or the kernel panics.          *)
PortUp ==
    /\ hpc = "identify" /\ ~Port.ci
    /\ Port.good /\ ~Port.busy
    /\ SetPort([Port EXCEPT !.ie = TRUE])
    /\ up' = up \union {at}
    /\ NextPort

IdentifyPanics ==
    /\ hpc = "identify" /\ ~Port.ci
    /\ ~Port.good \/ Port.busy
    /\ GoTo("panic") /\ UNCHANGED <<port, status, saw, late>>

Driver ==
    \/ HbaInit \/ PortsDone \/ new \/ NoMemory \/ ReadStatus \/ WakeUp \/ WaitDet \/ PowerUp \/ WaitIpm
    \/ ResetPort \/ WaitStop \/ CheckClock \/ WriteBases \/ WaitReady \/ StartEngine \/ WaitRunning
    \/ IssueIdentify \/ PortUp \/ IdentifyPanics

Hardware(p) == EngineFollows(p) \/ DriveWakes(p) \/ DriveReady(p) \/ Identifies(p)

PortNext == Driver \/ SecondPasses \/ \E p \in DOMAIN port : Hardware(p)

(* The driver runs alone on the boot CPU; time passes; the engine follows  *)
(* its bits and a drive that can identify itself does.  Nothing is assumed *)
(* of a drive that sleeps or is busy.                                      *)
PortSpec ==
    /\ PortInit /\ [][PortNext]_portVars
    /\ WF_portVars(Driver) /\ WF_portVars(SecondPasses)
    /\ \A p \in 1 .. MaxPorts :
        /\ WF_portVars(p \in DOMAIN port /\ EngineFollows(p))
        /\ WF_portVars(p \in DOMAIN port /\ port[p].good /\ Identifies(p))

-----------------------------------------------------------------------------
(* The addresses of the port change only while its engine is stopped and   *)
(* will not start by itself, also when the wake-up has just cleared ST and *)
(* FRE and reset finds nothing to do.                                      *)
BasesWrittenStopped ==
    [][\A p \in DOMAIN port : port'[p].base # port[p].base =>
          ~port[p].st /\ ~port[p].cr /\ ~port[p].fre /\ ~port[p].fr]_portVars

(* A port that is handed on is in the state the driver task starts from:   *)
(* the drive there and awake, the engine running on our addresses, no      *)
(* command left, interrupts enabled.                                       *)
PortsUpAreReady ==
    \A p \in up :
        /\ port[p].sig = "ata" /\ port[p].det = "present" /\ port[p].ipm = "active"
        /\ port[p].st /\ port[p].cr /\ port[p].fre /\ port[p].fr
        /\ port[p].base = "ours" /\ ~port[p].ci /\ ~port[p].busy /\ port[p].ie

(* The set-up of a controller ends whether its drives wake up or not, if   *)
(* each carries out IDENTIFY: a port that times out is passed over.  Only  *)
(* the expect of AhciSata::new can end it early.                           *)
SetupEnds ==
    (\A p \in DOMAIN port : port[p].good) ~> hpc \in {"done", "no_memory"}
=============================================================================
