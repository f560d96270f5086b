------------------------------ MODULE AhciPort ------------------------------
(***************************************************************************)
(* One AHCI port: the clients of hal/storage.rs, the driver task           *)
(* (drivers/ata/sata/task.rs, io.rs, failure_reset of mod.rs), the         *)
(* interrupt handler and the device.                                       *)
(*                                                                         *)
(* The handler runs on the boot CPU, the task and the clients on any CPU,  *)
(* and the device on its own, so they all interleave.  The device is       *)
(* external: it executes the commands whose bit is set in PxCI while PxCMD *)
(* has ST, in any order, sets bits of PxIS and sends an MSI; clearing ST   *)
(* clears PxCI, and a write to PxCI without ST has no effect.              *)
(***************************************************************************)
EXTENDS Integers, Sequences, FiniteSets

CONSTANTS
    Users,    \* tasks that issue operations, one at a time each
    NumSlots,   \* num_cmd_slots, the number of command slots CAP reports
    Uses,       \* the ways the drive may be used: which clients issue which
                \* kinds of operations, and which faults the drive may have
    Lba48,      \* the drive supports 48-bit addresses
    MaxQueue,   \* bound: an interrupt is delivered while fewer messages are queued
    Nobody

ASSUME ConstantsOK ==
    /\ IsFiniteSet(Users)
    /\ Nobody \notin Users
    /\ NumSlots \in Nat \ {0}
    /\ Uses \subseteq [clients : SUBSET Users,
                      kinds : SUBSET {"Read", "Write", "Flush", "Identify"},
                      faults : SUBSET {"TFE", "FATAL", "NONFATAL"}]
    /\ Lba48 \in BOOLEAN
    /\ MaxQueue \in Nat \ {0}

(* start_operation searches 0..=max_cmd_slots, and max_cmd_slots is NumSlots. *)
Slots == 0 .. NumSlots

VARIABLES
    use,        \* the way the drive is used in this behaviour
    client,     \* client[c]: "idle", "waiting", or the result "Ok" or "Err"
    kind,       \* kind[c]: the operation client c issued last
    done,       \* history: what the device did with it, "no", "ok" or "failed"
    rx,         \* the request channel: the clients whose operations are queued
    operations, \* state.operations: the client whose operation is in the slot
    remaining,  \* state.remaining_operations
    launching,  \* the slot and the client start_operation is at, or Nobody
    tpc,        \* where the task is
    msg,        \* the interrupt data the task works on
    registered, \* AHCI_SENDERS_MAP holds the sender of the task
    channel,    \* the interrupt channel
    ipc,        \* where the interrupt handler is
    info,       \* the interrupt data it read
    table,      \* table[i]: whose command is in the command table of slot i
    st, ci, pxis, pxie, hbais,  \* ST, PxCI, PxIS, PxIE and the bit of IS
    halted,     \* the device stopped at an error until ST is cleared
    ccs,        \* PxCMD.CCS: the slot of the command that failed last
    msi         \* an interrupt message is pending at the CPU

clients == <<use, client, kind, done, rx>>
task == <<operations, remaining, launching, tpc, msg, registered>>
handler == <<ipc, info>>
device == <<table, st, ci, pxis, pxie, hbais, halted, ccs, msi>>
ahciVars == <<clients, task, channel, handler, device>>

NoInfo == [is |-> {}, ci |-> {}, ccs |-> 0]

(* enable_interrupts leaves the non-fatal error masked. *)
EnabledBits == {"DHR", "TFE", "FATAL"}

(* AhciSata::init has started the engine, identified the drive and enabled *)
(* interrupts; what was pending then was handled on the CPU that ran it.   *)
AhciInit ==
    /\ use \in Uses
    /\ client = [c \in Users |-> "idle"]
    /\ kind = [c \in Users |-> "Read"]
    /\ done = [c \in Users |-> "no"]
    /\ rx = <<>>
    /\ operations = [i \in Slots |-> Nobody]
    /\ remaining = NumSlots + 1
    /\ launching = Nobody
    /\ tpc = "start"
    /\ msg = NoInfo
    /\ registered = FALSE
    /\ channel = <<>>
    /\ ipc = "off"
    /\ info = NoInfo
    /\ table = [i \in Slots |-> Nobody]
    /\ st = TRUE
    /\ ci = {}
    /\ pxis = {}
    /\ pxie = TRUE
    /\ hbais = FALSE
    /\ halted = FALSE
    /\ ccs = 0
    /\ msi = FALSE

-----------------------------------------------------------------------------
(* The device *)

(* Bits appear in PxIS; an enabled one sets IS and sends a message. *)
Raise(bits) ==
    /\ pxis' = pxis \union bits
    /\ IF pxie /\ bits \intersect EnabledBits # {}
       THEN hbais' = TRUE /\ msi' = TRUE
       ELSE UNCHANGED <<hbais, msi>>

Execute(i) ==
    /\ st /\ ~halted
    /\ i \in ci
    /\ done' = [done EXCEPT ![table[i]] = "ok"]
    /\ ci' = ci \ {i}
    /\ Raise({"DHR"})
    /\ UNCHANGED <<use, client, kind, rx, task, channel, handler, table, st, pxie, halted, ccs>>

(* A command fails: its bit stays in PxCI and the device stops. *)
FailCommand(i) ==
    /\ "TFE" \in use.faults
    /\ st /\ ~halted
    /\ i \in ci
    /\ done' = [done EXCEPT ![table[i]] = "failed"]
    /\ halted' = TRUE
    /\ ccs' = i
    /\ Raise({"TFE"})
    /\ UNCHANGED <<use, client, kind, rx, task, channel, handler, table, st, ci, pxie>>

FatalError ==
    /\ "FATAL" \in use.faults
    /\ st /\ ~halted
    /\ halted' = TRUE
    /\ Raise({"FATAL"})
    /\ UNCHANGED <<clients, task, channel, handler, table, st, ci, pxie, ccs>>

NonFatalError ==
    /\ "NONFATAL" \in use.faults
    /\ st /\ ~halted /\ "NONFATAL" \notin pxis
    /\ Raise({"NONFATAL"})
    /\ UNCHANGED <<clients, task, channel, handler, table, st, ci, pxie, halted, ccs>>

(* Software clears ST. *)
StopEngine == st' = FALSE /\ ci' = {} /\ halted' = FALSE

-----------------------------------------------------------------------------
(* The users: read_sectors_by_idx and its siblings send an operation with a *)
(* cell and wait for the cell.                                             *)
Request(c, k) ==
    /\ c \in use.clients /\ k \in use.kinds
    /\ client[c] # "waiting"
    /\ client' = [client EXCEPT ![c] = "waiting"]
    /\ kind' = [kind EXCEPT ![c] = k]
    /\ done' = [done EXCEPT ![c] = "no"]
    /\ rx' = Append(rx, c)
    /\ UNCHANGED <<use, task, channel, handler, device>>

-----------------------------------------------------------------------------
(* The interrupt handler: ahci_interrupt_handler_by_idx and                *)
(* port_interrupt_handler.                                                 *)
Interrupt ==
    /\ ipc = "off"
    /\ msi
    /\ Len(channel) < MaxQueue
    /\ msi' = FALSE
    /\ ipc' = IF hbais THEN "read" ELSE "clear_hba"
    /\ UNCHANGED <<clients, task, channel, info, table, st, ci, pxis, pxie, hbais,
                   halted, ccs>>

ReadPort ==
    /\ ipc = "read"
    /\ info' = [is |-> pxis, ci |-> ci, ccs |-> ccs]
    /\ ipc' = "send"
    /\ UNCHANGED <<clients, task, channel, device>>

(* A task file error stops the engine; then the data goes to the task. *)
(* Mutant: the engine is not stopped.                                  *)
SendInfo_NoStop ==
    /\ ipc = "send"
    /\ channel' = IF registered THEN Append(channel, info) ELSE channel
    /\ ipc' = "clear_port"
    /\ UNCHANGED <<clients, task, info, device>>
SendInfo ==
    /\ ipc = "send"
    /\ IF "TFE" \in info.is THEN StopEngine ELSE UNCHANGED <<st, ci, halted>>
    /\ channel' = IF registered THEN Append(channel, info) ELSE channel
    /\ ipc' = "clear_port"
    /\ UNCHANGED <<clients, task, info, table, pxis, pxie, hbais, ccs, msi>>

(* PxIS is cleared of what it holds now, not of what was read. *)
ClearPort ==
    /\ ipc = "clear_port"
    /\ pxis' = {}
    /\ info' = NoInfo
    /\ ipc' = "clear_hba"
    /\ UNCHANGED <<clients, task, channel, table, st, ci, pxie, hbais, halted, ccs, msi>>

(* IS is cleared likewise; a port that has a bit pending sets it again. *)
ClearHba ==
    /\ ipc = "clear_hba"
    /\ ipc' = "off"
    /\ IF pxie /\ pxis \intersect EnabledBits # {}
       THEN hbais' = TRUE /\ msi' = TRUE
       ELSE hbais' = FALSE /\ UNCHANGED msi
    /\ UNCHANGED <<clients, task, channel, info, table, st, ci, pxis, pxie, halted, ccs>>

-----------------------------------------------------------------------------
(* Mutants of Answer: the operation stays in its slot; nothing is counted. *)
Answer_KeepsSlot(slots, result) ==
    LET busy == {i \in slots : operations[i] # Nobody}
    IN  /\ client' = [c \in Users |->
                        IF \E i \in busy : operations[i] = c THEN result ELSE client[c]]
        /\ UNCHANGED operations
        /\ remaining' = remaining + Cardinality(busy)
Answer_NoCount(slots, result) ==
    LET busy == {i \in slots : operations[i] # Nobody}
    IN  /\ client' = [c \in Users |->
                        IF \E i \in busy : operations[i] = c THEN result ELSE client[c]]
        /\ operations' = [i \in Slots |-> IF i \in busy THEN Nobody ELSE operations[i]]
        /\ UNCHANGED remaining

(* The task. finish_operation answers the clients of some slots, frees the *)
(* slots and counts them.                                                  *)
Answer(slots, result) ==
    LET busy == {i \in slots : operations[i] # Nobody}
    IN  /\ client' = [c \in Users |->
                        IF \E i \in busy : operations[i] = c THEN result ELSE client[c]]
        /\ operations' = [i \in Slots |-> IF i \in busy THEN Nobody ELSE operations[i]]
        /\ remaining' = remaining + Cardinality(busy)

(* The head of run_task: the sender goes into AHCI_SENDERS_MAP. *)
Register ==
    /\ tpc = "start"
    /\ registered' = TRUE
    /\ tpc' = "race"
    /\ UNCHANGED <<clients, operations, remaining, launching, msg, channel, handler, device>>

FreeSlots == {i \in Slots : operations[i] = Nobody}
FirstFree == CHOOSE i \in FreeSlots : \A j \in FreeSlots : i <= j

(* A command is written to the table of its slot. A read also clears PxIS  *)
(* and IS; reads and writes return at once without 48-bit addressing.      *)
IsIssued(c) == Lba48 \/ kind[c] = "Flush"

StartReadSectors(slot, c) ==
    /\ kind[c] = "Read"
    /\ table' = [table EXCEPT ![slot] = c]
    /\ pxis' = {} /\ hbais' = FALSE

StartWriteSectors(slot, c) ==
    /\ kind[c] = "Write"
    /\ table' = [table EXCEPT ![slot] = c]
    /\ UNCHANGED <<pxis, hbais>>

IssueFlush(slot, c) ==
    /\ kind[c] = "Flush"
    /\ table' = [table EXCEPT ![slot] = c]
    /\ UNCHANGED <<pxis, hbais>>

WriteCommand(slot, c) ==
    IF IsIssued(c)
    THEN StartReadSectors(slot, c) \/ StartWriteSectors(slot, c) \/ IssueFlush(slot, c)
    ELSE UNCHANGED <<table, pxis, hbais>>

(* race() polls the requests first. start_operation answers Identify by    *)
(* itself; otherwise it takes the first free slot, and when there is none  *)
(* the operation is dropped.                                               *)
StartOperation ==
    /\ tpc = "race"
    /\ rx # <<>>
    /\ rx' = Tail(rx)
    /\ LET c == Head(rx)
       IN  IF kind[c] = "Identify"
           THEN /\ client' = [client EXCEPT ![c] = "Ok"]
                /\ UNCHANGED <<remaining, launching, tpc, table, pxis, hbais>>
           ELSE /\ remaining' = remaining - 1
                /\ IF FreeSlots = {}
                   THEN UNCHANGED <<launching, tpc, table, pxis, hbais>>
                   ELSE /\ launching' = [slot |-> FirstFree, client |-> c]
                        /\ tpc' = "issue"
                        /\ WriteCommand(FirstFree, c)
                /\ UNCHANGED client
    /\ UNCHANGED <<use, kind, done, operations, msg, registered, channel, handler, st, ci, pxie,
                   halted, ccs, msi>>

(* The bit is written to PxCI and the operation is stored in its slot. *)
Issue ==
    /\ tpc = "issue"
    /\ LET c == launching.client
       IN  /\ ci' = IF st /\ IsIssued(c)
                    THEN ci \union {launching.slot} ELSE ci
           /\ operations' = [operations EXCEPT ![launching.slot] = c]
    /\ launching' = Nobody
    /\ tpc' = "race"
    /\ UNCHANGED <<clients, remaining, msg, registered, channel, handler, table, st, pxis,
                   pxie, hbais, halted, ccs, msi>>

(* The operations handle_interrupt finishes, and two mutants: those of the *)
(* first slot only; a task file error that is not told apart.              *)
Completed_First(data) == IF 0 \in ci THEN {} ELSE {0}
Completed(data) == Slots \ ci

IsTaskFileError_Never(data) == FALSE
IsTaskFileError(data) == "TFE" \in data.is

(* handle_interrupt: with a fatal error every operation fails and the port *)
(* is reset; with a non-fatal one they fail and com_reset panics; with a   *)
(* task file error the recovery starts; otherwise every operation whose    *)
(* bit is clear in PxCI now is done.                                       *)
HandleInterrupt ==
    /\ tpc = "race"
    /\ rx = <<>>
    /\ channel # <<>>
    /\ channel' = Tail(channel)
    /\ LET is == Head(channel).is
       IN  IF "FATAL" \in is
           THEN Answer(Slots, "Err") /\ tpc' = "reset" /\ UNCHANGED msg
           ELSE IF "NONFATAL" \in is
           THEN Answer(Slots, "Err") /\ tpc' = "panic" /\ UNCHANGED msg
           ELSE IF IsTaskFileError(Head(channel))
           THEN /\ tpc' = "tfe"
                /\ msg' = Head(channel)
                /\ UNCHANGED <<client, operations, remaining>>
           ELSE Answer(Completed(Head(channel)), "Ok") /\ UNCHANGED <<tpc, msg>>
    /\ UNCHANGED <<use, kind, done, rx, launching, registered, handler, device>>

(* The engine has stopped: PxIS is cleared and the failed command ends. *)
RecoverFinish ==
    /\ tpc = "tfe"
    /\ ~st
    /\ pxis' = {}
    /\ Answer({msg.ccs}, "Err")
    /\ tpc' = "tfe_start"
    /\ UNCHANGED <<use, kind, done, rx, launching, msg, registered, channel, handler, table, st,
                   ci, pxie, hbais, halted, ccs, msi>>

(* The engine is started, then the rest of the commands the handler saw in *)
(* PxCI is issued again.                                                   *)
RecoverStart ==
    /\ tpc = "tfe_start"
    /\ st' = TRUE
    /\ tpc' = "tfe_issue"
    /\ UNCHANGED <<clients, operations, remaining, launching, msg, registered, channel,
                   handler, table, ci, pxis, pxie, hbais, halted, ccs, msi>>

(* Mutant of Reissued: the failed command too. *)
Reissued_All == msg.ci
Reissued == msg.ci \ {msg.ccs}

RecoverIssue ==
    /\ tpc = "tfe_issue"
    /\ ci' = IF st THEN ci \union Reissued ELSE ci
    /\ msg' = NoInfo
    /\ tpc' = "race"
    /\ UNCHANGED <<clients, operations, remaining, launching, registered, channel, handler,
                   table, st, pxis, pxie, hbais, halted, ccs, msi>>

(* failure_reset: interrupts off and the engine stopped; three waits on    *)
(* the device, each of which starts over when it times out; then the       *)
(* engine and the interrupts are on again.                                 *)
ResetStop ==
    /\ tpc = "reset"
    /\ pxie' = FALSE
    /\ StopEngine
    /\ tpc' = "wait_stopped"
    /\ UNCHANGED <<clients, operations, remaining, launching, msg, registered, channel,
                   handler, table, pxis, hbais, ccs, msi>>

AfterWait ==
    [wait_stopped |-> "wait_phy", wait_phy |-> "wait_ready", wait_ready |-> "reset_start"]

ResetWait ==
    /\ tpc \in DOMAIN AfterWait
    /\ tpc' \in {AfterWait[tpc], "reset"}
    /\ UNCHANGED <<clients, operations, remaining, launching, msg, registered, channel,
                   handler, device>>

ResetStart ==
    /\ tpc = "reset_start"
    /\ st' = TRUE
    /\ pxie' = TRUE
    /\ IF pxis \intersect EnabledBits # {}
       THEN hbais' = TRUE /\ msi' = TRUE ELSE UNCHANGED <<hbais, msi>>
    /\ tpc' = "race"
    /\ UNCHANGED <<clients, operations, remaining, launching, msg, registered, channel,
                   handler, table, ci, pxis, halted, ccs>>

-----------------------------------------------------------------------------
Device == FatalError \/ NonFatalError \/ (\E i \in Slots : Execute(i) \/ FailCommand(i))
Handler == Interrupt \/ ReadPort \/ SendInfo \/ ClearPort \/ ClearHba
Task ==
    \/ Register \/ StartOperation \/ Issue \/ HandleInterrupt
    \/ RecoverFinish \/ RecoverStart \/ RecoverIssue
    \/ ResetStop \/ ResetWait \/ ResetStart

AhciNext ==
    \/ Device
    \/ Handler
    \/ Task
    \/ \E c \in Users, k \in {"Read", "Write", "Flush", "Identify"} : Request(c, k)

AhciSpec == AhciInit /\ [][AhciNext]_ahciVars

(* The executor polls a woken task, and a pending interrupt is delivered. *)
AhciFairSpec == AhciSpec /\ WF_ahciVars(Task) /\ WF_ahciVars(Handler)

-----------------------------------------------------------------------------
Infos == [is : SUBSET {"DHR", "TFE", "FATAL", "NONFATAL"}, ci : SUBSET Slots, ccs : Slots]

(* Types; state.remaining_operations, a usize, never goes below zero. *)
AhciTypeOK ==
    /\ use \in Uses
    /\ client \in [Users -> {"idle", "waiting", "Ok", "Err"}]
    /\ kind \in [Users -> {"Read", "Write", "Flush", "Identify"}]
    /\ done \in [Users -> {"no", "ok", "failed"}]
    /\ rx \in Seq(Users)
    /\ operations \in [Slots -> Users \union {Nobody}]
    /\ remaining \in 0 .. NumSlots + 1
    /\ launching \in [slot : Slots, client : Users] \union {Nobody}
    /\ tpc \in {"start", "race", "issue", "tfe", "tfe_start", "tfe_issue", "reset",
                "wait_stopped", "wait_phy", "wait_ready", "reset_start", "panic"}
    /\ msg \in Infos /\ info \in Infos
    /\ registered \in BOOLEAN
    /\ channel \in Seq(Infos)
    /\ ipc \in {"off", "read", "send", "clear_port", "clear_hba"}
    /\ table \in [Slots -> Users \union {Nobody}]
    /\ ci \subseteq Slots /\ ccs \in Slots
    /\ pxis \subseteq {"DHR", "TFE", "FATAL", "NONFATAL"}
    /\ {st, pxie, hbais, halted, msi} \subseteq BOOLEAN

(* An operation answered Ok was executed by the device: finish_operation   *)
(* takes a clear bit of PxCI for a completion, whatever cleared it.        *)
OkMeansExecuted ==
    \A c \in Users :
        client[c] = "Ok" /\ kind[c] # "Identify" => done[c] = "ok"

(* The client that waits has its operation, with the setter of its cell,   *)
(* in one place exactly: the channel, the command being issued, or a slot; *)
(* a client that does not wait has it in none, so no cell is set twice.    *)
Places(c) ==
    {<<"rx", n>> : n \in {m \in 1 .. Len(rx) : rx[m] = c}}
    \union {<<"slot", i>> : i \in {j \in Slots : operations[j] = c}}
    \union (IF launching # Nobody /\ launching.client = c THEN {<<"launching", 0>>} ELSE {})

WaitingIsHeldOnce ==
    \A c \in Users : Cardinality(Places(c)) = IF client[c] = "waiting" THEN 1 ELSE 0

(* The device only executes the command of an operation that is still in   *)
(* its slot, so it never touches the buffer of a client that was answered  *)
(* (until com_reset, which is not written, panics).                        *)
NoStaleCommand ==
    st /\ ~halted /\ tpc # "panic" =>
        \A i \in ci : operations[i] # Nobody /\ table[i] = operations[i]

(* The recovery waits for an engine the handler has stopped ("ST was       *)
(* closed in the interrupt handler earlier", task.rs:133): otherwise its   *)
(* loop, which holds the CPU, would not end.                               *)
RecoveryFindsEngineStopped == tpc = "tfe" => ~st

(* state.remaining_operations counts the slots that are free. *)
RemainingIsExact ==
    remaining = Cardinality(FreeSlots) - (IF launching = Nobody THEN 0 ELSE 1)

(* While the engine runs it runs only what the table of operations says,   *)
(* and the recovery never waits for an engine that somebody started again. *)
EngineIsCoherent == RecoveryFindsEngineStopped /\ NoStaleCommand

(* Every operation of a client is held exactly once until it is answered,  *)
(* in the channel, a slot or on its way into one, and the count of free    *)
(* slots agrees: no answer is lost, given twice, or blocked by a slot that *)
(* was never given back.                                                   *)
OperationsAreAccounted == WaitingIsHeldOnce /\ RemainingIsExact

(* While an interrupt message is queued, an operation the device has       *)
(* finished is answered in the end: no message is consumed for nothing.    *)
NoticedIsAnswered ==
    \A c \in Users :
        (done[c] = "ok" /\ client[c] = "waiting" /\ channel # <<>>) ~> client[c] # "waiting"

(* The recovery issues the rest of the commands again: after it, every     *)
(* operation in a slot is in PxCI (the comment at task.rs:172).            *)
RestIsRecovered ==
    [][RecoverIssue => \A i \in Slots : operations[i] # Nobody => i \in ci']_ahciVars

(* Commands are only put in slots the controller has: CAP reports NumSlots *)
(* of them (the comment at ahci.rs:170).                                   *)
SlotsAreWithinCap == \A i \in Slots : operations[i] # Nobody => i < NumSlots
=============================================================================
