-------------------------------- MODULE Apic --------------------------------
(***************************************************************************)
(* How interrupts are routed at boot: init_apic (acpi/apic.rs) walks the   *)
(* MADT, finds the boot CPU and programs the I/O APIC that has the ISA     *)
(* interrupts; init_idt (idt.rs) installs the handlers, and load_timer     *)
(* (timer.rs) chooses the vector of the local timer.  A table of the       *)
(* firmware is a sequence of entries; addresses, NMI flags and the mapping *)
(* of the register pages are left out.                                     *)
(***************************************************************************)
EXTENDS Integers, SequencesExt

CONSTANTS
    Madts,      \* the tables the firmware may pass
    BootId,     \* what the local APIC of the boot CPU answers as its id
    NoHandler

(* The interrupt vectors: PRIMARY_ISA_PIC_OFFSET, AHCI_INTERRUPT_HANDLER_IDX. *)
IsaOffset == 32
AhciVectors == 48 .. 55
Irqs == 0 .. 15

ASSUME ApicAssumption == \A t \in Madts : \A i \in DOMAIN t :
    t[i].type \in {"cpu", "io", "override", "nmi", "other"}

VARIABLES
    apc,        \* "walk", "route", "idt", "done" or "panic"
    madt,       \* the entries that remain
    ids,        \* processors_partial
    io_apics,
    irq_to_gsi, \* isa_irq_gsi
    modes,      \* the trigger mode and polarity overrides
    nmis,       \* local_nmi_sources
    cpus,       \* processors: by ACPI id
    rte,        \* the redirection table of the I/O APIC at GSI 0
    idt

apicVars == <<apc, madt, ids, io_apics, irq_to_gsi, modes, nmis, cpus, rte, idt>>

Reset == [vector |-> 0, polarity |-> "high", trigger |-> "edge", masked |-> TRUE]

ApicRest ==
    /\ apc = "walk"
    /\ ids = <<>> /\ io_apics = <<>> /\ nmis = <<>>
    /\ irq_to_gsi = [i \in Irqs |-> i]
    /\ modes = [i \in Irqs |-> [polarity |-> "default", trigger |-> "default"]]
    /\ cpus = <<>>
    /\ rte = <<>>
    /\ idt = <<>>

ApicInit == madt \in Madts /\ ApicRest

-----------------------------------------------------------------------------
(* The walk: one entry of each type, and the types that are skipped. *)
Entry(type) == apc = "walk" /\ madt # <<>> /\ Head(madt).type = type /\ madt' = Tail(madt)

ReadProcessor ==
    /\ Entry("cpu")
    /\ ids' = IF Head(madt).enabled THEN Append(ids, Head(madt)) ELSE ids
    /\ UNCHANGED <<apc, io_apics, irq_to_gsi, modes, nmis, cpus, rte, idt>>

ReadIoApic ==
    /\ Entry("io")
    /\ io_apics' = Append(io_apics, Head(madt))
    /\ UNCHANGED <<apc, ids, irq_to_gsi, modes, nmis, cpus, rte, idt>>

(* Flags that say "as the bus does" leave an earlier override in place. *)
Overridden(old, new) == IF new = "bus" THEN old ELSE new

ReadOverride ==
    /\ Entry("override")
    /\ LET e == Head(madt)
       IN  /\ irq_to_gsi' = [irq_to_gsi EXCEPT ![e.irq] = e.gsi]
           /\ modes' = [modes EXCEPT
                ![e.irq] = [polarity |-> Overridden(@.polarity, e.polarity),
                            trigger |-> Overridden(@.trigger, e.trigger)]]
    /\ UNCHANGED <<apc, ids, io_apics, nmis, cpus, rte, idt>>

ReadLocalNmi ==
    /\ Entry("nmi")
    /\ nmis' = Append(nmis, Head(madt))
    /\ UNCHANGED <<apc, ids, io_apics, irq_to_gsi, modes, cpus, rte, idt>>

ReadOther ==
    /\ Entry("other")
    /\ UNCHANGED <<apc, ids, io_apics, irq_to_gsi, modes, nmis, cpus, rte, idt>>

-----------------------------------------------------------------------------
(* After the walk: the processors by their ACPI id, the last entry of an   *)
(* id winning, each with the NMI pin of the last entry for it or for all   *)
(* (255); then the boot CPU is looked up by its local APIC id.             *)
Processor(table, p) == [x \in DOMAIN table \union {p.processor_id} |->
    IF x = p.processor_id THEN [apic_id |-> p.apic_id, lint |-> 0] ELSE table[x]]

WithNmi(table, n) == [x \in DOMAIN table |->
    IF n.processor_id \in {x, 255} THEN [table[x] EXCEPT !.lint = n.lint] ELSE table[x]]

EnableBootCpu ==
    LET table == FoldLeft(WithNmi, FoldLeft(Processor, <<>>, ids), nmis)
    IN  /\ apc = "walk" /\ madt = <<>>
        /\ cpus' = table
        /\ apc' = IF BootId \in DOMAIN table THEN "route" ELSE "panic"
        /\ UNCHANGED <<madt, ids, io_apics, irq_to_gsi, modes, nmis, rte, idt>>

-----------------------------------------------------------------------------
(* isa_bootstrap: the ISA interrupts in order, each into the entry of its  *)
(* GSI, whatever that entry holds; those of another I/O APIC are skipped.  *)
InRange_Below(apic, gsi) == gsi >= apic.base /\ gsi < apic.base + apic.max
InRange(apic, gsi) == gsi >= apic.base /\ gsi <= apic.base + apic.max

Redirection(i) ==
    [vector   |-> IsaOffset + i,
     polarity |-> IF modes[i].polarity = "default" THEN "high" ELSE modes[i].polarity,
     trigger  |-> IF modes[i].trigger = "default" THEN "edge" ELSE modes[i].trigger,
     masked   |-> i = 0]

WriteEntry(apic, table, i) ==
    IF InRange(apic, irq_to_gsi[i])
    THEN [table EXCEPT ![irq_to_gsi[i] - apic.base] = Redirection(i)]
    ELSE table

isa_bootstrap(apic, table) ==
    FoldLeft(LAMBDA t, i : WriteEntry(apic, t, i - 1), table, [n \in 1 .. 16 |-> n])

(* The loop of init_apic over the I/O APICs: the one at GSI 0 is set up.   *)
RouteIsa ==
    /\ apc = "route"
    /\ rte' = FoldLeft(LAMBDA t, a : IF a.base = 0
                                     THEN isa_bootstrap(a, [g \in 0 .. a.max |-> Reset]) ELSE t,
                       <<>>, io_apics)
    /\ apc' = "idt"
    /\ UNCHANGED <<madt, ids, io_apics, irq_to_gsi, modes, nmis, cpus, idt>>

(* init_idt: the vectors of the handled interrupts are derived from their  *)
(* GSIs; the AHCI handlers come last.                                      *)
Handled == <<<<0, "timer">>, <<1, "keyboard">>, <<14, "primary_ide">>, <<15, "secondary_ide">>>>

Install_ByIrq(table, h) == [table EXCEPT ![IsaOffset + h[1]] = h[2]]
Install(table, h) == [table EXCEPT ![IsaOffset + irq_to_gsi[h[1]]] = h[2]]

InitIdt ==
    /\ apc = "idt"
    /\ idt' = LET isa == FoldLeft(Install, [v \in 32 .. 255 |-> NoHandler], Handled)
              IN  [v \in DOMAIN isa |-> IF v = 255 THEN "spurious"
                                           ELSE IF v \in AhciVectors THEN "ahci" ELSE isa[v]]
    /\ apc' = "done"
    /\ UNCHANGED <<madt, ids, io_apics, irq_to_gsi, modes, nmis, cpus, rte>>

ApicNext ==
    \/ ReadProcessor \/ ReadIoApic \/ ReadOverride \/ ReadLocalNmi \/ ReadOther
    \/ EnableBootCpu \/ RouteIsa \/ InitIdt

ApicSpec == ApicInit /\ [][ApicNext]_apicVars

-----------------------------------------------------------------------------
(* load_timer programs this vector into the local APIC. *)
TimerVector == IsaOffset + irq_to_gsi[0]

(* The local timer reaches its handler wherever the table moves IRQ 0, as  *)
(* long as it is a place of its own below the AHCI vectors.                *)
TimerReachesHandler ==
    apc = "done" /\ irq_to_gsi[0] \in Irqs /\ (\A i \in {1, 14, 15} : irq_to_gsi[i] # irq_to_gsi[0])
        => idt[TimerVector] = "timer"

(* An ISA device whose interrupt the table leaves in its place, and onto   *)
(* whose line it moves no other, reaches its handler with the polarity and *)
(* the trigger mode the table gives, through every entry the I/O APIC has. *)
UnmovedIrqIsHandled ==
    apc = "done" => \A n \in 2 .. 4 :
        LET i == Handled[n][1]
        IN  i \in DOMAIN rte /\ irq_to_gsi[i] = i /\ (\A j \in Irqs \ {i} : irq_to_gsi[j] # i) =>
              /\ ~rte[i].masked
              /\ idt[rte[i].vector] = Handled[n][2]
              /\ modes[i].polarity \in {"default", rte[i].polarity}
              /\ modes[i].trigger \in {"default", rte[i].trigger}

(* Interrupts reach the handlers they are meant for: the timer through the *)
(* local APIC, the ISA devices through the I/O APIC.                       *)
InterruptsAreHandled == TimerReachesHandler /\ UnmovedIrqIsHandled
=============================================================================
