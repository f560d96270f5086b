------------------------------- MODULE MCApic -------------------------------
(* Apic for TLC. *)
EXTENDS Apic

Cpu(p, a, on) == [type |-> "cpu", processor_id |-> p, apic_id |-> a, enabled |-> on]
Io(b, m) == [type |-> "io", base |-> b, max |-> m]
Ovr(i, g, p, t) == [type |-> "override", irq |-> i, gsi |-> g, polarity |-> p, trigger |-> t]
Nmi(p, l) == [type |-> "nmi", processor_id |-> p, lint |-> l]

(* What the firmware of a PC may contain: the timer at GSI 2 or elsewhere, *)
(* the ACPI interrupt level triggered, devices moved, one or two I/O APICs *)
(* of 16 or 24 entries, and CPUs that are off or numbered otherwise.       *)
MCMadts ==
    {<<c>> \o <<Cpu(1, 1, on)>> \o <<io>> \o o1 \o o2 \o o3 \o n \o <<[type |-> "other"]>> :
        c \in {Cpu(0, 0, TRUE), Cpu(2, 0, TRUE)}, on \in BOOLEAN,
        io \in {Io(0, 23), Io(0, 15), Io(24, 23)},
        o1 \in {<<>>, <<Ovr(0, 2, "bus", "bus")>>, <<Ovr(0, 20, "bus", "bus")>>},
        o2 \in {<<>>, <<Ovr(9, 9, "high", "level")>>, <<Ovr(1, 9, "low", "level")>>},
        o3 \in {<<>>, <<Ovr(15, 15, "low", "level"), Ovr(15, 15, "high", "bus")>>, <<Ovr(14, 20, "low", "bus")>>},
        n \in {<<>>, <<Nmi(255, 1)>>, <<Io(16, 7), Nmi(0, 1)>>}}
=============================================================================
