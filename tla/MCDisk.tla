------------------------------- MODULE MCDisk -------------------------------
(***************************************************************************)
(* The way to the disk for TLC.  In a behaviour one part moves: the VFS    *)
(* task with ext2 serves its clients; or an AHCI controller is set up; or  *)
(* a port that is up serves its users.  PortsUpAreReady says that a port   *)
(* leaves the second in the state the third starts from.                   *)
(***************************************************************************)
EXTENDS MCVfs, AhciPort, PortInit

CONSTANTS u1, u2

VARIABLE part

(* The drive is shared by two clients and works, or it has one client, as  *)
(* in the kernel today, and fails in every way it can.                     *)
SharedHealthy == [clients |-> {u1, u2}, kinds |-> {"Read", "Write"}, faults |-> {}]

SingleFaulty ==
    [clients |-> {u1}, kinds |-> {"Read", "Flush", "Identify"},
     faults |-> {"TFE", "FATAL", "NONFATAL"}]

MCUsers == {u1, u2}
MCUses == {SharedHealthy, SingleFaulty}

(* What the firmware left in a port: the engine on or off, a drive that is *)
(* offline, asleep, busy, or does not carry out IDENTIFY.                  *)
MCLeft(sig, det, ipm, on, busy, good) ==
    [sig |-> sig, det |-> det, ipm |-> ipm, st |-> on, fre |-> on, cr |-> on, fr |-> on, ie |-> on,
     base |-> "old", ci |-> FALSE, comreset |-> FALSE, icc |-> FALSE, busy |-> busy, good |-> good]

MCPorts ==
    {MCLeft("ata", d, m, on, b, TRUE) :
        d \in {"present", "offline"}, m \in {"none", "active", "sleep"}, on \in BOOLEAN, b \in BOOLEAN}

MCFailing == MCLeft("ata", "present", "active", TRUE, TRUE, FALSE)

MCControllers ==
    {[caps |-> <<"pm", "msi">>, is64 |-> TRUE, ports |-> <<p>>] : p \in MCPorts}
    \union {[caps |-> <<"msi">>, is64 |-> TRUE, ports |-> <<p, MCLeft("ata", "present", "active", TRUE, FALSE, TRUE)>>] :
              p \in {MCLeft("ata", "offline", "none", TRUE, FALSE, TRUE), MCLeft("other", "present", "active", FALSE, FALSE, TRUE),
                     MCLeft("ata", "absent", "none", FALSE, FALSE, TRUE), MCFailing}}
    \union {[caps |-> c, is64 |-> FALSE, ports |-> <<>>] : c \in {<<>>, <<"pm">>, <<"msi">>}}

DiskInit ==
    /\ Init /\ AhciInit
    /\ \/ part = "setup" /\ use = SingleFaulty /\ PortInit
       \/ /\ part \in {"vfs", "port"}
          /\ part = "vfs" => use = SingleFaulty
          /\ hba = [caps |-> <<"msi">>, is64 |-> TRUE, ports |-> <<MCFailing>>]
          /\ PortRest

DiskNext ==
    /\ UNCHANGED part
    /\ \/ part = "vfs" /\ Next /\ UNCHANGED <<ahciVars, portVars>>
       \/ part = "setup" /\ PortNext /\ UNCHANGED <<vars, ahciVars>>
       \/ part = "port" /\ AhciNext /\ UNCHANGED <<vars, portVars>>

(* The fairness of FairSpec, of PortSpec and of AhciFairSpec, each for the *)
(* part that moves.                                                        *)
DiskFairSpec ==
    /\ DiskInit /\ [][DiskNext]_<<part, vars, ahciVars, portVars>>
    /\ WF_queue(part = "vfs" /\ TakesOne)
    /\ WF_portVars(part = "setup" /\ Driver)
    /\ WF_portVars(part = "setup" /\ SecondPasses)
    /\ \A p \in 1 .. MaxPorts :
        /\ WF_portVars(part = "setup" /\ p \in DOMAIN port /\ EngineFollows(p))
        /\ WF_portVars(part = "setup" /\ p \in DOMAIN port /\ port[p].good /\ Identifies(p))
    /\ WF_ahciVars(part = "port" /\ Task)
    /\ WF_ahciVars(part = "port" /\ Handler)
=============================================================================
