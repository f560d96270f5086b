----------------------------- MODULE DiskProofs -----------------------------
(***************************************************************************)
(* Proofs about reaching a disk: the ports of its controller and the       *)
(* mutex that guards each drive.                                           *)
(*                                                                         *)
(* PortInit, for controllers with any number of ports, whatever the        *)
(* firmware left in them and however the drives behave: Stage says what    *)
(* the driver may rely on at each point of init.                           *)
(*                                                                         *)
(* AsyncMutex, for every set of tasks: type correctness, the exclusion of  *)
(* guards, a waker list that stays a ring of waiting tasks, and that the   *)
(* mutex implements FifoMutex.                                             *)
(***************************************************************************)
EXTENDS PortInit, AsyncMutex, TLAPS

-----------------------------------------------------------------------------
(* The ports of a controller.                                              *)

Idle(q) == ~q.st /\ ~q.cr /\ ~q.fre /\ ~q.fr
Awake(q) == q.det = "present" /\ q.ipm = "active"

Ready(q) ==
    /\ q.sig = "ata" /\ Awake(q)
    /\ q.st /\ q.cr /\ q.fre /\ q.fr
    /\ q.base = "ours" /\ ~q.ci /\ ~q.busy /\ q.ie

(* What holds of the registers of the port at each point: what was read in *)
(* the status only gets better, and nothing runs from the reset up to the  *)
(* start.                                                                  *)
Stage(l, s, w, q) ==
    /\ q.sig = "ata"
    /\ l = "init" => q.det \in {"present", "offline"}
    /\ l \in {"wake", "det", "det_clock", "power"} => (s.ipm = "active" => q.ipm = "active")
    /\ l = "wake" => s.det \in {"present", "offline"} /\ (s.det = "present" => q.det = "present")
    /\ l \in {"power", "ipm", "ipm_clock"} => q.det = "present"
    /\ l \in {"reset", "stop", "stop_clock", "bases", "tfd", "tfd_clock", "fr", "cr", "issue", "identify"} =>
         Awake(q)
    /\ l \in {"stop", "stop_clock"} => ~q.st /\ ~q.fre
    /\ l = "stop_clock" /\ w => ~q.cr /\ ~q.fr
    /\ l \in {"bases", "tfd", "tfd_clock"} => Idle(q)
    /\ l \in {"tfd", "tfd_clock", "fr", "cr", "issue", "identify"} => q.base = "ours"
    /\ l = "fr" => ~q.st /\ ~q.cr /\ q.fre /\ ~q.busy
    /\ l \in {"cr", "issue", "identify"} => q.st /\ q.fre /\ q.fr /\ ~q.busy
    /\ l \in {"issue", "identify"} => q.cr

Points == {"init", "wake", "det", "det_clock", "power", "ipm", "ipm_clock", "reset", "stop", "stop_clock",
           "bases", "tfd", "tfd_clock", "fr", "cr", "issue", "identify"}

PortTypeOK ==
    /\ hpc \in Points \union {"hba", "new", "done", "no_memory", "panic"}
    /\ at \in Nat \ {0}
    /\ port \in Seq(PortStates)
    /\ saw \in BOOLEAN /\ late \in BOOLEAN
    /\ hpc \in Points => at \in 1 .. Len(port)

PInv ==
    /\ PortTypeOK
    /\ hpc \in Points => Stage(hpc, status, saw, port[at])
    /\ \A p \in up : p \in 1 .. Len(port) /\ p < at /\ Ready(port[p])

-----------------------------------------------------------------------------
(* What the hardware does to a port. *)
Moved(q, r) ==
    \/ r = [q EXCEPT !.cr = q.st]
    \/ r = [q EXCEPT !.fr = q.fre]
    \/ r = [q EXCEPT !.det = "present", !.ipm = "active"]
    \/ r = [q EXCEPT !.ipm = "active"]
    \/ r = [q EXCEPT !.busy = FALSE]
    \/ r = [q EXCEPT !.ci = FALSE]

(* The hardware undoes neither a stage of the set-up nor a ready port. *)
LEMMA HardwareKeeps ==
    ASSUME NEW q \in PortStates, NEW r, Moved(q, r)
    PROVE  /\ r \in PortStates
           /\ Ready(q) => Ready(r)
           /\ \A l, s, w : Stage(l, s, w, q) => Stage(l, s, w, r)
<1>1. CASE r = [q EXCEPT !.cr = q.st]
  <2>1. r \in PortStates BY <1>1 DEF PortStates
  <2>2. r.sig = q.sig /\ r.det = q.det /\ r.ipm = q.ipm /\ r.st = q.st /\ r.fre = q.fre /\ r.fr = q.fr /\
        r.ie = q.ie /\ r.base = q.base /\ r.ci = q.ci /\ r.busy = q.busy
    BY <1>1 DEF PortStates
  <2>3. r.cr = q.st
    BY <1>1 DEF PortStates
  <2>4. Ready(q) => Ready(r)
    BY <2>2, <2>3 DEF Ready, Awake
  <2>5. \A l, s, w : Stage(l, s, w, q) => Stage(l, s, w, r)
    BY <2>2, <2>3 DEF Stage, Awake, Idle
  <2> QED BY <2>1, <2>4, <2>5
<1>2. CASE r = [q EXCEPT !.fr = q.fre]
  <2>1. r \in PortStates BY <1>2 DEF PortStates
  <2>2. r.sig = q.sig /\ r.det = q.det /\ r.ipm = q.ipm /\ r.st = q.st /\ r.fre = q.fre /\ r.cr = q.cr /\
        r.ie = q.ie /\ r.base = q.base /\ r.ci = q.ci /\ r.busy = q.busy
    BY <1>2 DEF PortStates
  <2>3. r.fr = q.fre
    BY <1>2 DEF PortStates
  <2>4. Ready(q) => Ready(r)
    BY <2>2, <2>3 DEF Ready, Awake
  <2>5. \A l, s, w : Stage(l, s, w, q) => Stage(l, s, w, r)
    BY <2>2, <2>3 DEF Stage, Awake, Idle
  <2> QED BY <2>1, <2>4, <2>5
<1>3. CASE r = [q EXCEPT !.det = "present", !.ipm = "active"]
  <2>1. r \in PortStates BY <1>3, Zenon DEF PortStates
  <2>2. r.sig = q.sig /\ r.st = q.st /\ r.fre = q.fre /\ r.cr = q.cr /\ r.fr = q.fr /\ r.ie = q.ie /\
        r.base = q.base /\ r.ci = q.ci /\ r.busy = q.busy
    BY <1>3 DEF PortStates
  <2>3. r.det = "present" /\ r.ipm = "active"
    BY <1>3 DEF PortStates
  <2>4. Ready(q) => Ready(r)
    BY <2>2, <2>3 DEF Ready, Awake
  <2>5. \A l, s, w : Stage(l, s, w, q) => Stage(l, s, w, r)
    BY <2>2, <2>3 DEF Stage, Awake, Idle
  <2> QED BY <2>1, <2>4, <2>5
<1>4. CASE r = [q EXCEPT !.ipm = "active"]
  <2>1. r \in PortStates BY <1>4 DEF PortStates
  <2>2. r.sig = q.sig /\ r.det = q.det /\ r.st = q.st /\ r.fre = q.fre /\ r.cr = q.cr /\ r.fr = q.fr /\
        r.ie = q.ie /\ r.base = q.base /\ r.ci = q.ci /\ r.busy = q.busy
    BY <1>4 DEF PortStates
  <2>3. r.ipm = "active"
    BY <1>4 DEF PortStates
  <2>4. Ready(q) => Ready(r)
    BY <2>2, <2>3 DEF Ready, Awake
  <2>5. \A l, s, w : Stage(l, s, w, q) => Stage(l, s, w, r)
    BY <2>2, <2>3 DEF Stage, Awake, Idle
  <2> QED BY <2>1, <2>4, <2>5
<1>5. CASE r = [q EXCEPT !.busy = FALSE]
  <2>1. r \in PortStates BY <1>5, Zenon DEF PortStates
  <2>2. r.sig = q.sig /\ r.det = q.det /\ r.ipm = q.ipm /\ r.st = q.st /\ r.fre = q.fre /\ r.cr = q.cr /\
        r.fr = q.fr /\ r.ie = q.ie /\ r.base = q.base /\ r.ci = q.ci
    BY <1>5 DEF PortStates
  <2>3. r.busy = FALSE
    BY <1>5 DEF PortStates
  <2>4. Ready(q) => Ready(r)
    BY <2>2, <2>3 DEF Ready, Awake
  <2>5. \A l, s, w : Stage(l, s, w, q) => Stage(l, s, w, r)
    BY <2>2, <2>3 DEF Stage, Awake, Idle
  <2> QED BY <2>1, <2>4, <2>5
<1>6. CASE r = [q EXCEPT !.ci = FALSE]
  <2>1. r \in PortStates BY <1>6, Zenon DEF PortStates
  <2>2. r.sig = q.sig /\ r.det = q.det /\ r.ipm = q.ipm /\ r.st = q.st /\ r.fre = q.fre /\ r.cr = q.cr /\
        r.fr = q.fr /\ r.ie = q.ie /\ r.base = q.base /\ r.busy = q.busy
    BY <1>6 DEF PortStates
  <2>3. r.ci = FALSE
    BY <1>6 DEF PortStates
  <2>4. Ready(q) => Ready(r)
    BY <2>2, <2>3 DEF Ready, Awake
  <2>5. \A l, s, w : Stage(l, s, w, q) => Stage(l, s, w, r)
    BY <2>2, <2>3 DEF Stage, Awake, Idle
  <2> QED BY <2>1, <2>4, <2>5
<1> QED BY <1>1, <1>2, <1>3, <1>4, <1>5, <1>6 DEF Moved

(* A step of the hardware. *)
LEMMA HardwareStep ==
    ASSUME PInv, NEW p \in DOMAIN port, Hardware(p) PROVE PInv'
<1>1. /\ UNCHANGED <<hpc, hba, msi_at, at, status, saw, late, up>>
      /\ \E r : Moved(port[p], r) /\ port' = [port EXCEPT ![p] = r]
  BY DEF Hardware, EngineFollows, DriveWakes, DriveReady, Identifies, Change, Moved
<1>2. PICK r : Moved(port[p], r) /\ port' = [port EXCEPT ![p] = r]
  BY <1>1, Zenon
<1>3. port[p] \in PortStates /\ r \in PortStates
  BY <1>2, HardwareKeeps DEF PInv, PortTypeOK
<1>4. port' \in Seq(PortStates) /\ Len(port') = Len(port)
  BY <1>2, <1>3 DEF PInv, PortTypeOK
<1>5. PortTypeOK'
  BY <1>1, <1>4 DEF PInv, PortTypeOK
<1>6. \A x \in 1 .. Len(port) : port'[x] = IF x = p THEN r ELSE port[x]
  BY <1>2 DEF PInv, PortTypeOK
<1>7. hpc' \in Points => Stage(hpc', status', saw', port'[at'])
  BY <1>1, <1>2, <1>3, <1>6, HardwareKeeps DEF PInv, PortTypeOK
<1>8. \A x \in up' : x \in 1 .. Len(port') /\ x < at' /\ Ready(port'[x])
  BY <1>1, <1>2, <1>3, <1>4, <1>6, HardwareKeeps DEF PInv
<1> QED BY <1>5, <1>7, <1>8 DEF PInv

(* A step of the driver within init: it changes the port it is at. *)
LEMMA PointStep ==
    ASSUME PInv, hpc \in Points, NEW r \in PortStates, port' = [port EXCEPT ![at] = r],
           at' = at, up' = up, saw' \in BOOLEAN, late' \in BOOLEAN,
           hpc' \in Points, Stage(hpc', status', saw', r)
    PROVE  PInv'
<1>1. at \in 1 .. Len(port) /\ port \in Seq(PortStates)
  BY DEF PInv, PortTypeOK
<1>2. /\ port' \in Seq(PortStates) /\ Len(port') = Len(port) /\ port'[at] = r
      /\ \A x \in 1 .. Len(port) : x # at => port'[x] = port[x]
  BY <1>1
<1>3. PortTypeOK'
  BY <1>1, <1>2 DEF PInv, PortTypeOK
<1>4. \A x \in up' : x \in 1 .. Len(port') /\ x < at' /\ Ready(port'[x])
  BY <1>1, <1>2 DEF PInv
<1> QED BY <1>2, <1>3, <1>4 DEF PInv

(* One that only moves on. *)
LEMMA PointMove ==
    ASSUME PInv, hpc \in Points, port' = port, at' = at, up' = up, saw' \in BOOLEAN, late' \in BOOLEAN,
           hpc' \in Points, Stage(hpc', status', saw', port[at])
    PROVE  PInv'
BY DEF PInv, PortTypeOK

(* The port is left behind, up or not. *)
LEMMA LeavePort ==
    ASSUME PInv, NextPort, port' = port, up' = up PROVE PInv'
<1>1. PortTypeOK'
  BY DEF PInv, PortTypeOK, NextPort, Points
<1>2. \A x \in up' : x \in 1 .. Len(port') /\ x < at' /\ Ready(port'[x])
  BY DEF PInv, PortTypeOK, NextPort
<1> QED BY <1>1, <1>2 DEF PInv, NextPort, Points

(* What the updates of the driver leave in the registers. *)
LEMMA DriverUpdates ==
    ASSUME NEW q \in PortStates
    PROVE  /\ [q EXCEPT !.ie = FALSE] \in PortStates
           /\ [reset_cmd(q) EXCEPT !.comreset = TRUE] \in PortStates
           /\ [reset_cmd(q) EXCEPT !.comreset = FALSE] \in PortStates
           /\ reset_cmd(q) \in PortStates
           /\ [q EXCEPT !.icc = TRUE] \in PortStates
           /\ [q EXCEPT !.base = "ours"] \in PortStates
           /\ [q EXCEPT !.fre = TRUE] \in PortStates
           /\ [q EXCEPT !.fre = TRUE, !.st = TRUE] \in PortStates
           /\ [q EXCEPT !.ci = TRUE] \in PortStates
           /\ [q EXCEPT !.ie = TRUE] \in PortStates
<1> USE DEF PortStates
<1>1. [q EXCEPT !.ie = FALSE] \in PortStates BY Zenon
<1>2. [reset_cmd(q) EXCEPT !.comreset = TRUE] \in PortStates BY Zenon DEF reset_cmd
<1>3. [reset_cmd(q) EXCEPT !.comreset = FALSE] \in PortStates BY Zenon DEF reset_cmd
<1>4. reset_cmd(q) \in PortStates BY Zenon DEF reset_cmd
<1>5. [q EXCEPT !.icc = TRUE] \in PortStates BY Zenon
<1>6. [q EXCEPT !.base = "ours"] \in PortStates OBVIOUS
<1>7. [q EXCEPT !.fre = TRUE] \in PortStates BY Zenon
<1>8. [q EXCEPT !.fre = TRUE, !.st = TRUE] \in PortStates BY Zenon
<1>9. [q EXCEPT !.ci = TRUE] \in PortStates BY Zenon
<1>10. [q EXCEPT !.ie = TRUE] \in PortStates BY Zenon
<1> QED BY <1>1, <1>2, <1>3, <1>4, <1>5, <1>6, <1>7, <1>8, <1>9, <1>10

(* The port the driver is at. *)
LEMMA AtPort == ASSUME PInv, hpc \in Points PROVE
    Port \in PortStates /\ Stage(hpc, status, saw, Port) /\ saw \in BOOLEAN /\ late \in BOOLEAN
BY DEF PInv, PortTypeOK, Port

(* The status is read with interrupts off. *)
LEMMA StepReadStatus == ASSUME PInv, ReadStatus PROVE PInv'
<1>0. hpc \in Points /\ Port \in PortStates /\ Stage(hpc, status, saw, Port) /\ saw \in BOOLEAN /\ late \in BOOLEAN
  BY AtPort DEF ReadStatus, Points
<1>1. PInv'
  <2> DEFINE r == [Port EXCEPT !.ie = FALSE]
  <2>1. r \in PortStates
    BY <1>0, DriverUpdates, Zenon
  <2>2. r.sig = Port.sig /\ r.det = Port.det /\ r.ipm = Port.ipm /\ r.st = Port.st /\ r.fre = Port.fre /\
        r.cr = Port.cr /\ r.fr = Port.fr /\ r.base = Port.base /\ r.busy = Port.busy
    BY <1>0 DEF PortStates, reset_cmd
  <2>4. port' = [port EXCEPT ![at] = r] /\ at' = at /\ up' = up
    BY Zenon DEF ReadStatus, SetPort, GoTo, NextPort
  <2> HIDE DEF r
  <2>5. saw' \in BOOLEAN /\ late' \in BOOLEAN /\ hpc' \in Points
    BY <1>0 DEF ReadStatus, GoTo, Points
  <2>6. Stage(hpc', status', saw', r)
    BY <1>0, <2>2 DEF ReadStatus, GoTo, Stage, Awake, Idle, is_idle, PortStates
  <2> QED BY <1>0, <2>1, <2>4, <2>5, <2>6, PointStep, Zenon
<1> QED BY <1>1

(* COMRESET, or a drive that is there. *)
LEMMA StepWakeUp == ASSUME PInv, WakeUp PROVE PInv'
<1>0. hpc \in Points /\ Port \in PortStates /\ Stage(hpc, status, saw, Port) /\ saw \in BOOLEAN /\ late \in BOOLEAN
  BY AtPort DEF WakeUp, Points
<1>1. CASE status.det = "offline" \/ status.ipm = "none"
  <2> DEFINE r == [reset_cmd(Port) EXCEPT !.comreset = TRUE]
  <2>1. r \in PortStates
    BY <1>0, DriverUpdates, Zenon
  <2>2. r.sig = Port.sig /\ r.det = Port.det /\ r.ipm = Port.ipm /\ r.cr = Port.cr /\ r.fr = Port.fr /\
        r.base = Port.base /\ r.busy = Port.busy
    BY <1>0 DEF PortStates, reset_cmd
  <2>3. ~r.st /\ ~r.fre
    BY <1>0 DEF PortStates, reset_cmd
  <2>4. port' = [port EXCEPT ![at] = r] /\ at' = at /\ up' = up
    BY <1>1, Zenon DEF WakeUp, SetPort, GoTo, NextPort
  <2> HIDE DEF r
  <2>5. saw' \in BOOLEAN /\ late' \in BOOLEAN /\ hpc' \in Points
    BY <1>1, <1>0, Zenon DEF WakeUp, GoTo, Points
  <2>6. Stage(hpc', status', saw', r)
    BY <1>1, <1>0, <2>2, <2>3 DEF WakeUp, GoTo, Stage, Awake, Idle, is_idle, PortStates
  <2> QED BY <1>0, <2>1, <2>4, <2>5, <2>6, PointStep, Zenon
<1>2. CASE ~(status.det = "offline" \/ status.ipm = "none")
  <2>1. port' = port /\ at' = at /\ up' = up
    BY <1>2, Zenon DEF WakeUp, GoTo
  <2>2. saw' \in BOOLEAN /\ late' \in BOOLEAN /\ hpc' \in Points
    BY <1>2, <1>0 DEF WakeUp, GoTo, Points
  <2>3. Stage(hpc', status', saw', Port)
    BY <1>2, <1>0 DEF WakeUp, GoTo, Stage, Awake, Idle, is_idle, PortStates
  <2> QED BY <1>0, <2>1, <2>2, <2>3, PointMove DEF Port
<1> QED BY <1>1, <1>2

(* The drive has shown up, or the clock is looked at. *)
LEMMA StepWaitDet == ASSUME PInv, WaitDet PROVE PInv'
<1>0. hpc \in Points /\ Port \in PortStates /\ Stage(hpc, status, saw, Port) /\ saw \in BOOLEAN /\ late \in BOOLEAN
  BY AtPort DEF WaitDet, Points
<1>1. CASE Port.det = "present"
  <2> DEFINE r == [reset_cmd(Port) EXCEPT !.comreset = FALSE]
  <2>1. r \in PortStates
    BY <1>0, DriverUpdates, Zenon
  <2>2. r.sig = Port.sig /\ r.det = Port.det /\ r.ipm = Port.ipm /\ r.cr = Port.cr /\ r.fr = Port.fr /\
        r.base = Port.base /\ r.busy = Port.busy
    BY <1>0 DEF PortStates, reset_cmd
  <2>3. ~r.st /\ ~r.fre
    BY <1>0 DEF PortStates, reset_cmd
  <2>4. port' = [port EXCEPT ![at] = r] /\ at' = at /\ up' = up
    BY <1>1, Zenon DEF WaitDet, SetPort, GoTo, NextPort
  <2> HIDE DEF r
  <2>5. saw' \in BOOLEAN /\ late' \in BOOLEAN /\ hpc' \in Points
    BY <1>1, <1>0 DEF WaitDet, GoTo, Points
  <2>6. Stage(hpc', status', saw', r)
    BY <1>1, <1>0, <2>2, <2>3 DEF WaitDet, GoTo, Stage, Awake, Idle, is_idle, PortStates
  <2> QED BY <1>0, <2>1, <2>4, <2>5, <2>6, PointStep, Zenon
<1>2. CASE Port.det # "present"
  <2>1. port' = port /\ at' = at /\ up' = up
    BY <1>2, Zenon DEF WaitDet, GoTo
  <2>2. saw' \in BOOLEAN /\ late' \in BOOLEAN /\ hpc' \in Points
    BY <1>2, <1>0 DEF WaitDet, GoTo, Points
  <2>3. Stage(hpc', status', saw', Port)
    BY <1>2, <1>0 DEF WaitDet, GoTo, Stage, Awake, Idle, is_idle, PortStates
  <2> QED BY <1>0, <2>1, <2>2, <2>3, PointMove DEF Port
<1> QED BY <1>1, <1>2

(* Power for a link that slept. *)
LEMMA StepPowerUp == ASSUME PInv, PowerUp PROVE PInv'
<1>0. hpc \in Points /\ Port \in PortStates /\ Stage(hpc, status, saw, Port) /\ saw \in BOOLEAN /\ late \in BOOLEAN
  BY AtPort DEF PowerUp, Points
<1>1. CASE status.ipm # "active"
  <2> DEFINE r == [Port EXCEPT !.icc = TRUE]
  <2>1. r \in PortStates
    BY <1>0, DriverUpdates, Zenon
  <2>2. r.sig = Port.sig /\ r.det = Port.det /\ r.ipm = Port.ipm /\ r.st = Port.st /\ r.fre = Port.fre /\
        r.cr = Port.cr /\ r.fr = Port.fr /\ r.base = Port.base /\ r.busy = Port.busy
    BY <1>0 DEF PortStates, reset_cmd
  <2>4. port' = [port EXCEPT ![at] = r] /\ at' = at /\ up' = up
    BY <1>1, Zenon DEF PowerUp, SetPort, GoTo, NextPort
  <2> HIDE DEF r
  <2>5. saw' \in BOOLEAN /\ late' \in BOOLEAN /\ hpc' \in Points
    BY <1>1, <1>0, Zenon DEF PowerUp, GoTo, Points
  <2>6. Stage(hpc', status', saw', r)
    BY <1>1, <1>0, <2>2 DEF PowerUp, GoTo, Stage, Awake, Idle, is_idle, PortStates
  <2> QED BY <1>0, <2>1, <2>4, <2>5, <2>6, PointStep, Zenon
<1>2. CASE status.ipm = "active"
  <2>1. port' = port /\ at' = at /\ up' = up
    BY <1>2, Zenon DEF PowerUp, GoTo
  <2>2. saw' \in BOOLEAN /\ late' \in BOOLEAN /\ hpc' \in Points
    BY <1>2, <1>0 DEF PowerUp, GoTo, Points
  <2>3. Stage(hpc', status', saw', Port)
    BY <1>2, <1>0 DEF PowerUp, GoTo, Stage, Awake, Idle, is_idle, PortStates
  <2> QED BY <1>0, <2>1, <2>2, <2>3, PointMove DEF Port
<1> QED BY <1>1, <1>2

(* The link is awake, or the clock is looked at. *)
LEMMA StepWaitIpm == ASSUME PInv, WaitIpm PROVE PInv'
<1>0. hpc \in Points /\ Port \in PortStates /\ Stage(hpc, status, saw, Port) /\ saw \in BOOLEAN /\ late \in BOOLEAN
  BY AtPort DEF WaitIpm, Points
<1>1. CASE Port.ipm = "active"
  <2> DEFINE r == [reset_cmd(Port) EXCEPT !.comreset = FALSE]
  <2>1. r \in PortStates
    BY <1>0, DriverUpdates, Zenon
  <2>2. r.sig = Port.sig /\ r.det = Port.det /\ r.ipm = Port.ipm /\ r.cr = Port.cr /\ r.fr = Port.fr /\
        r.base = Port.base /\ r.busy = Port.busy
    BY <1>0 DEF PortStates, reset_cmd
  <2>3. ~r.st /\ ~r.fre
    BY <1>0 DEF PortStates, reset_cmd
  <2>4. port' = [port EXCEPT ![at] = r] /\ at' = at /\ up' = up
    BY <1>1, Zenon DEF WaitIpm, SetPort, GoTo, NextPort
  <2> HIDE DEF r
  <2>5. saw' \in BOOLEAN /\ late' \in BOOLEAN /\ hpc' \in Points
    BY <1>1, <1>0 DEF WaitIpm, GoTo, Points
  <2>6. Stage(hpc', status', saw', r)
    BY <1>1, <1>0, <2>2, <2>3 DEF WaitIpm, GoTo, Stage, Awake, Idle, is_idle, PortStates
  <2> QED BY <1>0, <2>1, <2>4, <2>5, <2>6, PointStep, Zenon
<1>2. CASE Port.ipm # "active"
  <2>1. port' = port /\ at' = at /\ up' = up
    BY <1>2, Zenon DEF WaitIpm, GoTo
  <2>2. saw' \in BOOLEAN /\ late' \in BOOLEAN /\ hpc' \in Points
    BY <1>2, <1>0 DEF WaitIpm, GoTo, Points
  <2>3. Stage(hpc', status', saw', Port)
    BY <1>2, <1>0 DEF WaitIpm, GoTo, Stage, Awake, Idle, is_idle, PortStates
  <2> QED BY <1>0, <2>1, <2>2, <2>3, PointMove DEF Port
<1> QED BY <1>1, <1>2

(* An idle port needs no reset, another is stopped. *)
LEMMA StepReset == ASSUME PInv, ResetPort PROVE PInv'
<1>0. hpc \in Points /\ Port \in PortStates /\ Stage(hpc, status, saw, Port) /\ saw \in BOOLEAN /\ late \in BOOLEAN
  BY AtPort DEF ResetPort, Points
<1>1. CASE is_idle(Port)
  <2>1. port' = port /\ at' = at /\ up' = up
    BY <1>1, Zenon DEF ResetPort, GoTo
  <2>2. saw' \in BOOLEAN /\ late' \in BOOLEAN /\ hpc' \in Points
    BY <1>1, <1>0 DEF ResetPort, GoTo, Points
  <2>3. Stage(hpc', status', saw', Port)
    BY <1>1, <1>0 DEF ResetPort, GoTo, Stage, Awake, Idle, is_idle, PortStates
  <2> QED BY <1>0, <2>1, <2>2, <2>3, PointMove DEF Port
<1>2. CASE ~is_idle(Port)
  <2> DEFINE r == reset_cmd(Port)
  <2>1. r \in PortStates
    BY <1>0, DriverUpdates, Zenon
  <2>2. r.sig = Port.sig /\ r.det = Port.det /\ r.ipm = Port.ipm /\ r.cr = Port.cr /\ r.fr = Port.fr /\
        r.base = Port.base /\ r.busy = Port.busy
    BY <1>0 DEF PortStates, reset_cmd
  <2>3. ~r.st /\ ~r.fre
    BY <1>0 DEF PortStates, reset_cmd
  <2>4. port' = [port EXCEPT ![at] = r] /\ at' = at /\ up' = up
    BY <1>2, Zenon DEF ResetPort, SetPort, GoTo, NextPort
  <2> HIDE DEF r
  <2>5. saw' \in BOOLEAN /\ late' \in BOOLEAN /\ hpc' \in Points
    BY <1>2, <1>0, Zenon DEF ResetPort, GoTo, Points
  <2>6. Stage(hpc', status', saw', r)
    BY <1>2, <1>0, <2>2, <2>3 DEF ResetPort, GoTo, Stage, Awake, Idle, is_idle, PortStates
  <2> QED BY <1>0, <2>1, <2>4, <2>5, <2>6, PointStep, Zenon
<1> QED BY <1>1, <1>2

(* The engine is looked at. *)
LEMMA StepWaitStop == ASSUME PInv, WaitStop PROVE PInv'
<1>0. hpc \in Points /\ Port \in PortStates /\ Stage(hpc, status, saw, Port) /\ saw \in BOOLEAN /\ late \in BOOLEAN
  BY AtPort DEF WaitStop, Points
<1>1. PInv'
  <2>1. port' = port /\ at' = at /\ up' = up
    BY Zenon DEF WaitStop, GoTo
  <2>2. saw' \in BOOLEAN /\ late' \in BOOLEAN /\ hpc' \in Points
    BY <1>0 DEF WaitStop, GoTo, Points
  <2>3. Stage(hpc', status', saw', Port)
    BY <1>0 DEF WaitStop, GoTo, Stage, Awake, Idle, is_idle, PortStates
  <2> QED BY <1>0, <2>1, <2>2, <2>3, PointMove DEF Port
<1> QED BY <1>1

(* The addresses are written. *)
LEMMA StepWriteBases == ASSUME PInv, WriteBases PROVE PInv'
<1>0. hpc \in Points /\ Port \in PortStates /\ Stage(hpc, status, saw, Port) /\ saw \in BOOLEAN /\ late \in BOOLEAN
  BY AtPort DEF WriteBases, Points
<1>1. PInv'
  <2> DEFINE r == [Port EXCEPT !.base = "ours"]
  <2>1. r \in PortStates
    BY <1>0, DriverUpdates, Zenon
  <2>2. r.sig = Port.sig /\ r.det = Port.det /\ r.ipm = Port.ipm /\ r.st = Port.st /\ r.fre = Port.fre /\
        r.cr = Port.cr /\ r.fr = Port.fr /\ r.busy = Port.busy
    BY <1>0 DEF PortStates, reset_cmd
  <2>3. r.base = "ours"
    BY <1>0 DEF PortStates, reset_cmd
  <2>4. port' = [port EXCEPT ![at] = r] /\ at' = at /\ up' = up
    BY Zenon DEF WriteBases, SetPort, GoTo, NextPort
  <2> HIDE DEF r
  <2>5. saw' \in BOOLEAN /\ late' \in BOOLEAN /\ hpc' \in Points
    BY <1>0, Zenon DEF WriteBases, GoTo, Points
  <2>6. Stage(hpc', status', saw', r)
    BY <1>0, <2>2, <2>3 DEF WriteBases, GoTo, Stage, Awake, Idle, is_idle, PortStates
  <2> QED BY <1>0, <2>1, <2>4, <2>5, <2>6, PointStep, Zenon
<1> QED BY <1>1

(* The drive is ready, or the clock is looked at. *)
LEMMA StepWaitReady == ASSUME PInv, WaitReady PROVE PInv'
<1>0. hpc \in Points /\ Port \in PortStates /\ Stage(hpc, status, saw, Port) /\ saw \in BOOLEAN /\ late \in BOOLEAN
  BY AtPort DEF WaitReady, Points
<1>1. CASE ~Port.busy
  <2> DEFINE r == [Port EXCEPT !.fre = TRUE]
  <2>1. r \in PortStates
    BY <1>0, DriverUpdates, Zenon
  <2>2. r.sig = Port.sig /\ r.det = Port.det /\ r.ipm = Port.ipm /\ r.st = Port.st /\ r.cr = Port.cr /\
        r.fr = Port.fr /\ r.base = Port.base /\ r.busy = Port.busy
    BY <1>0 DEF PortStates, reset_cmd
  <2>3. r.fre
    BY <1>0 DEF PortStates, reset_cmd
  <2>4. port' = [port EXCEPT ![at] = r] /\ at' = at /\ up' = up
    BY <1>1, Zenon DEF WaitReady, SetPort, GoTo, NextPort
  <2> HIDE DEF r
  <2>5. saw' \in BOOLEAN /\ late' \in BOOLEAN /\ hpc' \in Points
    BY <1>1, <1>0 DEF WaitReady, GoTo, Points
  <2>6. Stage(hpc', status', saw', r)
    BY <1>1, <1>0, <2>2, <2>3 DEF WaitReady, GoTo, Stage, Awake, Idle, is_idle, PortStates
  <2> QED BY <1>0, <2>1, <2>4, <2>5, <2>6, PointStep, Zenon
<1>2. CASE Port.busy
  <2>1. port' = port /\ at' = at /\ up' = up
    BY <1>2, Zenon DEF WaitReady, GoTo
  <2>2. saw' \in BOOLEAN /\ late' \in BOOLEAN /\ hpc' \in Points
    BY <1>2, <1>0 DEF WaitReady, GoTo, Points
  <2>3. Stage(hpc', status', saw', Port)
    BY <1>2, <1>0 DEF WaitReady, GoTo, Stage, Awake, Idle, is_idle, PortStates
  <2> QED BY <1>0, <2>1, <2>2, <2>3, PointMove DEF Port
<1> QED BY <1>1, <1>2

(* The engine is started. *)
LEMMA StepStartEngine == ASSUME PInv, StartEngine PROVE PInv'
<1>0. hpc \in Points /\ Port \in PortStates /\ Stage(hpc, status, saw, Port) /\ saw \in BOOLEAN /\ late \in BOOLEAN
  BY AtPort DEF StartEngine, Points
<1>1. PInv'
  <2> DEFINE r == [Port EXCEPT !.fre = TRUE, !.st = TRUE]
  <2>1. r \in PortStates
    BY <1>0, DriverUpdates, Zenon
  <2>2. r.sig = Port.sig /\ r.det = Port.det /\ r.ipm = Port.ipm /\ r.cr = Port.cr /\ r.fr = Port.fr /\
        r.base = Port.base /\ r.busy = Port.busy
    BY <1>0 DEF PortStates, reset_cmd
  <2>3. r.fre /\ r.st
    BY <1>0 DEF PortStates, reset_cmd
  <2>4. port' = [port EXCEPT ![at] = r] /\ at' = at /\ up' = up
    BY Zenon DEF StartEngine, SetPort, GoTo, NextPort
  <2> HIDE DEF r
  <2>5. saw' \in BOOLEAN /\ late' \in BOOLEAN /\ hpc' \in Points
    BY <1>0 DEF StartEngine, GoTo, Points
  <2>6. Stage(hpc', status', saw', r)
    BY <1>0, <2>2, <2>3 DEF StartEngine, GoTo, Stage, Awake, Idle, is_idle, PortStates
  <2> QED BY <1>0, <2>1, <2>4, <2>5, <2>6, PointStep, Zenon
<1> QED BY <1>1

(* The engine runs. *)
LEMMA StepWaitRunning == ASSUME PInv, WaitRunning PROVE PInv'
<1>0. hpc \in Points /\ Port \in PortStates /\ Stage(hpc, status, saw, Port) /\ saw \in BOOLEAN /\ late \in BOOLEAN
  BY AtPort DEF WaitRunning, Points
<1>1. PInv'
  <2>1. port' = port /\ at' = at /\ up' = up
    BY Zenon DEF WaitRunning, GoTo
  <2>2. saw' \in BOOLEAN /\ late' \in BOOLEAN /\ hpc' \in Points
    BY <1>0 DEF WaitRunning, GoTo, Points
  <2>3. Stage(hpc', status', saw', Port)
    BY <1>0 DEF WaitRunning, GoTo, Stage, Awake, Idle, is_idle, PortStates
  <2> QED BY <1>0, <2>1, <2>2, <2>3, PointMove DEF Port
<1> QED BY <1>1

(* IDENTIFY is issued. *)
LEMMA StepIssue == ASSUME PInv, IssueIdentify PROVE PInv'
<1>0. hpc \in Points /\ Port \in PortStates /\ Stage(hpc, status, saw, Port) /\ saw \in BOOLEAN /\ late \in BOOLEAN
  BY AtPort DEF IssueIdentify, Points
<1>1. PInv'
  <2> DEFINE r == [Port EXCEPT !.ci = TRUE]
  <2>1. r \in PortStates
    BY <1>0, DriverUpdates, Zenon
  <2>2. r.sig = Port.sig /\ r.det = Port.det /\ r.ipm = Port.ipm /\ r.st = Port.st /\ r.fre = Port.fre /\
        r.cr = Port.cr /\ r.fr = Port.fr /\ r.base = Port.base /\ r.busy = Port.busy
    BY <1>0 DEF PortStates, reset_cmd
  <2>4. port' = [port EXCEPT ![at] = r] /\ at' = at /\ up' = up
    BY Zenon DEF IssueIdentify, SetPort, GoTo, NextPort
  <2> HIDE DEF r
  <2>5. saw' \in BOOLEAN /\ late' \in BOOLEAN /\ hpc' \in Points
    BY <1>0 DEF IssueIdentify, GoTo, Points
  <2>6. Stage(hpc', status', saw', r)
    BY <1>0, <2>2 DEF IssueIdentify, GoTo, Stage, Awake, Idle, is_idle, PortStates
  <2> QED BY <1>0, <2>1, <2>4, <2>5, <2>6, PointStep, Zenon
<1> QED BY <1>1

(* Time is up and the port is passed over, or the register is read again. *)
LEMMA StepClock == ASSUME PInv, CheckClock PROVE PInv'
<1>0. hpc \in Points /\ Port \in PortStates /\ Stage(hpc, status, saw, Port) /\ saw \in BOOLEAN /\ late \in BOOLEAN
  BY AtPort DEF CheckClock, Again, Points
<1>1. CASE late
  BY <1>1, LeavePort DEF CheckClock
<1>2. CASE ~late
  <2>1. port' = port /\ at' = at /\ up' = up /\ saw' = saw /\ late' = late /\ status' = status
    BY <1>2 DEF CheckClock, GoTo
  <2>2. hpc' = IF hpc = "stop_clock" /\ saw THEN "bases" ELSE Again[hpc]
    BY <1>2 DEF CheckClock, GoTo
  <2>3. \/ hpc = "det_clock" /\ hpc' = "det"
        \/ hpc = "ipm_clock" /\ hpc' = "ipm"
        \/ hpc = "tfd_clock" /\ hpc' = "tfd"
        \/ hpc = "stop_clock" /\ ~saw /\ hpc' = "stop"
        \/ hpc = "stop_clock" /\ saw /\ hpc' = "bases"
    BY <2>2 DEF CheckClock, Again
  <2>4. Stage(hpc', status', saw', Port) /\ hpc' \in Points
    BY <1>0, <2>1, <2>3 DEF Stage, Awake, Idle, Points
  <2> QED BY <1>0, <2>1, <2>4, PointMove DEF Port
<1> QED BY <1>1, <1>2

(* The port comes up. *)
LEMMA StepPortUp == ASSUME PInv, PortUp PROVE PInv'
<1>0. hpc \in Points /\ Port \in PortStates /\ Stage(hpc, status, saw, Port)
  BY AtPort DEF PortUp, Points
<1> DEFINE r == [Port EXCEPT !.ie = TRUE]
<1>1. r \in PortStates
  BY <1>0, DriverUpdates, Zenon
<1>2. /\ r.sig = Port.sig /\ r.det = Port.det /\ r.ipm = Port.ipm /\ r.st = Port.st /\ r.fre = Port.fre
      /\ r.cr = Port.cr /\ r.fr = Port.fr /\ r.base = Port.base /\ r.busy = Port.busy /\ r.ci = Port.ci /\ r.ie
  BY <1>0 DEF PortStates
<1>3. Ready(r)
  BY <1>0, <1>2 DEF PortUp, Stage, Ready, Awake
<1>4. /\ port' = [port EXCEPT ![at] = r] /\ up' = up \union {at} /\ at' = at + 1
      /\ hpc' = "new" /\ saw' = saw /\ late' = late
  BY DEF PortUp, SetPort, NextPort
<1> HIDE DEF r
<1>5. at \in 1 .. Len(port) /\ port \in Seq(PortStates) /\ at \in Nat \ {0}
  BY <1>0 DEF PInv, PortTypeOK
<1>6. /\ port' \in Seq(PortStates) /\ Len(port') = Len(port) /\ port'[at] = r
      /\ \A x \in 1 .. Len(port) : x # at => port'[x] = port[x]
  BY <1>1, <1>4, <1>5
<1>7. PortTypeOK'
  BY <1>4, <1>5, <1>6 DEF PInv, PortTypeOK, Points
<1>8. ASSUME NEW x \in up' PROVE x \in 1 .. Len(port') /\ x < at' /\ Ready(port'[x])
  <2>1. CASE x = at BY <1>3, <1>4, <1>5, <1>6, <2>1
  <2>2. CASE x # at
    <3>1. x \in up BY <1>4, <2>2
    <3> QED BY <1>4, <1>5, <1>6, <2>2, <3>1 DEF PInv
  <2> QED BY <2>1, <2>2
<1> QED BY <1>4, <1>7, <1>8 DEF PInv, Points

(* A port that has no drive is passed over, another is taken. *)
LEMMA StepNew == ASSUME PInv, new PROVE PInv'
<1> DEFINE none == Port.sig # "ata" \/ Port.det \in {"absent", "nophy"}
<1>1. CASE none
  BY <1>1, LeavePort DEF new
<1>2. CASE ~none
  <2>1. /\ port' = port /\ at' = at /\ up' = up /\ saw' = saw /\ late' = late /\ hpc' = "init"
        /\ at \in 1 .. Len(port)
    BY <1>2 DEF new, GoTo, PInv, PortTypeOK
  <2>2. port[at] \in PortStates
    BY <2>1 DEF PInv, PortTypeOK
  <2>3. Stage("init", status', saw', port[at])
    BY <1>2, <2>2 DEF Stage, Port, PortStates
  <2> QED BY <2>1, <2>3 DEF PInv, PortTypeOK, Points
<1> QED BY <1>1, <1>2

(* The inductive invariant. *)
LEMMA PortInvariant == PortInit /\ [][PortNext]_portVars => []PInv
<1>1. PortInit => PInv
  <2> SUFFICES ASSUME PortInit PROVE PInv
    OBVIOUS
  <2>1. port \in Seq(PortStates)
    BY ControllersOK DEF PortInit, PortRest
  <2>2. hpc = "hba" /\ at = 1 /\ up = {} /\ saw = FALSE /\ late = FALSE
    BY DEF PortInit, PortRest
  <2>3. saw \in BOOLEAN /\ late \in BOOLEAN
    BY <2>2, Zenon
  <2>4. hpc \notin Points /\ hpc \in Points \union {"hba", "new", "done", "no_memory", "panic"} /\ at \in Nat \ {0}
    BY <2>2 DEF Points
  <2> QED BY <2>1, <2>2, <2>3, <2>4, Zenon DEF PInv, PortTypeOK
<1>2. PInv /\ [PortNext]_portVars => PInv'
  <2> SUFFICES ASSUME PInv, [PortNext]_portVars PROVE PInv'
    OBVIOUS
  <2>1. CASE HbaInit BY <2>1 DEF HbaInit, PInv, PortTypeOK, Points
  <2>2. CASE PortsDone BY <2>2 DEF PortsDone, GoTo, PInv, PortTypeOK, Points
  <2>6. CASE NoMemory BY <2>6 DEF NoMemory, GoTo, PInv, PortTypeOK, Points
  <2>7. CASE IdentifyPanics BY <2>7 DEF IdentifyPanics, GoTo, PInv, PortTypeOK, Points
  <2>3. CASE SecondPasses BY <2>3 DEF SecondPasses, PInv, PortTypeOK
  <2>4. CASE UNCHANGED portVars BY <2>4 DEF portVars, PInv, PortTypeOK
  <2>5. CASE Driver
    BY <2>1, <2>2, <2>5, <2>6, <2>7, StepReadStatus, StepWakeUp, StepWaitDet, StepPowerUp, StepWaitIpm, StepReset,
       StepWaitStop,
       StepClock, StepWriteBases, StepWaitReady, StepStartEngine, StepWaitRunning, StepIssue, StepPortUp, StepNew
       DEF Driver
  <2> QED BY <2>3, <2>4, <2>5, HardwareStep DEF PortNext
<1> QED BY <1>1, <1>2, PTL

(* A port handed on is in the state the driver task starts from, for any   *)
(* controller and any state the firmware left (AhciSata::init).            *)
THEOREM PortsAreReady == PortSpec => []PortsUpAreReady
<1>1. PInv => PortsUpAreReady
  BY DEF PInv, Ready, Awake, PortsUpAreReady
<1> QED BY <1>1, PortInvariant, PTL DEF PortSpec

(* The addresses are never written under a running engine (reset, init). *)
THEOREM BasesAreSafe == PortSpec => BasesWrittenStopped
<1> DEFINE Stopped == \A p \in DOMAIN port : port'[p].base # port[p].base =>
                         ~port[p].st /\ ~port[p].cr /\ ~port[p].fre /\ ~port[p].fr
<1>1. PInv /\ [PortNext]_portVars => [Stopped]_portVars
  <2> SUFFICES ASSUME PInv, PortNext, NEW p \in DOMAIN port, port'[p].base # port[p].base
               PROVE  ~port[p].st /\ ~port[p].cr /\ ~port[p].fre /\ ~port[p].fr
    OBVIOUS
  <2>0. port \in Seq(PortStates) /\ port[p] \in PortStates
    BY DEF PInv, PortTypeOK
  <2>1. CASE WriteBases
    <3>1. hpc \in Points /\ Idle(port[at])
      BY <2>1, AtPort DEF WriteBases, Points, Stage, Port
    <3>2. p = at
      BY <2>0, <2>1 DEF WriteBases, SetPort
    <3> QED BY <3>1, <3>2 DEF Idle
  <2>2. CASE \E x \in DOMAIN port : Hardware(x)
    <3>0. PICK x \in DOMAIN port : \E r : Moved(port[x], r) /\ port' = [port EXCEPT ![x] = r]
      BY <2>2, Zenon DEF Hardware, EngineFollows, DriveWakes, DriveReady, Identifies, Change, Moved
    <3>1. PICK r : Moved(port[x], r) /\ port' = [port EXCEPT ![x] = r]
      BY <3>0, Zenon
    <3>2. x = p /\ port'[p] = r
      BY <2>0, <3>1
    <3>3. r.base = port[p].base
      BY <2>0, <3>1, <3>2, Zenon DEF Moved, PortStates
    <3> QED BY <3>2, <3>3
  <2>3. CASE SecondPasses \/ HbaInit \/ PortsDone \/ new \/ NoMemory \/ WaitStop \/ CheckClock
          \/ WaitRunning \/ IdentifyPanics
    BY <2>3 DEF SecondPasses, HbaInit, PortsDone, new, NoMemory, WaitStop, CheckClock, WaitRunning, IdentifyPanics
  <2>4. CASE ReadStatus \/ PortUp \/ IssueIdentify \/ WakeUp \/ WaitDet \/ PowerUp \/ WaitIpm \/ ResetPort \/ WaitReady \/ StartEngine
    <3>0. ASSUME NEW r, SetPort(r), Port \in PortStates => r.base = Port.base PROVE FALSE
      BY <2>0, <3>0 DEF SetPort, Port
    <3> DEFINE R == {[Port EXCEPT !.ie = FALSE], [Port EXCEPT !.ie = TRUE], [Port EXCEPT !.ci = TRUE],
                     [Port EXCEPT !.icc = TRUE], [Port EXCEPT !.fre = TRUE],
                     [Port EXCEPT !.fre = TRUE, !.st = TRUE], reset_cmd(Port),
                     [reset_cmd(Port) EXCEPT !.comreset = TRUE], [reset_cmd(Port) EXCEPT !.comreset = FALSE]}
    <3>1. ASSUME Port \in PortStates, NEW r \in R PROVE r.base = Port.base
      BY <3>1, Zenon DEF PortStates, reset_cmd
    <3>2. port' = port \/ \E r \in R : SetPort(r)
      BY <2>4, Zenon
         DEF ReadStatus, PortUp, IssueIdentify, WakeUp, WaitDet, PowerUp, WaitIpm, ResetPort, WaitReady,
         StartEngine
    <3> HIDE DEF R
    <3>3. \A r \in R : ~SetPort(r)
      BY <3>0, <3>1
    <3> QED BY <3>2, <3>3
  <2> QED BY <2>1, <2>2, <2>3, <2>4 DEF PortNext, Driver
<1> QED BY <1>1, PortInvariant, PTL DEF PortSpec, BasesWrittenStopped

-----------------------------------------------------------------------------
(* The mutex.                                                              *)

ListPcs == {"insert", "unlock_list", "pop", "drop_unlock_list"}

(* Both exclusions need the lock words: a guard exists only while state is *)
(* Locked, and a task is inside the list only while the list is locked.    *)
LocksHeld ==
    /\ \A t \in Tasks : pc[t] = "guard" => state = Locked
    /\ \A t \in Tasks : pc[t] \in ListPcs => wakers_list_state = Locked

ListAlone == \A t, u \in Tasks : pc[t] \in ListPcs /\ pc[u] \in ListPcs => t = u

(* A task that only this mutex wakes has not run since its waker was       *)
(* called, and its node is never freed while linked.                       *)
OthersWait ==
    \A t \in Tasks \ Strays :
        t \notin freed /\ (t \in woken => pc[t] \in {"unlock_list", "parked"})

(* A linked node is alive or counted as freed, whoever wakes its task: a   *)
(* future that makes a node is not linked yet, unless its last node was    *)
(* freed while linked.                                                     *)
LinkedIsKnown ==
    \A t \in Tasks : Listed(t) =>
        \/ t \in freed
        \/ /\ t \in node
           /\ pc[t] \in {"try", "lock_list", "insert", "unlock_list", "parked"}

IInv == /\ TypeOK
        /\ LocksHeld
        /\ MutualExclusion
        /\ ListAlone
        /\ OthersWait
        /\ LinkedIsKnown
        /\ LinkedNodesAreAlive
        /\ ListIsRing

(* The initial state satisfies the inductive invariant: nobody holds a     *)
(* guard, nobody is inside the list, and the list is empty.                *)
LEMMA InitIInv == Init => IInv
<1> SUFFICES ASSUME Init PROVE IInv
  OBVIOUS
<1>1. TypeOK
  BY DEF Init, TypeOK, Pcs, Pointers, Locked, Unlocked
<1>2. LocksHeld /\ MutualExclusion /\ ListAlone /\ OthersWait
  BY DEF Init, LocksHeld, MutualExclusion, ListAlone, ListPcs, OthersWait
<1>3. LinkedIsKnown /\ LinkedNodesAreAlive /\ ListIsRing
  BY DEF Init, LinkedIsKnown, LinkedNodesAreAlive, Listed, ListIsRing
<1> QED
  BY <1>1, <1>2, <1>3 DEF IInv

(* Every step keeps the variables within their types; the pointer surgery  *)
(* only stores nodes and null.                                             *)
LEMMA TypeStep == TypeOK /\ ListIsRing /\ [Next]_vars => TypeOK'
<1> SUFFICES ASSUME TypeOK, ListIsRing, [Next]_vars PROVE TypeOK'
  OBVIOUS
<1> USE DEF TypeOK, Pcs, Pointers, Locked, Unlocked, Goto, links
<1>1. CASE UNCHANGED vars
  BY <1>1, Zenon DEF vars
<1>2. ASSUME NEW t \in Tasks, Step(t) PROVE TypeOK'
  <2>1. CASE Lock(t)
    BY <2>1 DEF Lock
  <2>2. CASE TryLock(t)
    BY <2>2 DEF TryLock, FreeNode
  <2>3. CASE SpinAcquire(t)
    BY <2>3 DEF SpinAcquire
  <2>4. CASE LockWakersList(t)
    BY <2>4 DEF LockWakersList
  <2>5. CASE InsertNode(t)
    <3>1. queue' \in Seq(Tasks)
      BY <2>5 DEF InsertNode
    <3> QED
      BY <2>5, <3>1, SMTT(60) DEF InsertNode, InsertIntoEmpty, InsertAtHead
  <2>6. CASE UnlockWakersList(t)
    BY <2>6 DEF UnlockWakersList
  <2>7. CASE Repoll(t)
    BY <2>7 DEF Repoll
  <2>8. CASE DropGuard(t)
    BY <2>8 DEF DropGuard
  <2>10. CASE StrayPoll(t) \/ UseFreed(t)
    BY <2>10 DEF StrayPoll, UseFreed
  <2>11. CASE DropFuture(t)
    BY <2>11 DEF DropFuture, FreeNode
  <2>9. CASE PopTail(t)
    <3>1. queue' \in Seq(Tasks)
      <4>1. CASE queue = <<>>
        <5>1. wakers_list_tail = Null
          BY <4>1 DEF ListIsRing
        <5> QED
          BY <2>9, <5>1 DEF PopTail
      <4>2. CASE queue # <<>>
        <5>1. Tail(queue) \in Seq(Tasks)
          BY <4>2
        <5> QED
          BY <2>9, <5>1, Zenon DEF PopTail
      <4> QED
        BY <4>1, <4>2
    <3> QED
      BY <2>9, <3>1, SMTT(60) DEF PopTail
  <2> QED
    BY <1>2, <2>1, <2>2, <2>3, <2>4, <2>5, <2>6, <2>7, <2>8, <2>9, <2>10, <2>11 DEF Step
<1> QED
  BY <1>1, <1>2 DEF Next

(* Every step preserves the exclusions: a guard or the list is entered     *)
(* only through a lock word that is Unlocked, and left by the step that    *)
(* opens the lock word again.                                              *)
LEMMA ExclusionStep == IInv /\ [Next]_vars => LocksHeld' /\ MutualExclusion' /\ ListAlone'
<1> SUFFICES ASSUME IInv, [Next]_vars
             PROVE  LocksHeld' /\ MutualExclusion' /\ ListAlone'
  OBVIOUS
<1> USE DEF IInv, TypeOK, LocksHeld, MutualExclusion, ListAlone, ListPcs, Pcs,
            Locked, Unlocked, Goto
<1>1. CASE UNCHANGED vars
  BY <1>1, Zenon DEF vars
<1>2. ASSUME NEW t \in Tasks, Step(t)
      PROVE  LocksHeld' /\ MutualExclusion' /\ ListAlone'
  <2>1. CASE Lock(t)
    BY <2>1 DEF Lock
  <2>2. CASE TryLock(t)
    BY <2>2 DEF TryLock
  <2>3. CASE SpinAcquire(t)
    BY <2>3 DEF SpinAcquire
  <2>4. CASE LockWakersList(t)
    BY <2>4 DEF LockWakersList
  <2>5. CASE InsertNode(t)
    BY <2>5 DEF InsertNode
  <2>6. CASE UnlockWakersList(t)
    BY <2>6 DEF UnlockWakersList
  <2>7. CASE Repoll(t)
    BY <2>7 DEF Repoll
  <2>8. CASE DropGuard(t)
    BY <2>8 DEF DropGuard
  <2>9. CASE PopTail(t)
    BY <2>9 DEF PopTail
  <2>10. CASE StrayPoll(t) \/ UseFreed(t)
    BY <2>10 DEF StrayPoll, UseFreed
  <2>11. CASE DropFuture(t)
    BY <2>11 DEF DropFuture
  <2> QED
    BY <1>2, <2>1, <2>2, <2>3, <2>4, <2>5, <2>6, <2>7, <2>8, <2>9, <2>10, <2>11 DEF Step
<1> QED
  BY <1>1, <1>2 DEF Next

(* What the insertion of a node does, apart from the pointers. *)
LEMMA InsertEffect ==
    ASSUME NEW t, InsertNode(t), t \notin node
    PROVE  /\ queue' = Append(queue, t) /\ node' = node \union {t} /\ freed' = freed
           /\ woken' = woken /\ pc[t] = "insert" /\ t \notin freed
           /\ pc' = [pc EXCEPT ![t] = "unlock_list"]
  BY Zenon DEF InsertNode, Touched, Goto

(* A waiter is listed from its insertion until it is popped and woken.  If *)
(* only this mutex wakes it, it stays parked in between; if it is a stray  *)
(* it may be polled, and when its future goes away its node is in freed.   *)
LEMMA AliveStep ==
    IInv /\ [Next]_vars => LinkedIsKnown' /\ LinkedNodesAreAlive' /\ OthersWait'
<1> DEFINE Alive == LinkedIsKnown /\ LinkedNodesAreAlive /\ OthersWait
<1> SUFFICES ASSUME IInv, [Next]_vars PROVE Alive'
  OBVIOUS
<1>1. CASE UNCHANGED vars
  BY <1>1 DEF vars, IInv, LinkedIsKnown, LinkedNodesAreAlive, OthersWait, Listed
<1> USE DEF IInv, TypeOK, Pcs, LinkedIsKnown, LinkedNodesAreAlive, OthersWait, Goto
<1>l. UNCHANGED queue => \A u \in Tasks : Listed(u)' <=> Listed(u)
  BY DEF Listed
<1>2. ASSUME NEW t \in Tasks, Step(t) PROVE Alive'
  <2>1. CASE Lock(t)
    BY <1>l, <2>1 DEF Lock, links
  <2>2. CASE TryLock(t)
    BY <1>l, <2>2 DEF TryLock, FreeNode, links
  <2>3. CASE SpinAcquire(t)
    BY <1>l, <2>3 DEF SpinAcquire, links
  <2>4. CASE LockWakersList(t)
    BY <1>l, <2>4 DEF LockWakersList, links
  <2>5. CASE InsertNode(t)
    <3>1. CASE t \in node
      BY <1>l, <2>5, <3>1 DEF InsertNode, links
    <3>2. CASE t \notin node
      <4>1. /\ queue' = Append(queue, t) /\ node' = node \union {t} /\ freed' = freed
            /\ woken' = woken /\ pc[t] = "insert"
            /\ pc' = [pc EXCEPT ![t] = "unlock_list"]
        BY <2>5, <3>2, InsertEffect
      <4>2. \A u \in Tasks : Listed(u)' => Listed(u) \/ u = t
        BY <4>1 DEF Listed
      <4> QED
        BY <4>1, <4>2
    <3> QED
      BY <3>1, <3>2
  <2>6. CASE UnlockWakersList(t)
    BY <1>l, <2>6 DEF UnlockWakersList, links
  <2>7. CASE Repoll(t)
    BY <1>l, <2>7 DEF Repoll, links
  <2>8. CASE DropGuard(t)
    BY <1>l, <2>8 DEF DropGuard, links
  <2>9. CASE PopTail(t)
    <3>1. CASE queue = <<>>
      BY <1>l, <2>9, <3>1 DEF PopTail, ListIsRing, links
    <3>2. CASE queue # <<>>
      <4>1. /\ Len(queue) > 0 /\ queue[1] \in Tasks /\ queue[Len(queue)] \in Tasks
            /\ wakers_list_tail = queue[1] /\ wakers_list_head = queue[Len(queue)]
        BY <3>2 DEF ListIsRing
      <4>2. /\ queue' = Tail(queue) /\ woken' = woken \union {queue[1]} /\ freed' = freed
            /\ node' = node /\ pc' = [pc EXCEPT ![t] = "drop_unlock_list"]
        BY <2>9, <4>1, NullIsNoTask DEF PopTail
      <4>3. \A u \in Tasks : Listed(u)' => Listed(u) /\ u # queue[1]
        BY <3>2, <4>2 DEF ListIsRing, Listed
      <4>4. Listed(queue[1])
        BY <4>1 DEF Listed
      <4>5. pc[t] = "pop" /\ (Listed(t) => t \in freed)
        BY <2>9 DEF PopTail
      <4> QED
        BY <4>1, <4>2, <4>3, <4>4, <4>5
    <3> QED
      BY <3>1, <3>2
  <2>10. CASE StrayPoll(t) \/ UseFreed(t)
    <3>1. CASE StrayPoll(t)
      BY <1>l, <3>1 DEF StrayPoll, links
    <3>2. CASE UseFreed(t)
      <4>1. Listed(t) => t \in freed
        BY <3>2 DEF UseFreed, Touched
      <4> QED BY <1>l, <3>2, <4>1 DEF UseFreed, links
    <3> QED BY <2>10, <3>1, <3>2
  <2>11. CASE DropFuture(t)
    BY <1>l, <2>11 DEF DropFuture, FreeNode, links
  <2> QED
    BY <1>2, <2>1, <2>2, <2>3, <2>4, <2>5, <2>6, <2>7, <2>8, <2>9, <2>10, <2>11, Zenon DEF Step
<1> QED
  BY <1>1, <1>2 DEF Next

(* The insertion of a node that is not linked keeps the ring: it goes      *)
(* between the head, the youngest waiter so far, and the tail.             *)
LEMMA InsertKeepsRing ==
    ASSUME IInv, NEW t \in Tasks, InsertNode(t)
    PROVE  ListIsRing'
<1>0. /\ next \in [Tasks -> Pointers] /\ prev \in [Tasks -> Pointers] /\ queue \in Seq(Tasks)
      /\ ListIsRing /\ LinkedIsKnown
  BY Zenon DEF IInv, TypeOK
<1>1. CASE t \in node
  BY <1>0, <1>1 DEF InsertNode, links, ListIsRing
<1>2. CASE t \notin node
  <2>0. t \notin freed
    BY <1>2, InsertEffect, Zenon
  <2>1. \A i \in 1 .. Len(queue) : queue[i] \in Tasks /\ queue[i] # t
    BY <1>0, <1>2, <2>0 DEF LinkedIsKnown, Listed
  <2>2. queue' = Append(queue, t)
    BY <1>0, <1>2 DEF InsertNode
  <2>3. CASE queue = <<>>
    <3>1. InsertIntoEmpty(t)
      BY <1>0, <1>2, <2>3 DEF InsertNode, ListIsRing
    <3>2. queue' = <<t>>
      BY <1>0, <2>2, <2>3
    <3> QED
      BY <1>0, <3>1, <3>2 DEF InsertIntoEmpty, ListIsRing
  <2>4. CASE queue # <<>>
    <3> DEFINE n == Len(queue)
    <3>1. /\ n \in Nat /\ n > 0
          /\ wakers_list_tail = queue[1] /\ wakers_list_head = queue[n]
          /\ queue[1] \in Tasks /\ queue[n] \in Tasks
      BY <1>0, <2>1, <2>4 DEF ListIsRing
    <3>2. InsertAtHead(t)
      BY <1>0, <1>2, <3>1, NullIsNoTask DEF InsertNode
    <3>3. /\ wakers_list_head' = t /\ wakers_list_tail' = queue[1]
          /\ next' = [next EXCEPT ![t] = queue[n], ![queue[1]] = t]
          /\ prev' = [prev EXCEPT ![t] = queue[1], ![queue[n]] = t]
      BY <1>0, <3>1, <3>2, Zenon DEF InsertAtHead
    <3>4. /\ Len(queue') = n + 1 /\ queue'[n + 1] = t
          /\ \A i \in 1 .. n : queue'[i] = queue[i]
      BY <1>0, <2>2
    <3>5. \A i, j \in 1 .. n : queue[i] = queue[j] => i = j
      BY <1>0, Zenon DEF ListIsRing
    <3>6. \A i \in 1 .. n + 1 :
            /\ prev'[queue'[i]] = (IF i = n + 1 THEN queue'[1] ELSE queue'[i + 1])
            /\ next'[queue'[i]] = (IF i = 1 THEN queue'[n + 1] ELSE queue'[i - 1])
      <4> SUFFICES ASSUME NEW i \in 1 .. n + 1
                   PROVE  /\ prev'[queue'[i]] = (IF i = n + 1 THEN queue'[1] ELSE queue'[i + 1])
                          /\ next'[queue'[i]] = (IF i = 1 THEN queue'[n + 1] ELSE queue'[i - 1])
        BY Zenon
      <4>1. CASE i = n + 1
        BY <1>0, <2>1, <3>1, <3>3, <3>4, <4>1
      <4>2. CASE i \in 1 .. n
        <5>1. /\ prev[queue[i]] = (IF i = n THEN queue[1] ELSE queue[i + 1])
              /\ next[queue[i]] = (IF i = 1 THEN queue[n] ELSE queue[i - 1])
          BY <1>0, <4>2 DEF ListIsRing
        <5>2. prev'[queue[i]] = IF i = n THEN t ELSE prev[queue[i]]
          BY <1>0, <2>1, <3>1, <3>3, <3>5, <4>2
        <5>3. next'[queue[i]] = IF i = 1 THEN t ELSE next[queue[i]]
          BY <1>0, <2>1, <3>1, <3>3, <3>5, <4>2
        <5> QED
          BY <1>0, <3>1, <3>4, <4>2, <5>1, <5>2, <5>3, SMTT(60)
      <4> QED
        BY <1>0, <4>1, <4>2, <3>1
    <3>7. \A i, j \in 1 .. n + 1 : queue'[i] = queue'[j] => i = j
      BY <1>0, <2>1, <3>1, <3>4, <3>5
    <3>8. /\ Len(queue') # 0
          /\ wakers_list_head' = queue'[n + 1] /\ wakers_list_tail' = queue'[1]
      BY <1>0, <3>1, <3>3, <3>4
    <3> HIDE DEF n
    <3> QED
      BY <1>0, <3>4, <3>6, <3>7, <3>8 DEF ListIsRing
  <2> QED
    BY <1>0, <2>3, <2>4, Zenon
<1> QED
  BY <1>0, <1>1, <1>2

(* Popping the tail, the oldest waiter, keeps the ring of the others. *)
LEMMA PopKeepsRing ==
    ASSUME IInv, NEW t \in Tasks, PopTail(t)
    PROVE  ListIsRing'
<1>0. /\ next \in [Tasks -> Pointers] /\ prev \in [Tasks -> Pointers] /\ queue \in Seq(Tasks)
      /\ ListIsRing /\ LinkedIsKnown
  BY DEF IInv, TypeOK
<1>1. CASE queue = <<>>
  BY <1>0, <1>1 DEF PopTail, ListIsRing, links
<1>2. CASE queue # <<>>
  <2> DEFINE n == Len(queue)
  <2>1. /\ n \in Nat /\ n > 0
        /\ wakers_list_tail = queue[1] /\ wakers_list_head = queue[n]
        /\ \A i \in 1 .. n : queue[i] \in Tasks
    BY <1>0, <1>2 DEF ListIsRing
  <2>2. /\ wakers_list_tail # Null /\ wakers_list_head # Null
        /\ queue' = Tail(queue)
    <3>1. wakers_list_tail # Null /\ wakers_list_head # Null
      BY <2>1, NullIsNoTask
    <3> QED BY <3>1, Zenon DEF PopTail
  <2>3. /\ Len(queue') = n - 1
        /\ \A i \in 1 .. n - 1 : queue'[i] = queue[i + 1]
    BY <1>0, <1>2, <2>2
  <2>4. \A i, j \in 1 .. n : queue[i] = queue[j] => i = j
    BY <1>0 DEF ListIsRing
  <2>5. \A i \in 1 .. n :
          /\ prev[queue[i]] = (IF i = n THEN queue[1] ELSE queue[i + 1])
          /\ next[queue[i]] = (IF i = 1 THEN queue[n] ELSE queue[i - 1])
    BY <1>0, Zenon DEF ListIsRing
  <2>6. CASE n = 1
    <3>1. prev[queue[1]] = queue[1]
      BY <1>0, <2>1, <2>5, <2>6
    <3>2. wakers_list_head' = Null /\ wakers_list_tail' = Null
      BY <1>0, <2>1, <2>2, <3>1, Zenon DEF PopTail
    <3> QED
      BY <1>0, <2>3, <2>6, <3>2 DEF ListIsRing
  <2>7. CASE n > 1
    <3>1. prev[queue[1]] = queue[2] /\ queue[2] # queue[1]
      BY <1>0, <2>1, <2>4, <2>5, <2>7
    <3>2. /\ wakers_list_head' = queue[n] /\ wakers_list_tail' = queue[2]
          /\ next' = [next EXCEPT ![queue[2]] = queue[n]]
          /\ prev' = [prev EXCEPT ![queue[n]] = queue[2]]
      BY <1>0, <2>1, <2>2, <3>1, Zenon DEF PopTail
    <3>3. \A i \in 1 .. n - 1 :
            /\ prev'[queue'[i]] = (IF i = n - 1 THEN queue'[1] ELSE queue'[i + 1])
            /\ next'[queue'[i]] = (IF i = 1 THEN queue'[n - 1] ELSE queue'[i - 1])
      <4> SUFFICES ASSUME NEW i \in 1 .. n - 1
                   PROVE  /\ prev'[queue'[i]] = (IF i = n - 1 THEN queue'[1] ELSE queue'[i + 1])
                          /\ next'[queue'[i]] = (IF i = 1 THEN queue'[n - 1] ELSE queue'[i - 1])
        BY Zenon
      <4>1. prev'[queue[i + 1]] = IF i + 1 = n THEN queue[2] ELSE queue[i + 2]
        BY <1>0, <2>1, <2>4, <2>5, <2>7, <3>2
      <4>2. next'[queue[i + 1]] = IF i = 1 THEN queue[n] ELSE queue[i]
        BY <1>0, <2>1, <2>4, <2>5, <2>7, <3>2
      <4>3. /\ queue'[i] = queue[i + 1] /\ queue'[1] = queue[2] /\ queue'[n - 1] = queue[n]
            /\ i # n - 1 => queue'[i + 1] = queue[i + 2]
            /\ i # 1 => queue'[i - 1] = queue[i]
        <5> HIDE DEF n
        <5> QED
          BY <1>0, <2>1, <2>3, <2>7
      <4>4. n \in Nat
        BY <1>0, <2>1, Zenon
      <4> HIDE DEF n
      <4>5. CASE i = n - 1
        <5>1. prev'[queue'[i]] = queue'[1]
          BY <1>0, <4>1, <4>3, <4>4, <4>5
        <5>2. next'[queue'[i]] = IF i = 1 THEN queue'[n - 1] ELSE queue'[i - 1]
          BY <1>0, <4>2, <4>3
        <5> QED BY <1>0, <4>5, <5>1, <5>2
      <4>6. CASE i # n - 1
        <5>1. prev'[queue'[i]] = queue'[i + 1]
          BY <1>0, <4>1, <4>3, <4>4, <4>6
        <5>2. next'[queue'[i]] = IF i = 1 THEN queue'[n - 1] ELSE queue'[i - 1]
          BY <1>0, <4>2, <4>3
        <5> QED BY <1>0, <4>6, <5>1, <5>2, Zenon
      <4> QED BY <1>0, <4>5, <4>6, Zenon
    <3>4. \A i, j \in 1 .. n - 1 : queue'[i] = queue'[j] => i = j
      <4> SUFFICES ASSUME NEW i \in 1 .. n - 1, NEW j \in 1 .. n - 1, queue'[i] = queue'[j]
                   PROVE  i = j
        OBVIOUS
      <4> HIDE DEF n
      <4>1. i + 1 \in 1 .. n /\ j + 1 \in 1 .. n
        BY <1>0, <2>1
      <4>2. queue[i + 1] = queue[j + 1]
        BY <1>0, <2>3
      <4>3. i + 1 = j + 1
        BY <1>0, <2>4, <4>1, <4>2
      <4> QED
        BY <1>0, <2>1, <4>3
    <3> QED
      BY <1>0, <2>1, <2>3, <2>7, <3>2, <3>3, <3>4, SMTT(60) DEF ListIsRing
  <2>8. n = 1 \/ n > 1
    <3> HIDE DEF n
    <3> QED
      BY <1>0, <2>1
  <2> QED
    BY <1>0, <2>6, <2>7, <2>8
<1> QED
  BY <1>0, <1>1, <1>2

(* Every step keeps the waker list a ring of the waiting tasks. *)
LEMMA RingStep == IInv /\ [Next]_vars => ListIsRing'
<1> SUFFICES ASSUME IInv, [Next]_vars PROVE ListIsRing'
  BY Zenon
<1>1. CASE UNCHANGED links
  BY <1>1, Zenon DEF links, IInv, ListIsRing
<1>2. ASSUME NEW t \in Tasks, Step(t), ~ UNCHANGED links
      PROVE  InsertNode(t) \/ PopTail(t)
  BY <1>2 DEF Step, Lock, TryLock, SpinAcquire, LockWakersList, UnlockWakersList,
              Repoll, StrayPoll, DropFuture, UseFreed, DropGuard
<1> QED
  BY <1>1, <1>2, InsertKeepsRing, PopKeepsRing DEF Next, vars, links

(* The inductive invariant holds in every reachable state. *)
THEOREM Invariance == Spec => []IInv
<1>1. IInv /\ [Next]_vars => IInv'
  BY TypeStep, ExclusionStep, AliveStep, RingStep DEF IInv
<1> QED
  BY InitIInv, <1>1, PTL DEF Spec

(* The variables of the mutex keep their types, for any set of tasks. *)
THEOREM TypeCorrect == Spec => []TypeOK
  BY Invariance, PTL DEF IInv

(* At most one task holds a guard of the mutex, for any number of tasks    *)
(* calling lock().await and spin_acquire_lock concurrently.                *)
THEOREM GuardsExclude == Spec => []MutualExclusion
  BY Invariance, PTL DEF IInv

(* At most one task is inside the critical sections that read and write    *)
(* the pointers of the waker list.                                         *)
THEOREM ListSectionsExclude == Spec => []ListExclusion
<1>1. IInv => ListExclusion
  BY DEF IInv, ListAlone, ListExclusion, ListPcs
<1> QED
  BY Invariance, <1>1, PTL

(* The waker list is a ring of the waiters in arrival order, whatever the  *)
(* interleaving of polls and drops, polls that this mutex did not ask for  *)
(* included: no pointer of it is wrong before a freed node is used.        *)
THEOREM WakerListIsRing == Spec => []ListIsRing
  BY Invariance, PTL DEF IInv

(* The future of a task that only this mutex wakes cannot complete and     *)
(* free a node that is linked, for any set of strays among the others.     *)
THEOREM WakerListIsAlive == Spec => []LinkedNodesAreAlive
  BY Invariance, PTL DEF IInv

(* Both at once, for any set of tasks and any set of strays.               *)
THEOREM WakerListIsSound == Spec => []ListIsSound
  BY WakerListIsRing, WakerListIsAlive, PTL DEF ListIsSound

(* A freed node is used only when some task is a stray: while nothing but  *)
(* this mutex polls or drops its waiters, no poll and no drop of a guard   *)
(* follows a pointer of the list into a node that is gone.                 *)
THEOREM WithoutStraysNothingIsFreed == Strays = {} /\ Spec => []NoFreedNodeIsUsed
<1> SUFFICES ASSUME Strays = {} PROVE Spec => []NoFreedNodeIsUsed
  OBVIOUS
<1>1. Init => NoFreedNodeIsUsed
  BY DEF Init, NoFreedNodeIsUsed
<1>2. IInv => freed = {}
  BY DEF IInv, TypeOK, OthersWait
<1>3. IInv /\ NoFreedNodeIsUsed /\ [Next]_vars => NoFreedNodeIsUsed'
  <2> SUFFICES ASSUME IInv, NoFreedNodeIsUsed, [Next]_vars PROVE NoFreedNodeIsUsed'
    OBVIOUS
  <2>1. CASE UNCHANGED vars
    BY <2>1 DEF vars, NoFreedNodeIsUsed
  <2>2. ASSUME NEW t \in Tasks, Step(t) PROVE NoFreedNodeIsUsed'
    <3>1. pc \in [Tasks -> Pcs]
      BY DEF IInv, TypeOK
    <3>2. ~UseFreed(t)
      BY <1>2 DEF UseFreed
    <3>3. \E l \in Pcs \ {"undefined"} : pc' = [pc EXCEPT ![t] = l]
      BY <2>2, <3>2, Zenon
         DEF Step, Lock, TryLock, SpinAcquire, LockWakersList, InsertNode,
         UnlockWakersList, Repoll, StrayPoll, DropFuture, DropGuard, PopTail, Goto, Pcs
    <3> QED BY <3>1, <3>3 DEF NoFreedNodeIsUsed
  <2> QED BY <2>1, <2>2 DEF Next
<1> QED BY <1>1, <1>3, Invariance, PTL DEF Spec

-----------------------------------------------------------------------------
Releasing == {t \in Tasks : pc[t] \in {"drop_lock_list", "pop"}}

(* Holder names the one task with a guard, now and after a step. *)
LEMMA HolderIsGuard ==
    ASSUME MutualExclusion, NEW t \in Tasks, pc[t] = "guard"
    PROVE  Holder = t
  BY DEF Holder, MutualExclusion

(* The same of the state after a step. *)
LEMMA HolderIsGuardNext ==
    ASSUME MutualExclusion', NEW t \in Tasks, pc'[t] = "guard"
    PROVE  Holder' = t
  BY DEF Holder, MutualExclusion

(* A step that adds or removes no guard leaves the holder alone. *)
LEMMA HolderUnchanged ==
    ASSUME \A t \in Tasks : pc'[t] = "guard" <=> pc[t] = "guard"
    PROVE  Holder' = Holder
  BY Zenon DEF Holder

(* Listed is what FifoMutex calls being in the queue. *)
LEMMA ListedIsQueued == \A t : Listed(t) <=> Abstract!InQueue(t)
  BY DEF Listed, Abstract!InQueue

(* Taking the free mutex is Acquire; only a stray can take it while it is  *)
(* in the queue.                                                           *)
LEMMA AcquireStep ==
    ASSUME IInv, MutualExclusion', NEW t \in Tasks, pc[t] \in {"idle", "try"},
           state = Unlocked, pc' = [pc EXCEPT ![t] = "guard"],
           UNCHANGED <<queue, woken>>,
           freed' = IF Listed(t) THEN freed \union {t} ELSE freed
    PROVE  Abstract!Acquire(t)
<1>1. Holder = Null
  BY DEF IInv, LocksHeld, Holder, Locked, Unlocked
<1>2. Holder' = t
  BY HolderIsGuardNext DEF IInv, TypeOK
<1>3. Listed(t) => t \in Strays
  BY DEF IInv, LinkedNodesAreAlive
<1>4. Releasing' = Releasing
  BY DEF Releasing, IInv, TypeOK
<1>5. Abstract!Leaves(t)
  BY ListedIsQueued, Zenon DEF Abstract!Leaves
<1> QED
  BY <1>1, <1>2, <1>3, <1>4, <1>5, ListedIsQueued DEF Abstract!Acquire, Releasing

(* Every step of the mutex is a step of FifoMutex or a stuttering step. *)
LEMMA RefinementStep ==
    IInv /\ IInv' /\ [Next]_vars => [Abstract!AbsNext]_(Abstract!absVars)
<1> SUFFICES ASSUME IInv, IInv', [Next]_vars
             PROVE  Abstract!AbsNext \/ UNCHANGED Abstract!absVars
  OBVIOUS
<1> USE DEF Goto
<1>a. TypeOK /\ MutualExclusion /\ MutualExclusion'
  BY DEF IInv
<1>1. CASE UNCHANGED vars
  BY <1>1, Zenon DEF vars, Abstract!absVars, Holder
<1>2. ASSUME NEW t \in Tasks, Step(t)
      PROVE  \/ Abstract!Acquire(t) \/ Abstract!Enqueue(t) \/ Abstract!Release(t)
             \/ Abstract!Signal(t) \/ Abstract!Resume(t)
             \/ Abstract!GiveUp(t) \/ Abstract!Fail(t)
             \/ UNCHANGED Abstract!absVars
  <2> DEFINE Quiet == /\ UNCHANGED <<queue, woken, freed>>
                      /\ \A u \in Tasks : pc'[u] = "guard" <=> pc[u] = "guard"
                      /\ Releasing' = Releasing
  <2>q. ASSUME Quiet PROVE UNCHANGED Abstract!absVars
    BY <2>q, HolderUnchanged, Zenon DEF Abstract!absVars, Releasing
  <2>1. CASE Lock(t)
    <3>1. Quiet
      BY <2>1, <1>a DEF Lock, links, TypeOK, Releasing
    <3> QED
      BY <3>1, <2>q
  <2>2. CASE TryLock(t)
    <3>1. CASE state = Unlocked
      BY <2>2, <3>1, <1>a, AcquireStep, Zenon DEF TryLock, FreeNode, links
    <3>2. CASE state # Unlocked
      <4>1. Quiet
        BY <2>2, <3>2, <1>a DEF TryLock, links, TypeOK, Releasing
      <4> QED
        BY <4>1, <2>q
    <3> QED
      BY <3>1, <3>2
  <2>3. CASE SpinAcquire(t)
    <3>1. pc[t] = "idle" /\ freed' = freed
      BY <2>3, Zenon DEF SpinAcquire
    <3>2. Listed(t) => t \in freed
      BY <3>1 DEF IInv, LinkedIsKnown
    <3>3. freed' = IF Listed(t) THEN freed \union {t} ELSE freed
      BY <3>1, <3>2
    <3> QED BY <2>3, <1>a, <3>3, AcquireStep, Zenon DEF SpinAcquire, links
  <2>4. CASE LockWakersList(t)
    <3>1. Quiet
      BY <2>4, <1>a DEF LockWakersList, links, TypeOK, Releasing
    <3> QED
      BY <3>1, <2>q
  <2>5. CASE InsertNode(t)
    <3>0. Holder' = Holder /\ Releasing' = Releasing
      BY <2>5, <1>a, HolderUnchanged DEF InsertNode, TypeOK, Releasing
    <3>1. CASE t \in node
      BY <2>5, <3>0, <3>1, Zenon DEF InsertNode, links, Abstract!absVars, Releasing
    <3>2. CASE t \notin node
      <4>1. /\ queue' = Append(queue, t) /\ woken' = woken /\ freed' = freed /\ pc[t] = "insert"
            /\ t \notin freed
        BY <2>5, <3>2, InsertEffect, Zenon
      <4>2. ~Listed(t)
        BY <3>2, <4>1, Zenon DEF IInv, LinkedIsKnown
      <4>3. Holder # t
        BY <4>1, NullIsNoTask, Zenon DEF Holder
      <4> QED
        BY <3>0, <4>1, <4>2, <4>3, ListedIsQueued, Zenon
           DEF Abstract!Enqueue, Releasing
    <3> QED
      BY <3>1, <3>2, Zenon
  <2>6. CASE UnlockWakersList(t)
    <3>1. Quiet
      BY <2>6, <1>a, Zenon DEF UnlockWakersList, links, TypeOK, Releasing
    <3> QED
      BY <3>1, <2>q
  <2>7. CASE Repoll(t)
    <3>1. Holder' = Holder /\ Releasing' = Releasing
      BY <2>7, <1>a, HolderUnchanged, Zenon DEF Repoll, TypeOK, Releasing
    <3> QED
      BY <2>7, <3>1 DEF Repoll, links, Abstract!Resume, Releasing
  <2>8. CASE DropGuard(t)
    <3>1. Holder = t
      BY <2>8, <1>a, HolderIsGuard, Zenon DEF DropGuard
    <3>2. Holder' = Null
      BY <2>8, <1>a DEF DropGuard, Holder, MutualExclusion, TypeOK
    <3>3. Releasing' = Releasing \union {t}
      BY <2>8, <1>a DEF DropGuard, Releasing, TypeOK
    <3> QED
      BY <2>8, <3>1, <3>2, <3>3 DEF DropGuard, links, Abstract!Release, Releasing
  <2>9. CASE PopTail(t)
    <3>0. Holder' = Holder
      BY <2>9, <1>a, HolderUnchanged, Zenon DEF PopTail, TypeOK
    <3>1. t \in Releasing /\ Releasing' = Releasing \ {t}
      BY <2>9, <1>a, Zenon DEF PopTail, Releasing, TypeOK
    <3>2. CASE queue = <<>>
      <4>1. wakers_list_tail = Null
        BY <3>2, Zenon DEF IInv, ListIsRing
      <4> QED
        BY <2>9, <3>0, <3>1, <3>2, <4>1, Zenon DEF PopTail, links, Abstract!Signal, Releasing
    <3>3. CASE queue # <<>>
      <4>1. /\ wakers_list_tail = Head(queue) /\ Head(queue) \in Tasks
            /\ wakers_list_head \in Tasks
        BY <3>3, <1>a DEF IInv, ListIsRing, TypeOK
      <4>2. woken' = woken \union {Head(queue)} /\ queue' = Tail(queue) /\ freed' = freed
        BY <2>9, <4>1, NullIsNoTask DEF PopTail
      <4>3. Head(queue) \notin freed
        BY <2>9, <4>1, NullIsNoTask DEF PopTail, Touched
      <4> QED
        BY <3>0, <3>1, <3>3, <4>2, <4>3, Zenon DEF Abstract!Signal, Releasing
    <3> QED
      BY <3>2, <3>3, Zenon
  <2>10. CASE StrayPoll(t) \/ UseFreed(t)
    <3>1. CASE StrayPoll(t) \/ (UseFreed(t) /\ pc[t] = "insert")
      <4>1. Quiet
        BY <3>1, <1>a DEF StrayPoll, UseFreed, links, TypeOK, Releasing
      <4> QED BY <4>1, <2>q
    <3>2. CASE UseFreed(t) /\ pc[t] = "pop"
      <4>1. Holder' = Holder
        BY <3>2, <1>a, HolderUnchanged, Zenon DEF UseFreed, TypeOK
      <4>2. t \in Releasing /\ Releasing' = Releasing \ {t}
        BY <3>2, <1>a, Zenon DEF UseFreed, Releasing, TypeOK
      <4>3. freed # {} /\ UNCHANGED <<queue, woken, freed>>
        BY <3>2 DEF UseFreed, links
      <4> QED BY <4>1, <4>2, <4>3, Zenon DEF Abstract!Fail, Releasing
    <3> QED BY <2>10, <3>1, <3>2, Zenon DEF UseFreed
  <2>11. CASE DropFuture(t)
    <3>1. Holder' = Holder /\ Releasing' = Releasing
      BY <2>11, <1>a, HolderUnchanged, Zenon DEF DropFuture, TypeOK, Releasing
    <3>2. Holder # t
      BY <2>11, NullIsNoTask, Zenon DEF DropFuture, Holder
    <3>3. Abstract!Leaves(t)
      BY <2>11, ListedIsQueued, Zenon DEF DropFuture, FreeNode, Abstract!Leaves
    <3> QED
      BY <2>11, <3>1, <3>2, <3>3, Zenon DEF DropFuture, links, Abstract!GiveUp, Releasing
  <2> QED
    BY <1>2, <2>1, <2>2, <2>3, <2>4, <2>5, <2>6, <2>7, <2>8, <2>9, <2>10, <2>11, Zenon DEF Step
<1> QED
  BY <1>1, <1>2 DEF Next, Abstract!AbsNext

(* The mutex implements FifoMutex for any set of tasks and of strays: one  *)
(* owner, and one waiter woken per dropped guard, in the order in which    *)
(* they queued up, until a stray leaves its place in the queue.            *)
THEOREM Refinement == Spec => ImplementsFifoMutex
<1>1. Init => Abstract!AbsInit
  BY DEF Init, Abstract!AbsInit, Holder
<1> QED
  BY <1>1, Invariance, RefinementStep, PTL DEF Spec, ImplementsFifoMutex, Abstract!AbsSpec
=============================================================================
