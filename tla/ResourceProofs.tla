--------------------------- MODULE ResourceProofs ---------------------------
(***************************************************************************)
(* Proofs about what the kernel finds and hands out: drives and frames.    *)
(*                                                                         *)
(* Storage, for any number of controllers and drives, whatever the tables  *)
(* hold and whichever reads fail: SInv adds to NamesAreSound,              *)
(* SoundDrivesAreNamed and RootIsTheOneNamed what the reader of a table    *)
(* knows in the middle of it.                                              *)
(*                                                                         *)
(* FrameAllocator, for every memory map and any number of threads:         *)
(* AllocInv says that a frame has at most one holder and that the bitmap   *)
(* marks exactly what is held, sent or being freed.                        *)
(***************************************************************************)
EXTENDS Storage, FrameAllocator, WellFoundedInduction, TLAPS

-----------------------------------------------------------------------------
(* The drives and their names.                                             *)

Reading == spc \in {"look", "header", "array", "read"}

(* The control: which device is read, and that the map is published before *)
(* the mount.                                                              *)
Control ==
    /\ Reading => cur \in 1 .. Len(devices)
    /\ spc \in {"identify", "next"} => ~published
    /\ spc \in {"mount", "mounted", "panic"} => published
    /\ spc = "identify" => cur = 0 /\ DOMAIN by_guid = {}
    /\ published /\ (Reading \/ spc = "mounted") => RootGuid \in DOMAIN by_guid /\ cur = by_guid[RootGuid]

(* What has been read is a sound copy of the device.                     *)
GotIsSound ==
    Reading => \A c \in Copies : got[c] # Err => got[c] = devices[cur][c] /\ Sound(c, got[c])

Result(d, c) == IF Sound(c, d[c]) THEN d[c] ELSE Err

(* And without a failed read it is what the device has.                  *)
GotIsComplete ==
    /\ spc = "look" => \A c \in Copies : got[c] = Err
    /\ spc = "array" => HeaderVerified(Table)
    /\ Reading /\ cur \notin failed =>
         /\ spc = "look" /\ copy = 2 => ~devices[cur][1].sig
         /\ spc \in {"header", "array"} => devices[cur][1].sig \/ devices[cur][2].sig
         /\ spc \in {"header", "array"} /\ copy = 2 => got[1] = Result(devices[cur], 1)
         /\ spc = "read" => read_gpt = TableOf(devices[cur])

Named(i) ==
    LET t == TableOf(devices[i])
    IN  t # Err => t.guid \in DOMAIN by_guid /\ by_guid[t.guid] >= i

(* The devices already dealt with.                                       *)
Done(i) == published \/ i < cur \/ (i = cur /\ spc = "next")

NamedSoFar == \A i \in DOMAIN devices \ failed : Done(i) => Named(i)

NamesAreTables ==
    \A g \in DOMAIN by_guid : by_guid[g] \notin failed =>
        TableOf(devices[by_guid[g]]) # Err /\ TableOf(devices[by_guid[g]]).guid = g

SInv ==
    /\ StorageTypeOK /\ Control /\ GotIsSound /\ GotIsComplete
    /\ NamesAreSound /\ NamedSoFar /\ NamesAreTables /\ RootIsTheOneNamed

-----------------------------------------------------------------------------
(* Every step keeps the types: what an answer of the drive may be.       *)
LEMMA StorageTypes == ASSUME StorageTypeOK, Control, [StorageNext]_storageVars PROVE StorageTypeOK'
<1> USE StorageAssumption DEF StorageTypeOK
<1>1. CASE Identify
  <2>1. Head(controllers) \in Seq(Drives) /\ Tail(controllers) \in Seq(Seq(Drives))
    BY <1>1 DEF Identify
  <2>2. devices' \in Seq(Drives) /\ Len(devices') = Len(devices) + Len(Head(controllers))
    BY <1>1, <2>1 DEF Identify
  <2>3. cur = 0 /\ DOMAIN by_guid = {}
    BY <1>1 DEF Identify, Control
  <2> QED BY <1>1, <2>1, <2>2, <2>3 DEF Identify
<1>2. CASE Identified BY <1>2 DEF Identified
<1>3. CASE RunDevice BY <1>3 DEF RunDevice, StartReading, Copies
<1>4. CASE LookForSignature BY <1>4 DEF LookForSignature, Read, Copies, Control, Reading
<1>5. CASE ReadHeader BY <1>5 DEF ReadHeader, Read, Answer, Copies, Control, Reading
<1>6. CASE ReadArray
  <2>1. Table \in Tables
    BY <1>6 DEF ReadArray, Control, Reading, Table, Drives, Copies
  <2> QED BY <1>6, <2>1 DEF ReadArray, Read, Answer, Copies, Control, Reading
<1>7. CASE Register
  <2>1. read_gpt \in Tables \union {Err}
    BY DEF read_gpt, Preferred, Copies
  <2>2. read_gpt # Err => read_gpt.guid \in Guids
    BY <2>1 DEF Tables
  <2> QED BY <1>7, <2>2 DEF Register, Control, Reading
<1>8. CASE PublishNames BY <1>8 DEF PublishNames
<1>9. CASE FindRoot BY <1>9 DEF FindRoot, StartReading, Copies
<1>10. CASE MountRoot BY <1>10 DEF MountRoot, read_gpt, Preferred, Copies
<1>11. CASE UNCHANGED storageVars BY <1>11 DEF storageVars
<1> QED BY <1>1, <1>2, <1>3, <1>4, <1>5, <1>6, <1>7, <1>8, <1>9, <1>10, <1>11, Zenon DEF StorageNext

(* The map is set before anything is mounted, and the drive that is read   *)
(* for the mount is the one the map gives.                                 *)
LEMMA StorageControl == ASSUME StorageTypeOK, Control, [StorageNext]_storageVars PROVE Control'
<1> USE DEF StorageTypeOK, Control, Reading
<1>1. CASE Identify BY <1>1 DEF Identify
<1>2. CASE Identified BY <1>2 DEF Identified
<1>3. CASE RunDevice BY <1>3 DEF RunDevice, StartReading
<1>4. CASE LookForSignature BY <1>4 DEF LookForSignature, Read
<1>5. CASE ReadHeader BY <1>5 DEF ReadHeader, Read, Answer
<1>6. CASE ReadArray BY <1>6 DEF ReadArray, Read, Answer
<1>7. CASE Register BY <1>7 DEF Register
<1>8. CASE PublishNames BY <1>8 DEF PublishNames
<1>9. CASE FindRoot BY <1>9 DEF FindRoot, StartReading
<1>10. CASE MountRoot BY <1>10 DEF MountRoot
<1>11. CASE UNCHANGED storageVars BY <1>11 DEF storageVars
<1> QED BY <1>1, <1>2, <1>3, <1>4, <1>5, <1>6, <1>7, <1>8, <1>9, <1>10, <1>11, Zenon DEF StorageNext

(* What the reader of a table holds is sound, and is all there is when no  *)
(* read failed.                                                            *)
LEMMA StorageGot == ASSUME SInv, [StorageNext]_storageVars PROVE GotIsSound' /\ GotIsComplete'
<1> DEFINE d == devices[cur]
<1> USE StorageAssumption DEF SInv, Control, Reading
<1>0. StorageTypeOK /\ Reading => d[1] \in Tables /\ d[2] \in Tables
  BY DEF StorageTypeOK, Drives, Copies
<1>1. CASE Identify BY <1>1, Zenon DEF Identify, GotIsSound, GotIsComplete
<1>2. CASE Identified BY <1>2, Zenon DEF Identified, GotIsSound, GotIsComplete
<1>3. CASE RunDevice
  BY <1>3 DEF RunDevice, StartReading, GotIsSound, GotIsComplete, Copies
<1>4. CASE LookForSignature
  <2>1. GotIsSound'
    BY <1>4 DEF LookForSignature, Read, GotIsSound
  <2>2. PICK ok \in BOOLEAN : LookForSignature!(ok)
    BY <1>4 DEF LookForSignature
  <2>3. read_gpt' = Err
    BY <2>2 DEF read_gpt, Preferred, GotIsComplete, Copies
  <2>4. CASE ok /\ Table.sig
    BY <2>1, <2>2, <2>4 DEF Read, GotIsComplete, Table, StorageTypeOK, Copies
  <2>5. CASE ~(ok /\ Table.sig) /\ copy = 1
    BY <2>1, <2>2, <2>5, Zenon DEF Read, GotIsComplete, Table, Copies
  <2>6. CASE ~(ok /\ Table.sig) /\ copy = 2
    BY <2>1, <2>2, <2>3, <2>6, Zenon DEF Read, GotIsComplete, Table, Copies, TableOf
  <2> QED BY <2>1, <2>4, <2>5, <2>6 DEF StorageTypeOK, Copies
<1>5. CASE ReadHeader
  <2>1. PICK ok \in BOOLEAN : ReadHeader!(ok)
    BY <1>5 DEF ReadHeader
  <2>2. CASE ok /\ HeaderVerified(Table)
    BY <2>1, <2>2, Zenon DEF Read, Answer, GotIsSound, GotIsComplete, Table
  <2>3. CASE ~(ok /\ HeaderVerified(Table))
    <3>1. Answer(Err) BY <2>1, <2>3
    <3>2. GotIsSound'
      BY <2>1, <3>1, Zenon DEF Read, Answer, GotIsSound, StorageTypeOK
    <3>3. cur \notin failed' => ~HeaderVerified(Table) /\ cur \notin failed
      BY <2>1, <2>3 DEF Read
    <3>4. CASE copy = 1
      BY <3>2, <2>1, <3>1, <3>3, <3>4, Zenon
         DEF Read, Answer, GotIsComplete, Table, Result, Sound, HeaderVerified, StorageTypeOK, Copies
    <3>5. CASE copy = 2
      <4>1. spc' = "read" /\ copy' = 2 /\ cur' = cur /\ devices' = devices
        BY <2>1, <3>1, <3>5 DEF Read, Answer
      <4>2. got'[1] = got[1] /\ got'[2] = Err
        BY <3>1, <3>5 DEF Answer, StorageTypeOK, Copies
      <4>3. ASSUME cur \notin failed' PROVE read_gpt' = TableOf(d)
        <5>1. got[1] = Result(d, 1) /\ (d[1].sig \/ d[2].sig)
          BY <2>1, <3>3, <3>5, <4>3 DEF GotIsComplete
        <5>2. Result(d, 2) = Err
          BY <3>3, <3>5, <4>3 DEF Result, Sound, HeaderVerified, Table
        <5> QED BY <4>2, <5>1, <5>2 DEF read_gpt, Preferred, TableOf, Result
      <4> QED BY <3>2, <4>1, <4>3, Zenon DEF GotIsComplete
    <3> QED BY <3>2, <3>4, <3>5 DEF StorageTypeOK, Copies
  <2> QED BY <2>2, <2>3
<1>6. CASE ReadArray
  <2>1. PICK ok \in BOOLEAN : ReadArray!(ok)
    BY <1>6 DEF ReadArray
  <2> DEFINE r == IF ok /\ ArrayVerified(copy, Table) THEN Table ELSE Err
  <2>2. HeaderVerified(Table)
    BY <2>1 DEF GotIsComplete
  <2>3. r # Err => r = d[copy] /\ Sound(copy, r)
    BY <2>1, <2>2 DEF Table, Sound, HeaderVerified
  <2>4. got' = [got EXCEPT ![copy] = r]
    BY <2>1 DEF Answer
  <2>5. GotIsSound'
    BY <2>1, <2>3, <2>4, Zenon DEF Read, Answer, GotIsSound, StorageTypeOK
  <2>6. cur \notin failed' => r = Result(d, copy) /\ cur \notin failed
    BY <2>1, <2>2 DEF Read, Result, Sound, HeaderVerified, Table
  <2> HIDE DEF r
  <2>7. CASE copy = 1
    BY <2>5, <2>1, <2>4, <2>6, <2>7, Zenon DEF Read, Answer, GotIsComplete, Table, StorageTypeOK, Copies
  <2>8. CASE copy = 2
    <3>1. spc' = "read" /\ copy' = 2 /\ cur' = cur /\ devices' = devices
      BY <2>1, <2>8 DEF Read, Answer
    <3>2. got'[1] = got[1] /\ got'[2] = r
      BY <2>4, <2>8 DEF StorageTypeOK, Copies
    <3>3. ASSUME cur \notin failed' PROVE read_gpt' = TableOf(d)
      <4>1. got[1] = Result(d, 1) /\ (d[1].sig \/ d[2].sig) /\ r = Result(d, 2)
        BY <2>1, <2>6, <2>8, <3>3, Zenon DEF GotIsComplete
      <4>2. Err \notin {d[1], d[2]}
        BY <1>0, <2>1, Zenon
      <4> QED BY <3>2, <4>1, <4>2 DEF read_gpt, Preferred, TableOf, Result
    <3> QED BY <2>5, <3>1, <3>3, Zenon DEF GotIsComplete
  <2> QED BY <2>5, <2>7, <2>8 DEF StorageTypeOK, Copies
<1>7. CASE Register BY <1>7 DEF Register, GotIsSound, GotIsComplete
<1>8. CASE PublishNames BY <1>8, Zenon DEF PublishNames, GotIsSound, GotIsComplete
<1>9. CASE FindRoot
  BY <1>9 DEF FindRoot, StartReading, GotIsSound, GotIsComplete, Copies
<1>10. CASE MountRoot BY <1>10, Zenon DEF MountRoot, GotIsSound, GotIsComplete
<1>11. CASE UNCHANGED storageVars
  BY <1>11, Zenon DEF storageVars, GotIsSound, GotIsComplete, Table, read_gpt
<1> QED BY <1>1, <1>2, <1>3, <1>4, <1>5, <1>6, <1>7, <1>8, <1>9, <1>10, <1>11 DEF StorageNext

(* Registration puts a name to the drive that was read and leaves the rest. *)
LEMMA StorageRegister ==
    ASSUME SInv, Register PROVE NamesAreSound' /\ NamedSoFar' /\ NamesAreTables'
<1> USE DEF SInv, Control, Reading
<1>1. cur \in 1 .. Len(devices) /\ cur \in DOMAIN devices /\ cur \in Nat
  BY DEF Register, StorageTypeOK
<1>2. /\ devices' = devices /\ cur' = cur /\ failed' = failed /\ published' = published
      /\ ~published /\ spc = "read" /\ spc' = "next"
  BY DEF Register
<1>3. read_gpt # Err => \E c \in Copies : read_gpt = devices[cur][c] /\ Sound(c, read_gpt)
  BY <1>2 DEF read_gpt, Preferred, GotIsSound, Copies
<1>4. cur \notin failed => read_gpt = TableOf(devices[cur])
  BY <1>2 DEF GotIsComplete
<1>5. CASE read_gpt = Err
  <2>1. by_guid' = by_guid
    BY <1>5 DEF Register
  <2>2. cur \notin failed => Named(cur)
    BY <1>4, <1>5 DEF Named
  <2>3. ASSUME NEW i \in DOMAIN devices \ failed, Done(i)' PROVE Named(i)
    BY <1>2, <2>2, <2>3 DEF NamedSoFar, Done, Named
  <2>4. \A i : Named(i) => Named(i)'
    BY <1>2, <2>1 DEF Named
  <2> QED BY <1>2, <2>1, <2>3, <2>4, Zenon DEF NamesAreSound, NamesAreTables, NamedSoFar
<1>6. CASE read_gpt # Err
  <2> DEFINE g0 == read_gpt.guid
  <2>1. /\ DOMAIN by_guid' = DOMAIN by_guid \union {g0}
        /\ by_guid'[g0] = cur
        /\ \A g \in DOMAIN by_guid \ {g0} : by_guid'[g] = by_guid[g]
    BY <1>6 DEF Register
  <2> HIDE DEF g0
  <2>2. NamesAreSound'
    <3>1. \E c \in Copies : devices[cur][c].guid = g0 /\ Sound(c, devices[cur][c])
      BY <1>3, <1>6 DEF g0
    <3> QED BY <1>2, <2>1, <3>1 DEF NamesAreSound
  <2>3. NamesAreTables'
    <3>1. cur \notin failed => TableOf(devices[cur]) # Err /\ TableOf(devices[cur]).guid = g0
      BY <1>4, <1>6 DEF g0
    <3> QED BY <1>2, <2>1, <3>1, Zenon DEF NamesAreTables
  <2>4. ASSUME NEW i \in DOMAIN devices \ failed, Done(i)' PROVE Named(i)'
    <3>1. i \in Nat /\ (i < cur \/ i = cur)
      BY <1>1, <1>2, <2>4 DEF Done, StorageTypeOK
    <3>2. CASE i = cur
      BY <1>1, <1>2, <1>4, <1>6, <2>1, <3>1, <3>2 DEF Named, g0
    <3>3. CASE i # cur
      <4>1. Named(i)
        BY <3>1, <3>3 DEF NamedSoFar, Done, Named
      <4> DEFINE t == TableOf(devices[i])
      <4>2. t # Err => t.guid \in DOMAIN by_guid' /\ by_guid'[t.guid] >= i
        BY <1>1, <2>1, <3>1, <4>1 DEF Named
      <4> QED BY <1>2, <4>2 DEF Named
    <3> QED BY <3>2, <3>3
  <2> QED BY <1>2, <2>2, <2>3, <2>4 DEF NamedSoFar
<1> QED BY <1>5, <1>6

(* The names stay sound and complete whatever else happens.              *)
LEMMA StorageNames ==
    ASSUME SInv, [StorageNext]_storageVars PROVE NamesAreSound' /\ NamedSoFar' /\ NamesAreTables'
<1> USE DEF SInv, Control, Reading
<1>1. CASE Identify
  <2>1. DOMAIN by_guid' = {} /\ cur' = 0 /\ spc' = "identify" /\ ~published'
    BY <1>1, Zenon DEF Identify
  <2>2. devices' \in Seq(Drives)
    BY StorageTypes DEF StorageTypeOK
  <2>3. \A i \in DOMAIN devices' : ~Done(i)'
    BY <2>1, <2>2 DEF Done
  <2> QED BY <2>1, <2>3, Zenon DEF NamesAreSound, NamesAreTables, NamedSoFar
<1>2. CASE Identified
  <2>1. DOMAIN by_guid' = {} /\ \A i \in DOMAIN devices' : ~Done(i)'
    BY <1>2 DEF Identified, Done, StorageTypeOK
  <2> QED BY <2>1, Zenon DEF NamesAreSound, NamesAreTables, NamedSoFar
<1>3. CASE RunDevice
  <2>0. /\ ~published /\ ~published' /\ devices' = devices
        /\ spc = "next" /\ spc' = "look" /\ cur' = cur + 1 /\ cur \in Nat
    BY <1>3 DEF RunDevice, StartReading, StorageTypeOK
  <2>9. \A i \in DOMAIN devices : i < cur + 1 <=> i < cur \/ i = cur
    BY <2>0 DEF StorageTypeOK
  <2>1. \A i \in DOMAIN devices : Done(i)' => Done(i)
    BY <2>0, <2>9 DEF Done
  <2> QED BY <1>3, <2>1, Zenon DEF RunDevice, NamesAreSound, NamesAreTables, NamedSoFar, Named
<1>4. CASE LookForSignature \/ ReadHeader \/ ReadArray
  <2>1. /\ UNCHANGED <<devices, cur, by_guid, published>> /\ failed \subseteq failed'
        /\ spc # "next" /\ spc' # "next"
    BY <1>4 DEF LookForSignature, ReadHeader, ReadArray, Read, Answer
  <2>2. \A i : Done(i)' => Done(i)
    BY <2>1 DEF Done
  <2> QED BY <2>1, <2>2, Zenon DEF NamesAreSound, NamesAreTables, NamedSoFar, Named
<1>5. CASE Register BY <1>5, StorageRegister
<1>6. CASE PublishNames
  <2>1. \A i \in DOMAIN devices : Done(i)
    BY <1>6 DEF PublishNames, Done, StorageTypeOK
  <2> QED BY <1>6, <2>1, Zenon DEF PublishNames, NamesAreSound, NamesAreTables, NamedSoFar, Named
<1>7. CASE FindRoot \/ MountRoot
  <2>1. UNCHANGED <<devices, by_guid, published, failed>> /\ published
    BY <1>7 DEF FindRoot, MountRoot
  <2> QED BY <2>1, Zenon DEF NamesAreSound, NamesAreTables, NamedSoFar, Named, Done
<1>8. CASE UNCHANGED storageVars
  BY <1>8, Zenon DEF storageVars, NamesAreSound, NamesAreTables, NamedSoFar, Named, Done
<1> QED BY <1>1, <1>2, <1>3, <1>4, <1>5, <1>6, <1>7, <1>8 DEF StorageNext

(* The mount takes the table of the drive the name leads to.             *)
LEMMA StorageRoot == ASSUME SInv, [StorageNext]_storageVars PROVE RootIsTheOneNamed'
<1> USE DEF SInv, Control, Reading
<1>1. CASE MountRoot /\ spc' = "mounted"
  <2>1. root' = read_gpt /\ read_gpt # Err /\ RootEntry \in read_gpt.entries
    BY <1>1 DEF MountRoot
  <2>2. \E c \in Copies : read_gpt = devices[cur][c] /\ Sound(c, read_gpt)
    BY <1>1, <2>1 DEF MountRoot, read_gpt, Preferred, GotIsSound, Copies
  <2>3. cur \notin failed => read_gpt.guid = RootGuid
    BY <1>1, Zenon DEF MountRoot, GotIsComplete, NamesAreTables
  <2> QED BY <1>1, <2>1, <2>2, <2>3, Zenon DEF MountRoot, RootIsTheOneNamed
<1>2. CASE UNCHANGED storageVars BY <1>2, Zenon DEF storageVars, RootIsTheOneNamed
<1>3. CASE StorageNext /\ spc' # "mounted" BY <1>3, Zenon DEF RootIsTheOneNamed
<1>4. StorageNext /\ spc' = "mounted" => MountRoot
  BY Zenon DEF StorageNext, Identify, Identified, RunDevice, StartReading, LookForSignature, ReadHeader,
         ReadArray, Answer, Register, PublishNames, FindRoot
<1> QED BY <1>1, <1>2, <1>3, <1>4

(* The inductive invariant.                                              *)
LEMMA StorageInvariant == StorageSpec => []SInv
<1>1. StorageInit => SInv
  <2> SUFFICES ASSUME StorageInit PROVE SInv
    OBVIOUS
  <2> USE DEF StorageInit, StorageRest
  <2>1. DOMAIN by_guid = {} /\ devices = <<>> /\ Len(devices) = 0
    OBVIOUS
  <2>2. StorageTypeOK
    <3>1. controllers \in Seq(Seq(Drives)) /\ devices \in Seq(Drives)
      BY StorageAssumption
    <3>2. got \in [Copies -> Tables \union {Err}]
      OBVIOUS
    <3>3. cur \in 0 .. Len(devices) /\ copy \in Copies
      BY <2>1 DEF Copies
    <3>4. DOMAIN by_guid \subseteq Guids /\ \A g \in DOMAIN by_guid : by_guid[g] \in 1 .. Len(devices)
      BY <2>1
    <3>5. published \in BOOLEAN /\ root \in Tables \union {Err} /\ failed \subseteq Nat
      BY Zenon
    <3> QED BY <3>1, <3>2, <3>3, <3>4, <3>5, Zenon DEF StorageTypeOK
  <2>3. Control /\ GotIsSound /\ GotIsComplete /\ RootIsTheOneNamed
    BY <2>1, Zenon DEF Control, Reading, GotIsSound, GotIsComplete, RootIsTheOneNamed
  <2>4. DOMAIN devices = {}
    BY <2>1
  <2> QED BY <2>1, <2>2, <2>3, <2>4, Zenon DEF SInv, NamesAreSound, NamedSoFar, NamesAreTables
<1>2. SInv /\ [StorageNext]_storageVars => SInv'
  BY StorageTypes, StorageControl, StorageGot, StorageNames, StorageRoot DEF SInv
<1> QED BY <1>1, <1>2, PTL DEF StorageSpec

(* A GUID leads to a drive with a sound copy of a table of that GUID, for  *)
(* any drives and any failing reads (read_gpt, run_storage_devices).       *)
THEOREM DriveNamesAreSound == StorageSpec => []NamesAreSound
BY StorageInvariant, PTL DEF SInv

(* Every drive that answers and has a table is found under its GUID, or a  *)
(* later one of the same GUID is, for any number of drives.                *)
THEOREM DrivesAreNamed == StorageSpec => []SoundDrivesAreNamed
<1>1. SInv => SoundDrivesAreNamed
  BY DEF SInv, SoundDrivesAreNamed, NamedSoFar, Named, Done
<1> QED BY <1>1, StorageInvariant, PTL

(* The root is mounted from the table the arguments name, or from the      *)
(* other sound copy of a drive with a failed read (spawn_vfs_task).        *)
THEOREM RootIsNamed == StorageSpec => []RootIsTheOneNamed
BY StorageInvariant, PTL DEF SInv

(* Together: the names of the drives are right and complete.               *)
THEOREM NamesExact == StorageSpec => []NamesAreExact
BY DriveNamesAreSound, DrivesAreNamed, PTL DEF NamesAreExact

-----------------------------------------------------------------------------
(* The physical frames.                                                    *)

(* A non-empty set of natural numbers has a least member.                *)
LEMMA LeastMember ==
    ASSUME NEW T, T \subseteq Nat, T # {}
    PROVE  \E x \in T : \A y \in T : x <= y
<1> DEFINE R == {ss \in Nat \X Nat : ss[1] < ss[2]}
<1>1. IsWellFoundedOn(R, Nat)
  BY NatLessThanWellFounded DEF OpToRel
<1>2. PICK x \in T : \A y \in T : ~ (<<y, x>> \in R)
  <2> HIDE DEF R
  <2> QED BY <1>1, WFMin, Zenon
<1>3. ASSUME NEW y \in T PROVE x <= y
  <2>1. x \in Nat /\ y \in Nat /\ <<y, x>> \notin R
    BY <1>2
  <2>2. ~(y < x)
    BY <2>1
  <2> QED
    BY <2>1, <2>2
<1> QED
  BY <1>3


(* A machine that boots has a bitmap of at least one bit.                *)
LEMMA BitmapNotEmpty ==
    ASSUME NEW m \in MemMaps, Boots(m)
    PROVE  TotalBits(m) \in Nat \ {0}
<1>1. /\ m \in Seq(Entry) /\ Len(m) > 0
      /\ \A i, j \in 1..Len(m) : i < j => m[i].base + m[i].length <= m[j].base
  BY MemMapAssumption
<1>2. Len(m) \in Nat /\ \A i \in 1..Len(m) : m[i] \in Entry
  BY <1>1
<1>3. \A i \in 1..Len(m) : m[i].base \in Nat /\ m[i].length \in Nat
  BY <1>2 DEF Entry
<1>4. ASSUME NEW a \in Nat, NEW b \in Nat \ {0}
      PROVE  DivCeil(a, b) \in Nat /\ (a > 0 => DivCeil(a, b) > 0)
  BY DEF DivCeil
<1>5. ByteSize \in Nat \ {0} /\ PageBytes \in Nat \ {0} /\ KheapPages \in Nat /\ StackPages \in Nat
  BY SizeAssumption
<1>6. FrameCount(m) \in Nat
  BY <1>1, <1>2, <1>3 DEF FrameCount
<1>7. BitmapLength(m) \in Nat /\ (FrameCount(m) > 0 => BitmapLength(m) > 0)
  BY <1>4, <1>5, <1>6 DEF BitmapLength
<1>8. BitmapPages(m) \in Nat
  BY <1>4, <1>5, <1>7 DEF BitmapPages
<1>9. PICK i \in 1..Len(m) : m[i].length > BitmapPages(m) + KheapPages + StackPages
  BY DEF Boots, LargeEnough
<1>10. m[i].length > 0
  BY <1>3, <1>5, <1>8, <1>9
<1>11. FrameCount(m) > 0
  BY <1>1, <1>2, <1>3, <1>10, SMTT(60) DEF FrameCount
<1> QED
  BY <1>5, <1>7, <1>11 DEF TotalBits

(* The search of allocate_frame returns a frame of the bitmap that is free. *)
LEMMA FirstHitIsFree ==
    ASSUME NEW m, TotalBits(m) \in Nat \ {0}, NEW b, NEW n \in Nat,
           Hits(b, n, m) # {}
    PROVE  FirstHit(b, n, m) \in Bits(m) /\ ~b[FirstHit(b, n, m)]
<1> DEFINE H == Hits(b, n, m)
           o == CHOOSE p \in H : \A q \in H : p <= q
<1>1. H \subseteq Nat
  BY DEF Hits
<1>2. \E p \in H : \A q \in H : p <= q
  <2> HIDE DEF H
  <2> QED BY <1>1, LeastMember DEF H
<1>3. o \in H
  <2> HIDE DEF H
  <2> QED BY <1>2
<1>4. o \in Nat /\ Hit(b, Probe(n, o, m))
  BY <1>3 DEF Hits
<1> HIDE DEF o
<1>5. Probe(n, o, m) \in Bits(m)
  BY <1>4 DEF Probe, Bits
<1>6. ~b[Probe(n, o, m)]
  BY <1>4 DEF Hit
<1> QED
  BY <1>5, <1>6 DEF FirstHit, o

(* The search of allocate_continuous_frames returns free frames, and the   *)
(* last of them is a bit of the bitmap.                                    *)
LEMMA FirstRunIsFree ==
    ASSUME NEW m, TotalBits(m) \in Nat \ {0}, NEW b, NEW len \in Nat \ {0},
           RunEnds(b, len, m) # {}
    PROVE  /\ FirstRun(b, len, m) \subseteq Bits(m)
           /\ \A i \in FirstRun(b, len, m) : ~b[i]
           /\ (CHOOSE i \in FirstRun(b, len, m) : \A k \in FirstRun(b, len, m) : k <= i)
                 \in Bits(m)
<1> DEFINE E == RunEnds(b, len, m)
           e == CHOOSE i \in E : \A k \in E : i <= k
           is == (e - len + 1)..e
<1>1. E \subseteq Nat
  BY DEF RunEnds, Bits
<1>2. \E i \in E : \A k \in E : i <= k
  <2> HIDE DEF E
  <2> QED BY <1>1, LeastMember DEF E
<1>3. e \in E
  <2> HIDE DEF E
  <2> QED BY <1>2
<1>4. e \in Bits(m) /\ e + 1 >= len /\ \A j \in (e - len + 1)..e : Hit(b, j)
  BY <1>3 DEF RunEnds
<1> HIDE DEF e
<1>5. is \subseteq Bits(m) /\ e \in is
  BY <1>4 DEF Bits
<1>6. \A i \in is : ~b[i]
  BY <1>4 DEF Hit
<1>7. \A k \in is : k <= e
  BY <1>4 DEF Bits
<1>8. (CHOOSE i \in is : \A k \in is : k <= i) \in is
  <2> HIDE DEF is
  <2> QED BY <1>5, <1>7
<1> QED
  BY <1>5, <1>6, <1>8 DEF FirstRun, e

(* What init marks is what the bitmap and the heap occupy.               *)
LEMMA MarkedIsKernel ==
    ASSUME NEW m \in MemMaps, Boots(m)
    PROVE  MarkedPages(m) = KernelPages(m)
<1>1. /\ m \in Seq(Entry) /\ Len(m) > 0
      /\ Len(m) \in Nat /\ \A i \in 1..Len(m) : m[i] \in Entry
  BY MemMapAssumption
<1>2. \A i \in 1..Len(m) : m[i].base \in Nat /\ m[i].length \in Nat
  BY <1>1 DEF Entry
<1> DEFINE I == {i \in 1..Len(m) : LargeEnough(m, i)}
<1>3. I # {} /\ I \subseteq Nat
  BY <1>1 DEF Boots
<1>4. \E i \in I : \A j \in I : i <= j
  <2> HIDE DEF I
  <2> QED BY <1>3, LeastMember, Zenon
<1>5. \E i \in 1..Len(m) : LargeEnough(m, i) /\ \A j \in 1..(i - 1) : ~LargeEnough(m, j)
  <2>1. PICK i \in I : \A j \in I : i <= j
    BY <1>4
  <2>2. ASSUME NEW j \in 1..(i - 1) PROVE ~LargeEnough(m, j)
    <3>1. j \in 1..Len(m) /\ ~(i <= j)
      BY <1>1, <2>1
    <3> QED BY <2>1, <3>1
  <2> QED BY <2>1, <2>2
<1>6. BootEntry(m) \in 1..Len(m)
  BY <1>5 DEF BootEntry
<1>7. m[BootEntry(m)].base \in Nat
  BY <1>2, <1>6
<1>8. ASSUME NEW a \in Nat, NEW d \in Nat \ {0} PROVE DivCeil(a, d) \in Nat
  BY DEF DivCeil
<1>9. FrameCount(m) \in Nat
  BY <1>1, <1>2 DEF FrameCount
<1>10. BitmapLength(m) \in Nat
  BY <1>8, <1>9, SizeAssumption DEF BitmapLength
<1>11. BitmapPages(m) \in Nat /\ KheapPages \in Nat
  BY <1>8, <1>10, SizeAssumption DEF BitmapPages
<1>12. ASSUME NEW b \in Nat, NEW p \in Nat
       PROVE  {b + i : i \in 0..(p - 1)} = b..(b + p - 1)
  <2>1. ASSUME NEW x \in b..(b + p - 1) PROVE x \in {b + i : i \in 0..(p - 1)}
    <3>1. x - b \in 0..(p - 1) /\ x = b + (x - b)
      OBVIOUS
    <3> QED BY <3>1
  <2> QED BY <2>1
<1> QED
  <2>1. BitmapPages(m) + KheapPages \in Nat
    BY <1>11
  <2>2. MarkedPages(m) = m[BootEntry(m)].base..(m[BootEntry(m)].base + (BitmapPages(m) + KheapPages) - 1)
    BY <1>7, <1>12, <2>1, Zenon DEF MarkedPages
  <2>3. ASSUME NEW b \in Nat, NEW p \in Nat, NEW k \in Nat
        PROVE  b + (p + k) - 1 = b + p + k - 1
    OBVIOUS
  <2>4. m[BootEntry(m)].base + (BitmapPages(m) + KheapPages) - 1
            = m[BootEntry(m)].base + BitmapPages(m) + KheapPages - 1
    BY <1>7, <1>11, <2>3
  <2> QED BY <2>2, <2>4 DEF KernelPages

(* The strengthening: every frame with a holder is marked and was free     *)
(* after boot, and a bit that boot left set stays set.                     *)
HoldersAreMarked ==
    \A i \in Held \cup Sent \cup freeing : bitmap[i] /\ ~Fill(memmap)[i]

BootBitsStay == \A i \in Bits(memmap) : Fill(memmap)[i] => bitmap[i]

AllocInv ==
    FrameTypeOK /\ OneHolder /\ HoldersAreMarked /\ BootBitsStay /\ BitmapIsExact

(* Holders hold bits of the bitmap.                                      *)
LEMMA HoldersAreBits == FrameTypeOK => Held \cup Sent \cup freeing \subseteq Bits(memmap)
<1> SUFFICES ASSUME FrameTypeOK PROVE Held \cup Sent \cup freeing \subseteq Bits(memmap)
  OBVIOUS
<1>1. Held \subseteq Bits(memmap)
  BY DEF FrameTypeOK, Held
<1>2. Sent \subseteq Bits(memmap)
  BY DEF FrameTypeOK, Sent
<1> QED
  BY <1>1, <1>2 DEF FrameTypeOK

(* After boot nobody holds a frame and the bitmap is what fill left.     *)
LEMMA AllocInitInv == FrameInit => AllocInv
<1> SUFFICES ASSUME FrameInit PROVE AllocInv
  OBVIOUS
<1> USE DEF FrameInit
<1>1. memmap \in MemMaps /\ Boots(memmap)
  OBVIOUS
<1>2. TotalBits(memmap) \in Nat \ {0}
  BY <1>1, BitmapNotEmpty
<1>3. Fill(memmap) \in [Bits(memmap) -> BOOLEAN]
  BY DEF Fill
<1>4. 0 \in Bits(memmap)
  BY <1>2 DEF Bits
<1>5. FrameTypeOK
  BY <1>3, <1>4 DEF FrameTypeOK
<1>6. Held = {} /\ Sent = {} /\ freeing = {}
  BY DEF Held, Sent
<1>7. OneHolder
  BY <1>6 DEF OneHolder
<1>8. HoldersAreMarked /\ BootBitsStay /\ BitmapIsExact
  <2> HIDE DEF FrameInit
  <2>1. bitmap = Fill(memmap)
    BY DEF FrameInit
  <2> QED BY <1>6, <2>1 DEF HoldersAreMarked, BootBitsStay, BitmapIsExact
<1> QED
  BY <1>5, <1>7, <1>8 DEF AllocInv

(* Taking free frames, whichever search found them, keeps the invariant. *)
LEMMA TakeInv ==
    ASSUME AllocInv, ~panicked,
           NEW o \in Owners, NEW is \in SUBSET Bits(memmap),
           \A i \in is : ~bitmap[i],
           Take(o, is), next_frame' \in Bits(memmap),
           UNCHANGED <<memmap, started, channel, freeing, panicked>>
    PROVE  AllocInv'
<1>1. FrameTypeOK /\ OneHolder /\ HoldersAreMarked /\ BootBitsStay /\ BitmapIsExact
  BY DEF AllocInv
<1>2. /\ bitmap \in [Bits(memmap) -> BOOLEAN]
      /\ frames \in [Owners -> SUBSET Bits(memmap)]
  BY <1>1 DEF FrameTypeOK
<1>3. /\ frames' \in [Owners -> SUBSET Bits(memmap)]
      /\ frames'[o] = frames[o] \cup is
      /\ \A p \in Owners : p # o => frames'[p] = frames[p]
  BY <1>2 DEF Take
<1>4. /\ bitmap' \in [Bits(memmap) -> BOOLEAN]
      /\ \A i \in Bits(memmap) : bitmap'[i] <=> bitmap[i] \/ i \in is
  BY <1>2, Zenon DEF Take
<1>5. Sent' = Sent /\ freeing' = freeing /\ memmap' = memmap
  BY Zenon DEF Sent
<1>6. Held' = Held \cup is
  BY <1>3, Zenon DEF Held
<1>7. is \cap (Held \cup Sent \cup freeing) = {}
  BY <1>1 DEF HoldersAreMarked
<1>8. FrameTypeOK'
  BY <1>1, <1>3, <1>4, Zenon DEF FrameTypeOK
<1>9. OneHolder'
  <2>1. ASSUME NEW p \in Owners, NEW q \in Owners, p # q
        PROVE  frames'[p] \cap frames'[q] = {}
    <3>1. frames[p] \cap frames[q] = {} /\ is \cap frames[p] = {} /\ is \cap frames[q] = {}
      BY <1>1, <1>7, <2>1 DEF OneHolder, Held
    <3> QED BY <1>3, <2>1, <3>1, Zenon
  <2>2. \A j, k \in 1..Len(channel') : j # k => channel'[j] \cap channel'[k] = {}
    BY <1>1, Zenon DEF OneHolder
  <2>3. Held' \cap Sent' = {} /\ freeing' \cap (Held' \cup Sent') = {}
    BY <1>1, <1>5, <1>6, <1>7 DEF OneHolder
  <2> QED BY <2>1, <2>2, <2>3, Zenon DEF OneHolder
<1>10. Held \cup Sent \cup freeing \subseteq Bits(memmap)
  BY <1>1, HoldersAreBits, Zenon
<1>11. HoldersAreMarked'
  <2>1. \A i \in is : i \in Bits(memmap) /\ ~Fill(memmap)[i]
    BY <1>1, Zenon DEF BootBitsStay
  <2> QED BY <1>1, <1>4, <1>5, <1>6, <1>10, <2>1, Zenon DEF HoldersAreMarked
<1>12. BootBitsStay'
  BY <1>1, <1>4, <1>5, Zenon DEF BootBitsStay
<1>13. BitmapIsExact'
  BY <1>1, <1>4, <1>5, <1>6 DEF BitmapIsExact
<1> QED
  BY <1>8, <1>9, <1>11, <1>12, <1>13 DEF AllocInv

(* A step that only starts the deallocator or panics keeps the invariant. *)
LEMMA StillInv ==
    ASSUME AllocInv, UNCHANGED <<memmap, bitmap, next_frame, frames, channel, freeing>>,
           started' \in BOOLEAN, panicked' \in BOOLEAN, ~panicked
    PROVE  AllocInv'
<1>1. Held' = Held /\ Sent' = Sent
  BY DEF Held, Sent
<1> QED
  BY <1>1, Zenon DEF AllocInv, FrameTypeOK, OneHolder, HoldersAreMarked, BootBitsStay, BitmapIsExact

(* Dropping a thread moves its frames to the end of the channel.         *)
LEMMA DropInv ==
    ASSUME AllocInv, NEW t \in Threads, DropThread(t)
    PROVE  AllocInv'
<1>1. FrameTypeOK /\ OneHolder /\ HoldersAreMarked /\ BootBitsStay /\ BitmapIsExact /\ ~panicked
  BY DEF AllocInv, DropThread
<1>2. /\ frames \in [Owners -> SUBSET Bits(memmap)] /\ t \in Owners
      /\ channel \in Seq(SUBSET Bits(memmap)) /\ started \in BOOLEAN
  BY <1>1 DEF FrameTypeOK, Owners
<1>3. /\ frames' \in [Owners -> SUBSET Bits(memmap)]
      /\ frames'[t] = {}
      /\ \A p \in Owners : p # t => frames'[p] = frames[p]
      /\ UNCHANGED <<memmap, bitmap, next_frame, started, freeing>>
  BY <1>2, Zenon DEF DropThread
<1>4. Held' \subseteq Held /\ Held = Held' \cup frames[t] /\ Held' \cap frames[t] = {}
  BY <1>1, <1>2, <1>3 DEF Held, OneHolder
<1>5. CASE started
  <2>1. channel' = Append(channel, frames[t]) /\ panicked' = panicked
    BY <1>5 DEF DropThread
  <2>2. /\ channel' \in Seq(SUBSET Bits(memmap))
        /\ Len(channel') = Len(channel) + 1 /\ Len(channel) \in Nat
        /\ \A k \in 1..Len(channel) : channel'[k] = channel[k]
        /\ channel'[Len(channel) + 1] = frames[t]
    BY <1>2, <2>1
  <2>3. Sent' = Sent \cup frames[t]
    BY <2>2 DEF Sent
  <2>4. \A j \in 1..Len(channel) : channel[j] \subseteq Sent
    BY Zenon DEF Sent
  <2>5. Sent \cap frames[t] = {} /\ freeing \cap frames[t] = {}
    BY <1>1, <1>4, Zenon DEF OneHolder
  <2>6. OneHolder'
    <3>1. \A p, q \in Owners : p # q => frames'[p] \cap frames'[q] = {}
      BY <1>1, <1>3, Zenon DEF OneHolder
    <3>2. ASSUME NEW j \in 1..Len(channel'), NEW k \in 1..Len(channel'), j # k
          PROVE  channel'[j] \cap channel'[k] = {}
      <4>1. CASE j \in 1..Len(channel) /\ k \in 1..Len(channel)
        BY <1>1, <2>2, <3>2, <4>1, Zenon DEF OneHolder
      <4>2. CASE j = Len(channel) + 1
        <5>1. k \in 1..Len(channel)
          BY <2>2, <3>2, <4>2
        <5> QED BY <2>2, <2>4, <2>5, <4>2, <5>1
      <4>3. CASE k = Len(channel) + 1
        <5>1. j \in 1..Len(channel)
          BY <2>2, <3>2, <4>3
        <5> QED BY <2>2, <2>4, <2>5, <4>3, <5>1
      <4> QED BY <2>2, <4>1, <4>2, <4>3
    <3>3. Held' \cap Sent' = {} /\ freeing' \cap (Held' \cup Sent') = {}
      BY <1>1, <1>3, <1>4, <2>3, <2>5, Zenon DEF OneHolder
    <3> QED BY <3>1, <3>2, <3>3, Zenon DEF OneHolder
  <2>7. Held' \cup Sent' \cup freeing' = Held \cup Sent \cup freeing
    BY <1>3, <1>4, <2>3, Zenon
  <2>8. FrameTypeOK'
    BY <1>1, <1>3, <2>1, <2>2 DEF FrameTypeOK
  <2>9. HoldersAreMarked' /\ BootBitsStay' /\ BitmapIsExact'
    BY <1>1, <1>3, <2>1, <2>7, Zenon DEF HoldersAreMarked, BootBitsStay, BitmapIsExact
  <2> QED BY <2>6, <2>8, <2>9 DEF AllocInv
<1>6. CASE ~started
  <2>1. channel' = channel /\ panicked' = TRUE
    BY <1>6 DEF DropThread
  <2>2. Sent' = Sent
    BY <2>1, Zenon DEF Sent
  <2>3. OneHolder'
    BY <1>1, <1>3, <1>4, <2>1, <2>2, Zenon DEF OneHolder
  <2>4. FrameTypeOK'
    BY <1>1, <1>3, <2>1, Zenon DEF FrameTypeOK
  <2>5. HoldersAreMarked' /\ BootBitsStay' /\ BitmapIsExact'
    BY <1>1, <1>3, <1>4, <2>1, <2>2, Zenon DEF HoldersAreMarked, BootBitsStay, BitmapIsExact
  <2> QED BY <2>3, <2>4, <2>5 DEF AllocInv
<1> QED
  BY <1>2, <1>5, <1>6

(* Receiving moves the head of the channel to the vector being freed.    *)
LEMMA RecvInv == AllocInv /\ DeallocatorRecv => AllocInv'
<1> SUFFICES ASSUME AllocInv, DeallocatorRecv PROVE AllocInv'
  OBVIOUS
<1>1. FrameTypeOK /\ OneHolder /\ HoldersAreMarked /\ BootBitsStay /\ BitmapIsExact
  BY Zenon DEF AllocInv
<1>2. /\ channel \in Seq(SUBSET Bits(memmap)) /\ channel # <<>> /\ freeing = {}
      /\ freeing' = Head(channel) /\ channel' = Tail(channel)
      /\ UNCHANGED <<memmap, bitmap, next_frame, frames, started, panicked>>
  BY <1>1 DEF FrameTypeOK, DeallocatorRecv
<1>3. /\ Len(channel) \in Nat \ {0} /\ Head(channel) = channel[1]
      /\ channel' \in Seq(SUBSET Bits(memmap))
      /\ Len(channel') = Len(channel) - 1
      /\ \A k \in 1..(Len(channel) - 1) : channel'[k] = channel[k + 1]
      /\ freeing' \in SUBSET Bits(memmap)
  BY <1>2
<1>4. Held' = Held
  BY <1>2, Zenon DEF Held
<1>5. Sent = freeing' \cup Sent'
  <2>1. ASSUME NEW f \in Sent PROVE f \in freeing' \cup Sent'
    <3>1. PICK k \in 1..Len(channel) : f \in channel[k]
      BY DEF Sent
    <3>2. CASE k = 1
      BY <1>2, <1>3, <3>1, <3>2
    <3>3. CASE k # 1
      <4>1. k - 1 \in 1..Len(channel') /\ channel'[k - 1] = channel[k]
        BY <1>3, <3>3
      <4> QED BY <3>1, <4>1 DEF Sent
    <3> QED BY <3>2, <3>3
  <2>2. freeing' \subseteq Sent
    BY <1>2, <1>3 DEF Sent
  <2>3. ASSUME NEW f \in Sent' PROVE f \in Sent
    <3>1. PICK k \in 1..Len(channel') : f \in channel'[k]
      BY Zenon DEF Sent
    <3>2. k + 1 \in 1..Len(channel) /\ channel'[k] = channel[k + 1]
      BY <1>3
    <3> QED BY <3>1, <3>2 DEF Sent
  <2> QED BY <2>1, <2>2, <2>3
<1>6. freeing' \cap Sent' = {}
  <2> SUFFICES ASSUME NEW f \in freeing', f \in Sent' PROVE FALSE
    OBVIOUS
  <2>1. PICK k \in 1..Len(channel') : f \in channel'[k]
    BY Zenon DEF Sent
  <2>2. /\ k + 1 \in 1..Len(channel) /\ k + 1 # 1 /\ 1 \in 1..Len(channel)
        /\ f \in channel[k + 1] /\ f \in channel[1]
    BY <1>2, <1>3, <2>1
  <2> QED BY <1>1, <2>2 DEF OneHolder
<1>7. \A j, k \in 1..Len(channel') : j # k => channel'[j] \cap channel'[k] = {}
  <2> SUFFICES ASSUME NEW j \in 1..Len(channel'), NEW k \in 1..Len(channel'), j # k
               PROVE  channel'[j] \cap channel'[k] = {}
    BY Zenon
  <2>1. /\ j + 1 \in 1..Len(channel) /\ k + 1 \in 1..Len(channel) /\ j + 1 # k + 1
        /\ channel'[j] = channel[j + 1] /\ channel'[k] = channel[k + 1]
    BY <1>3
  <2> QED BY <1>1, <2>1 DEF OneHolder
<1>8. OneHolder'
  <2>1. \A p, q \in Owners : p # q => frames'[p] \cap frames'[q] = {}
    BY <1>1, <1>2, Zenon DEF OneHolder
  <2>2. Held' \cap Sent' = {} /\ freeing' \cap (Held' \cup Sent') = {}
    BY <1>1, <1>4, <1>5, <1>6 DEF OneHolder
  <2> QED BY <1>7, <2>1, <2>2, Zenon DEF OneHolder
<1>9. Held' \cup Sent' \cup freeing' = Held \cup Sent \cup freeing
  BY <1>2, <1>4, <1>5, Zenon
<1>10. FrameTypeOK'
  BY <1>1, <1>2, <1>3, Zenon DEF FrameTypeOK
<1>11. HoldersAreMarked' /\ BootBitsStay' /\ BitmapIsExact'
  BY <1>1, <1>2, <1>9 DEF HoldersAreMarked, BootBitsStay, BitmapIsExact
<1> QED
  BY <1>8, <1>10, <1>11 DEF AllocInv

(* Freeing clears the bits of frames that nobody else holds.             *)
LEMMA FreeInv == AllocInv /\ FreeFrames => AllocInv'
<1> SUFFICES ASSUME AllocInv, FreeFrames PROVE AllocInv'
  OBVIOUS
<1>1. FrameTypeOK /\ OneHolder /\ HoldersAreMarked /\ BootBitsStay /\ BitmapIsExact
  BY DEF AllocInv
<1>2. /\ bitmap' = [i \in Bits(memmap) |-> bitmap[i] /\ i \notin freeing]
      /\ freeing' = {}
      /\ UNCHANGED <<memmap, next_frame, frames, started, channel, panicked>>
  BY DEF FreeFrames
<1>3. /\ bitmap' \in [Bits(memmap) -> BOOLEAN]
      /\ \A i \in Bits(memmap) : bitmap'[i] <=> bitmap[i] /\ i \notin freeing
  BY <1>1, <1>2, Zenon DEF FrameTypeOK
<1>4. Held' = Held /\ Sent' = Sent
  BY <1>2 DEF Held, Sent
<1>5. freeing \cap (Held \cup Sent) = {}
  BY <1>1 DEF OneHolder
<1>6. Held \cup Sent \cup freeing \subseteq Bits(memmap)
  BY <1>1, HoldersAreBits
<1>7. FrameTypeOK' /\ OneHolder'
  BY <1>1, <1>2, <1>3, <1>4, Zenon DEF FrameTypeOK, OneHolder
<1>8. HoldersAreMarked'
  BY <1>1, <1>2, <1>3, <1>4, <1>5, <1>6, Zenon DEF HoldersAreMarked
<1>9. BootBitsStay'
  BY <1>1, <1>2, <1>3, Zenon DEF BootBitsStay, HoldersAreMarked
<1>10. BitmapIsExact'
  <2> SUFFICES ASSUME ~panicked', NEW i \in Bits(memmap)
               PROVE  bitmap'[i] <=> Fill(memmap)[i] \/ i \in Held \cup Sent
    BY <1>2, <1>4, Zenon DEF BitmapIsExact
  <2>1. bitmap[i] <=> Fill(memmap)[i] \/ i \in Held \cup Sent \cup freeing
    BY <1>1, <1>2, Zenon DEF BitmapIsExact
  <2>2. i \in freeing => ~Fill(memmap)[i] /\ i \notin Held \cup Sent
    BY <1>1, <1>5 DEF HoldersAreMarked
  <2> QED BY <1>3, <2>1, <2>2, Zenon
<1> QED
  BY <1>7, <1>8, <1>9, <1>10 DEF AllocInv

(* Every step of the allocator and its users keeps the invariant.        *)
LEMMA AllocNextInv == AllocInv /\ [FrameNext]_frameVars => AllocInv'
<1> SUFFICES ASSUME AllocInv, [FrameNext]_frameVars PROVE AllocInv'
  OBVIOUS
<1>1. FrameTypeOK
  BY DEF AllocInv
<1>2. memmap \in MemMaps /\ Boots(memmap) /\ next_frame \in Bits(memmap)
  BY <1>1 DEF FrameTypeOK
<1>3. TotalBits(memmap) \in Nat \ {0}
  BY <1>2, BitmapNotEmpty
<1>4. \A x \in Nat : x % TotalBits(memmap) \in Bits(memmap)
  BY <1>3 DEF Bits
<1>5. Bits(memmap) \subseteq Nat
  BY DEF Bits
<1>6. ASSUME NEW o \in Owners, AllocateFrame(o) PROVE AllocInv'
  <2> DEFINE i == FirstHit(bitmap, next_frame, memmap)
  <2>1. i \in Bits(memmap) /\ ~bitmap[i]
    BY <1>2, <1>3, <1>5, <1>6, FirstHitIsFree, Zenon DEF AllocateFrame
  <2>2. /\ Take(o, {i}) /\ ~panicked
        /\ next_frame' = (i + 1) % TotalBits(memmap)
        /\ UNCHANGED <<memmap, started, channel, freeing, panicked>>
    BY <1>6 DEF AllocateFrame
  <2> HIDE DEF i
  <2>3. i + 1 \in Nat
    BY <1>5, <2>1
  <2>4. next_frame' \in Bits(memmap)
    BY <1>4, <2>2, <2>3, Zenon
  <2> QED BY <2>1, <2>2, <2>4, TakeInv, Zenon
<1>7. ASSUME NEW len \in RunLengths, AllocateContinuousFrames(len) PROVE AllocInv'
  <2> DEFINE is == FirstRun(bitmap, len, memmap)
             last == CHOOSE i \in is : \A k \in is : k <= i
  <2>1. len \in Nat \ {0}
    BY SizeAssumption, Zenon
  <2>2. is \subseteq Bits(memmap) /\ (\A i \in is : ~bitmap[i]) /\ last \in Bits(memmap)
    BY <1>3, <1>7, <2>1, FirstRunIsFree, Zenon DEF AllocateContinuousFrames
  <2>3. /\ Take(Kernel, is) /\ ~panicked
        /\ next_frame' = (last + 1) % TotalBits(memmap)
        /\ UNCHANGED <<memmap, started, channel, freeing, panicked>>
    BY <1>7 DEF AllocateContinuousFrames
  <2> HIDE DEF is, last
  <2>4. last + 1 \in Nat
    BY <1>5, <2>2
  <2>5. next_frame' \in Bits(memmap) /\ Kernel \in Owners
    BY <1>4, <2>3, <2>4, Zenon DEF Owners
  <2> QED BY <2>2, <2>3, <2>5, TakeInv
<1>8. ASSUME NEW o \in Owners, NoFrame(o) PROVE AllocInv'
  BY <1>1, <1>8, StillInv, Zenon DEF NoFrame, FrameTypeOK
<1>9. ASSUME NEW len \in RunLengths, NoRun(len) PROVE AllocInv'
  BY <1>1, <1>9, StillInv DEF NoRun, FrameTypeOK
<1>10. ASSUME StartDeallocator PROVE AllocInv'
  BY <1>1, <1>10, StillInv DEF StartDeallocator, FrameTypeOK
<1>11. CASE UNCHANGED frameVars
  <2>1. Held' = Held /\ Sent' = Sent
    BY <1>11 DEF frameVars, Held, Sent
  <2> QED BY <1>11, <2>1, Zenon DEF frameVars, AllocInv, FrameTypeOK, OneHolder, HoldersAreMarked,
                             BootBitsStay, BitmapIsExact
<1> QED
  BY <1>6, <1>7, <1>8, <1>9, <1>10, <1>11, DropInv, RecvInv, FreeInv DEF FrameNext

(* The invariant holds in every reachable state.                         *)
LEMMA AllocAlways == FrameSpec => []AllocInv
  BY AllocInitInv, AllocNextInv, PTL DEF FrameSpec

(* The state of BitmapAllocator, of the channel and of the deallocator     *)
(* task is well-typed; in particular next stays inside the bitmap.         *)
THEOREM AllocatorTypeCorrect == FrameSpec => []FrameTypeOK
<1>1. AllocInv => FrameTypeOK
  BY DEF AllocInv
<1> QED
  BY <1>1, AllocAlways, PTL

(* No frame is ever held twice, so allocate_frame never hands out a frame  *)
(* in use and free_frames never frees one, for any memory map and threads. *)
THEOREM FrameHasOneHolder == FrameSpec => []OneHolder
<1>1. AllocInv => OneHolder
  BY DEF AllocInv
<1> QED
  BY <1>1, AllocAlways, PTL

(* The bitmap agrees with the holders until the machine panics.          *)
THEOREM BitmapExact == FrameSpec => []BitmapIsExact
<1>1. AllocInv => BitmapIsExact
  BY DEF AllocInv
<1> QED
  BY <1>1, AllocAlways, PTL

(* What the searches hand out is usable RAM outside the bitmap and the     *)
(* kernel heap: what fill and init leave set never comes out of a search.  *)
THEOREM OnlyFreeRamIsHandedOut == FrameSpec => []HandedOutIsFreeRam
<1>1. AllocInv => HandedOutIsFreeRam
  <2> SUFFICES ASSUME AllocInv, NEW i \in Held \cup Sent \cup freeing
               PROVE  i \in UsablePages(memmap) /\ i \notin KernelPages(memmap)
    BY Zenon DEF HandedOutIsFreeRam
  <2>1. i \in Bits(memmap) /\ memmap \in MemMaps /\ Boots(memmap)
    BY HoldersAreBits DEF AllocInv, FrameTypeOK
  <2>2. ~Fill(memmap)[i]
    BY Zenon DEF AllocInv, HoldersAreMarked
  <2>3. i \in UsablePages(memmap) /\ i \notin MarkedPages(memmap)
    BY <2>1, <2>2, Zenon DEF Fill
  <2> QED BY <2>1, <2>3, MarkedIsKernel
<1> QED
  BY <1>1, AllocAlways, PTL

(* allocate_frame answers None only when every frame is used: starting at  *)
(* next, wrapping around and skipping full bytes passes over no free one.  *)
THEOREM NoneMeansFull ==
    FrameSpec => [](Hits(bitmap, next_frame, memmap) = {} => \A i \in Bits(memmap) : bitmap[i])
<1>1. AllocInv => (Hits(bitmap, next_frame, memmap) = {} => \A i \in Bits(memmap) : bitmap[i])
  <2> SUFFICES ASSUME AllocInv, NEW i \in Bits(memmap), ~bitmap[i]
               PROVE  Hits(bitmap, next_frame, memmap) # {}
    OBVIOUS
  <2>1. memmap \in MemMaps /\ Boots(memmap) /\ next_frame \in Bits(memmap)
    BY DEF AllocInv, FrameTypeOK
  <2> DEFINE N == TotalBits(memmap)
  <2>2. N \in Nat \ {0}
    BY <2>1, BitmapNotEmpty
  <2>3. i \in 0..(N - 1) /\ next_frame \in 0..(N - 1)
    BY <2>1 DEF Bits
  <2>4. PICK o \in 0..(N - 1) : (next_frame + o) % N = i
    <3> HIDE DEF N
    <3>1. CASE i >= next_frame
      <4>1. i - next_frame \in 0..(N - 1) /\ next_frame + (i - next_frame) = i /\ i % N = i
        BY <2>2, <2>3, <3>1
      <4> QED BY <4>1
    <3>2. CASE i < next_frame
      <4>1. i + N - next_frame \in 0..(N - 1) /\ next_frame + (i + N - next_frame) = i + N
        BY <2>2, <2>3, <3>2
      <4>2. (i + N) % N = i
        BY <2>2, <2>3
      <4> QED BY <4>1, <4>2
    <3> QED BY <2>2, <2>3, <3>1, <3>2
  <2>5. Probe(next_frame, o, memmap) = i
    BY <2>4 DEF Probe
  <2>6. ~SkipByte(bitmap, i)
    <3> SUFFICES ASSUME SkipByte(bitmap, i) PROVE FALSE
      OBVIOUS
    <3>1. i \in Int /\ ByteSize \in Nat \ {0}
      BY <2>2, <2>3, SizeAssumption
    <3>2. i \in i..(i + ByteSize - 1)
      BY <3>1
    <3> QED BY <3>2 DEF SkipByte
  <2> QED BY <2>4, <2>5, <2>6 DEF Hits, Hit
<1> QED
  BY <1>1, AllocAlways, PTL

(* Together: for any memory map, a frame is free or has one holder, and    *)
(* the bitmap of the allocator agrees.                                     *)
THEOREM FramesAccounted == FrameSpec => []FramesAreAccounted
  BY FrameHasOneHolder, OnlyFreeRamIsHandedOut, BitmapExact, PTL DEF FramesAreAccounted
=============================================================================
