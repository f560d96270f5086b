------------------------------ MODULE Storage ------------------------------
(***************************************************************************)
(* How drives get their names and the root its place: the enumeration of   *)
(* the drives and the registration of each under the GUID of its partition *)
(* table (hal/storage.rs), the reading of that table from its two copies   *)
(* (hal/gpt.rs), and the mounting of the root by the VFS task (hal/vfs.rs).*)
(* A copy of the table is what its checks tell apart: the signature, the   *)
(* two checksums, the sizes, and where the array lies.  Every read of the  *)
(* drive may fail.                                                         *)
(***************************************************************************)
EXTENDS Integers, Sequences, FiniteSets

CONSTANTS
    Guids, Entries, \* the GUIDs of the tables and of their partitions
    Machines,   \* what is on the bus: sequences of controllers, each a sequence of drives
    RootGuid,   \* args.root_drive
    RootEntry,  \* args.root_entry
    Err,        \* a table that could not be read
    U32, U16    \* 2^32 and 2^16 in the code: where the sizes wrap around

Copies == 1 .. 2    \* the primary table and the backup

Tables == [sig : BOOLEAN,           \* "EFI PART"
           header_crc : BOOLEAN,    \* the header has its checksum
           array_crc : BOOLEAN,     \* the array has the header's checksum
           guid : Guids, entry_num : Nat, entry_size : Nat,
           array_lba : Int,         \* of the backup: where its array is, from the end
           entries : SUBSET Entries]
Drives == [Copies -> Tables]

ASSUME StorageAssumption ==
    /\ Machines \subseteq Seq(Seq(Drives))
    /\ RootGuid \in Guids /\ RootEntry \in Entries
    /\ Err \notin Tables
    /\ U32 \in Nat \ {0} /\ U16 \in Nat \ {0}

VARIABLES
    spc,        \* where the boot task, then the VFS task, is
    controllers,\* not enumerated yet
    devices,    \* STORAGE_DEVICES_BY_IDX
    cur,        \* the device whose table is read
    copy,       \* the copy looked at
    got,        \* primary_result and backup_result
    by_guid,    \* the map that is built, then STORAGE_DEVICES_BY_GUID
    published,  \* STORAGE_DEVICES_BY_GUID is set
    root,       \* the table the root is mounted from, or Err
    failed      \* ghost: devices with a read that failed

storageVars == <<spc, controllers, devices, cur, copy, got, by_guid, published, root, failed>>

StorageRest ==
    /\ spc = "identify" /\ devices = <<>> /\ cur = 0 /\ copy = 1
    /\ got = [c \in Copies |-> Err]
    /\ by_guid = [g \in {} |-> 0]
    /\ published = FALSE
    /\ root = Err
    /\ failed = {}

StorageInit == controllers \in Machines /\ StorageRest

-----------------------------------------------------------------------------
(* identify_storage_devices: the drives of every AHCI controller in order. *)
Identify ==
    /\ spc = "identify" /\ controllers # <<>>
    /\ devices' = devices \o Head(controllers)
    /\ controllers' = Tail(controllers)
    /\ UNCHANGED <<spc, cur, copy, got, by_guid, published, root, failed>>

Identified ==
    /\ spc = "identify" /\ controllers = <<>>
    /\ spc' = "next"
    /\ UNCHANGED <<controllers, devices, cur, copy, got, by_guid, published, root, failed>>

-----------------------------------------------------------------------------
(* read_gpt of the device `cur`.  A read that fails is an answer as well.  *)
Table == devices[cur][copy]

Read(ok) ==
    /\ failed' = IF ok THEN failed ELSE failed \union {cur}
    /\ UNCHANGED <<controllers, devices, cur, by_guid, published, root>>

StartReading(i) ==
    /\ spc' = "look" /\ cur' = i /\ copy' = 1
    /\ got' = [c \in Copies |-> Err]

(* is_gpt_present: the backup is looked for only without the primary. *)
LookForSignature ==
    \E ok \in BOOLEAN :
        /\ spc = "look"
        /\ Read(ok)
        /\ IF ok /\ Table.sig THEN spc' = "header" /\ copy' = 1
           ELSE IF copy = 1 THEN spc' = "look" /\ copy' = 2
           ELSE spc' = "read" /\ copy' = copy
        /\ UNCHANGED got

(* get_table: the header, then the array it describes.  The size of an     *)
(* entry is a u32, so that a 128th of it is below 2^25.                    *)
PowersOfTwo == {2^k : k \in 0 .. 24}
GoodSize(t) == (t.entry_size \div 128) \in PowersOfTwo
Bytes(t) == (t.entry_num * t.entry_size) % U32
ArrayBlocks(t) == (Bytes(t) \div 512) + (IF Bytes(t) % 512 = 0 THEN 0 ELSE 1)

(* Only whole sectors of the array are read, and their number is cut to a  *)
(* u16, so that the checksum of an array that ends within a sector, or is  *)
(* longer, does not match; and the array of the backup is taken to end     *)
(* right before its header, whatever the header says.                      *)
ArraySectors(t) == (Bytes(t) \div 512) % U16
ArrayVerified(c, t) ==
    /\ t.array_crc
    /\ t.entry_num * t.entry_size = 512 * ArraySectors(t)
    /\ c = 2 => t.array_lba = -1 - ArrayBlocks(t)

HeaderVerified_NoCrc(t) == GoodSize(t)
HeaderVerified(t) == t.header_crc /\ GoodSize(t)

Answer(r) ==
    /\ got' = [got EXCEPT ![copy] = r]
    /\ IF copy = 1 THEN spc' = "header" /\ copy' = 2 ELSE spc' = "read" /\ copy' = copy

ReadHeader ==
    \E ok \in BOOLEAN :
        /\ spc = "header"
        /\ Read(ok)
        /\ \/ ok /\ HeaderVerified(Table) /\ spc' = "array" /\ UNCHANGED <<copy, got>>
           \/ ~(ok /\ HeaderVerified(Table)) /\ Answer(Err)

ReadArray ==
    \E ok \in BOOLEAN :
        /\ spc = "array"
        /\ Read(ok)
        /\ Answer(IF ok /\ ArrayVerified(copy, Table) THEN Table ELSE Err)

(* The primary is preferred; a difference between the two is only logged.  *)
Preferred(p, b) == IF p # Err THEN p ELSE b
read_gpt == Preferred(got[1], got[2])

-----------------------------------------------------------------------------
(* run_storage_devices: each device is started and its table read; one     *)
(* without a table is passed over, and a GUID met twice is given to the    *)
(* later device.                                                           *)
RunDevice ==
    /\ spc = "next" /\ cur < Len(devices)
    /\ StartReading(cur + 1)
    /\ UNCHANGED <<controllers, devices, by_guid, published, root, failed>>

Register_Stop ==
    /\ spc = "read" /\ ~published
    /\ by_guid' = IF read_gpt = Err THEN by_guid
                  ELSE [g \in DOMAIN by_guid \union {read_gpt.guid} |->
                            IF g = read_gpt.guid THEN cur ELSE by_guid[g]]
    /\ spc' = "next"
    /\ cur' = IF read_gpt = Err THEN Len(devices) ELSE cur
    /\ UNCHANGED <<controllers, devices, copy, got, published, root, failed>>

Register ==
    /\ spc = "read" /\ ~published
    /\ by_guid' = IF read_gpt = Err THEN by_guid
                  ELSE [g \in DOMAIN by_guid \union {read_gpt.guid} |->
                            IF g = read_gpt.guid THEN cur ELSE by_guid[g]]
    /\ spc' = "next"
    /\ UNCHANGED <<controllers, devices, cur, copy, got, published, root, failed>>

PublishNames ==
    /\ spc = "next" /\ cur = Len(devices)
    /\ published' = TRUE
    /\ spc' = "mount"
    /\ UNCHANGED <<controllers, devices, cur, copy, got, by_guid, root, failed>>

(* spawn_vfs_task: the drive of the root by its GUID, its table read once  *)
(* more, and the partition in it; each .expect is a panic.                 *)
FindRoot ==
    /\ spc = "mount"
    /\ IF RootGuid \in DOMAIN by_guid THEN StartReading(by_guid[RootGuid])
       ELSE spc' = "panic" /\ UNCHANGED <<cur, copy, got>>
    /\ UNCHANGED <<controllers, devices, by_guid, published, root, failed>>

MountRoot_AnyEntry ==
    /\ spc = "read" /\ published
    /\ IF read_gpt # Err
       THEN root' = read_gpt /\ spc' = "mounted"
       ELSE root' = root /\ spc' = "panic"
    /\ UNCHANGED <<controllers, devices, cur, copy, got, by_guid, published, failed>>

MountRoot ==
    /\ spc = "read" /\ published
    /\ IF read_gpt # Err /\ RootEntry \in read_gpt.entries
       THEN root' = read_gpt /\ spc' = "mounted"
       ELSE root' = root /\ spc' = "panic"
    /\ UNCHANGED <<controllers, devices, cur, copy, got, by_guid, published, failed>>

StorageNext ==
    \/ Identify \/ Identified \/ RunDevice \/ LookForSignature \/ ReadHeader \/ ReadArray
    \/ Register \/ PublishNames \/ FindRoot \/ MountRoot

StorageSpec == StorageInit /\ [][StorageNext]_storageVars

-----------------------------------------------------------------------------
StorageTypeOK ==
    /\ spc \in {"identify", "next", "look", "header", "array", "read", "mount", "mounted", "panic"}
    /\ controllers \in Seq(Seq(Drives))
    /\ devices \in Seq(Drives)
    /\ cur \in 0 .. Len(devices) /\ copy \in Copies
    /\ got \in [Copies -> Tables \union {Err}]
    /\ DOMAIN by_guid \subseteq Guids /\ \A g \in DOMAIN by_guid : by_guid[g] \in 1 .. Len(devices)
    /\ published \in BOOLEAN
    /\ root \in Tables \union {Err}
    /\ failed \subseteq Nat

(* What a drive promises: a copy that passes every check, and the table of *)
(* the drive when no read of it fails.                                     *)
Sound(c, t) == t.header_crc /\ GoodSize(t) /\ ArrayVerified(c, t)

TableOf(d) ==
    IF ~d[1].sig /\ ~d[2].sig THEN Err
    ELSE IF Sound(1, d[1]) THEN d[1] ELSE IF Sound(2, d[2]) THEN d[2] ELSE Err

(* A GUID leads to a drive that has a sound copy of a table of that GUID,  *)
(* whichever reads failed.                                                 *)
NamesAreSound ==
    \A g \in DOMAIN by_guid : \E c \in Copies :
        LET t == devices[by_guid[g]][c] IN t.guid = g /\ Sound(c, t)

(* Once the map is published every drive that has a table and answered its *)
(* reads is found under its GUID, or a later drive of the same GUID is,    *)
(* whatever became of the drives before it.                                *)
SoundDrivesAreNamed ==
    published => \A i \in DOMAIN devices \ failed :
        LET t == TableOf(devices[i])
        IN  t # Err => t.guid \in DOMAIN by_guid /\ by_guid[t.guid] >= i

(* The published names are right and complete: a GUID leads to a drive     *)
(* that has a sound table of that GUID, whichever reads failed, and every  *)
(* drive that answered is found, whatever became of the others.            *)
NamesAreExact == NamesAreSound /\ SoundDrivesAreNamed

(* The root is mounted from a sound table that has its partition, and from *)
(* the one named in the arguments unless a read of the drive failed: the   *)
(* table is read again for the mount, and a failed read may give the other *)
(* copy.                                                                   *)
RootIsTheOneNamed ==
    spc = "mounted" =>
        /\ RootEntry \in root.entries
        /\ \E c \in Copies : root = devices[cur][c] /\ Sound(c, root)
        /\ cur \notin failed => root.guid = RootGuid
=============================================================================
