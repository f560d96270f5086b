SPECIFICATION PlatformFairSpec
CONSTANTS
  Cpus = {c0, c1, c2}
  Bsp = c0
  Divisor = 2
  Skews = {1, 3}
  MaxNow = 10
  None = None
  Madts <- MCMadts
  BootId = 0
  NoHandler = NoHandler
  Guids = {"A", "B"}
  Entries = {"r", "s"}
  Machines <- MCMachines
  RootGuid = "A"
  RootEntry = "r"
  Err = Err
  U32 = 65536
  U16 = 64
  Rollovers <- MCRollovers
  Readings <- MCReadings
  Modes <- MCModes
  MaxUpdates = 5
  NoReading = NoReading
  Strings <- MCStrings
  Others <- MCOthers
  Nothing = Nothing
  Direct = 1
  Addrs = 2
  DiskBlocks = 16
  Starts = {0, 2, 3, 5}
  MaxWrites = 2
  MaxSets = 9
  MaxDiskFaults = 1
  NoBuf = NoBuf
  NoIter = NoIter
INVARIANTS PitIsOwn CountersAgree InterruptsAreHandled NamesAreExact RootIsTheOneNamed ReadingIsConsistent ConversionsAgree PathsAgree BlockMapIsSound
PROPERTIES EveryCpuStarts
CHECK_DEADLOCK FALSE
