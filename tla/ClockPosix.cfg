SPECIFICATION ClockSpec
CONSTANTS
  Rollovers <- MCRollovers
  Readings = {}
  Modes <- MCModes
  MaxUpdates = 1
  NoReading = NoReading
INVARIANT PosixIsUnixTime
CHECK_DEADLOCK FALSE
