SPECIFICATION PackSpec
CONSTANTS
  Volumes = 2
  Planned = 3
  Told = {1}
  Terse = {}
  MaxFaults = 1
  Targets = {2}
  Ages = {1}
  MaxPacks = 1
  MaxChanges = 1
INVARIANT OutlineOfVolume
CHECK_DEADLOCK FALSE
