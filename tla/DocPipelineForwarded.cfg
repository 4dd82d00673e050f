\* One failed send to NiFi is enough.
SPECIFICATION Spec
CONSTANTS
  N = 1
  Poison = {}
  FindLimit = 2
  Retries = 3
  Runs = {r1}
  CronModes = {TRUE}
  MaxFaults = 1
  MaxEdits = 0
  MaxCrashes = 0
INVARIANTS
  CompletedWasForwarded
CHECK_DEADLOCK FALSE
