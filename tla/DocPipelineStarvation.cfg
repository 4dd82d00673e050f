\* As many documents beyond extraction as _find returns, ahead of a healthy one.
SPECIFICATION FairSpec
CONSTANTS
  N = 2
  Poison <- FirstDoc
  FindLimit = 1
  Retries = 3
  Runs = {r1}
  CronModes = {TRUE}
  MaxFaults = 0
  MaxEdits = 0
  MaxCrashes = 0
PROPERTIES
  AllHealthyDocsSettle
CHECK_DEADLOCK FALSE
