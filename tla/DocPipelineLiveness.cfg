\* Three documents, the first beyond extraction, two to a batch: what is left of the
\* window of _find is enough for the others.  With cron, and without it, when the
\* restarts of the container stand in for the ticks.
SPECIFICATION FairSpec
CONSTANTS
  N = 3
  Poison <- FirstDoc
  FindLimit = 2
  Retries = 3
  Runs = {r1}
  CronModes = {TRUE, FALSE}
  MaxFaults = 1
  MaxEdits = 1
  MaxCrashes = 1
PROPERTIES
  HealthyDocsSettle
CHECK_DEADLOCK FALSE
