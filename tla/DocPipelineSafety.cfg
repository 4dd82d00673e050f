\* Two documents; overlapping cron ticks, two failed
\* calls, two CMS writes, one crash.  The CMS, cron and faults may all fall silent.
SPECIFICATION Spec
CONSTANTS
  N = 2
  Poison = {}
  FindLimit = 2
  Retries = 3
  Runs = {r1, r2}
  CronModes = {TRUE}
  MaxFaults = 2
  MaxEdits = 2
  MaxCrashes = 1
SYMMETRY RunSymmetry
INVARIANTS
  TypeOK
  CompletedIsIndexed
  CmsFieldsSurvive
  RedeliveryHasACause
  ArchivedForwardedAtMostOnce
PROPERTIES
  CompletedIsFinal
CHECK_DEADLOCK FALSE
