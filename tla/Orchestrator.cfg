\* Three workers, two tables, three requests, one failing view, one crash.
\* The clients may stop submitting: every thread then waits in queue.get.
SPECIFICATION FairSpec
CONSTANTS
  Workers = {w1, w2, w3}
  Tables = {alerts, cases}
  NoTable = none
  MaxJobs = 3
  MaxViewFailures = 1
  MaxCrashes = 1
INVARIANTS
  TypeOK
  UnfinishedCountsWork
  NoEtlDuringViewBuild
  BuildSeesOneLake
  NoStaleTableForgotten
PROPERTIES
  ImplementsGate
  JobsAreDone
  ViewsCatchUp
CHECK_DEADLOCK FALSE
