\* An empty warehouse, one with every table that views read, or all but one;
\* two jobs and one fault.  No more files may come.
SPECIFICATION Spec
CONSTANTS
  Normal <- Spellings
  Deliveries <- Requests
  Warehouses <- Some
  MaxJobs = 2
  MaxFaults = 1
INVARIANTS
  TypeOK
  BuildIsComplete
  TablesSuitTheViews
  OneKindPerTable
CHECK_DEADLOCK FALSE
