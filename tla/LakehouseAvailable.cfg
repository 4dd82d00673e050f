\* One delivery to a warehouse with every table, and the build after it; no faults.
\* No more files may come.
SPECIFICATION Spec
CONSTANTS
  Normal <- Spellings
  Deliveries <- Requests
  Warehouses <- Full
  MaxJobs = 1
  MaxFaults = 0
INVARIANT AvailableViewsAreBuilt
CHECK_DEADLOCK FALSE
