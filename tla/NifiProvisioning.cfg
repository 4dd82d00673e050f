\* Three parameters, one of them sensitive, two requests that fail or lose
\* their answer, two changes by operators, one more docker compose up.  In the
\* end nothing is left to do.
SPECIFICATION FairSpec
CONSTANTS
  Required = {pbucket, phttp, pozone}
  Sensitive = {phttp}
  MaxFaults = 2
  MaxEdits = 2
  MaxReruns = 1
INVARIANTS
  TypeOK
  EndsConfigured
PROPERTIES
  OperatorValuesKept
  ProvisioningCompletes
CHECK_DEADLOCK FALSE
