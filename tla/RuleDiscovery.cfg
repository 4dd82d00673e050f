\* An analyst with the three rows of two evaluations at hand, a second loading of
\* the tables and one query that fails.
SPECIFICATION Spec
CONSTANTS
  None = None
  NaN = NaN
  Recorded = Recorded
  Peer = Peer
  Bill = Bill
  Evaluations <- MCEvaluations
  Warehouses <- MCWarehouses
  Results <- MCResults
  Rules = {"044", "002", "004", "076", "078", "001", "083", "091", "028"}
  MaxLoads = 2
  MaxFaults = 1
INVARIANTS
  TypeOK
  DiscoveryFitsAlert
  TableMatchesDiscovery
  RulesAgree
  DebtorGapsAgree
PROPERTY
  OldAlertsKeepTheirReplay
