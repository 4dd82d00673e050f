\* Alerts without an evaluation id, all of one transaction type, that fail the
\* DQ rules.  The source may stop sending files.
SPECIFICATION Spec
CONSTANTS
  Null = null
  Ids = {1, 2}
  Revs = {1, 2}
  Items = {1, 2}
  Names <- OnlyAlerts
  RefOf <- NoEvaluationId
  Malformed <- NewestMalformed
  MaxLoads = 2
  MaxFailures = 0
INVARIANT
  PromisedIsKept
CHECK_DEADLOCK FALSE
