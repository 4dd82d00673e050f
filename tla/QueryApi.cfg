\* Two statements of two tenants and a plain query, on two threads; one of the
\* statements and the query may last for ever, and the session may be lost once.
\* When all are answered nothing is left to do.
SPECIFICATION FairSpec
CONSTANTS
  sqlA = sqlA
  sqlB = sqlB
  getA = getA
  tenantA = tenantA
  tenantB = tenantB
  Requests = {sqlA, sqlB, getA}
  Sql = {sqlA, sqlB}
  Slow = {sqlA, getA}
  Tenants = {tenantA, tenantB}
  TenantOf <- TheTenants
  Tables = {alerts, transactions}
  Filtered = {alerts}
  Everyone = everyone
  Threads = {t1, t2}
  None = none
  MaxDeaths = 1
  MaxHealth = 1
INVARIANTS
  TypeOK
  SqlSeesOwnTenant
PROPERTIES
  AnswersAreFinal
  EveryoneAnswered
  JobsEnd
CHECK_DEADLOCK FALSE
