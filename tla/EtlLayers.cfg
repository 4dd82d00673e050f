\* Every class, two ids with two revisions each, three jobs with
\* up to two rows each, one of which may die between two writes.  The source
\* may stop sending files.
SPECIFICATION Spec
CONSTANTS
  Null = null
  Ids = {1, 2}
  Revs = {1, 2}
  Items = {1, 2}
  Names <- Everyone
  RefOf <- RefMissingOnce
  Malformed <- NewestMalformed
  MaxLoads = 3
  MaxFailures = 1
INVARIANTS
  TypeOK
  GoldShowsLastLoad
  GoldHoldsLastLoad
  ConditionsAccumulate
  NetworkMapKeepsUp
  PromisedIsKept
CHECK_DEADLOCK FALSE
