SPECIFICATION FairSpec
CONSTANTS
  w1 = w1
  w2 = w2
  c = c
  Workers = {w1, w2}
  Caller = c
  MaxChunks = 2
  MaxJobs = 2
  MaxHelp = 1
INVARIANTS TypeOK NobodySleepsThrough
PROPERTIES FieldsAreTheCallers ImplementsForkJoin CallReturns WorkersEnd
CHECK_DEADLOCK FALSE
