CONSTANTS
  a = a
  b = b
  c = c
  x = x
  y = y
  NoJob = NoJob
  ContextIds = {x, y}
  Tasks = {a, b, c}
  CtxId <- Ids
  NWorkers = 2
SPECIFICATION FairSpec
INVARIANTS
  TypeOK
  JobPlaced
PROPERTIES
  ImplementsService
  Answered
  StopEnds
