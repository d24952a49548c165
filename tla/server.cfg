CONSTANTS
  a = a
  b = b
  s1 = s1
  NoJob = NoJob
  Sessions = {s1}
  Tasks = {a}
  Others = {b}
  ContextIds = {a, b}
  CtxId <- OwnId
  SessionOf <- OneSession
  MaxChunks = 2
  MaxQueue = 2
  Frames <- TwoFrames
  NWorkers = 1
SPECIFICATION FairSpec
INVARIANTS
  NothingStranded
PROPERTIES
  ImplementsSession
  CloseTerminates
  LossCloses
  EndedFinishes
