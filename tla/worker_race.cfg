CONSTANTS
  a = a
  b = b
  c = c
  x = x
  y = y
  NoJob = NoJob
  ContextIds = {x, y}
  Tasks = {a, b}
  CtxId <- TwoIds
  NWorkers = 2
SPECIFICATION Spec
INVARIANTS
  OneCallPerWorker
