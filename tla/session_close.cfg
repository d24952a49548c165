CONSTANTS
  a = a
  b = b
  s1 = s1
  s2 = s2
  x = x
  Sessions = {s1}
  Tasks = {a, b}
  ContextIds = {a, b}
  CtxId <- OwnId
  SessionOf <- OneSession
  MaxChunks = 1
  MaxQueue = 1
  Frames <- OneFrame
SPECIFICATION Spec
SYMMETRY Symmetry
INVARIANTS
  FlagHeld
  FlagOwned
  CallMatchesTask
  CloseLeavesNothing
  CloseVisitsAll
