CONSTANTS
  a = a
  b = b
  s1 = s1
  s2 = s2
  x = x
  Sessions = {s1}
  Tasks = {a}
  ContextIds = {a}
  CtxId <- OwnId
  SessionOf <- OneSession
  MaxChunks = 2
  MaxQueue = 2
  Frames <- TwoFrames
SPECIFICATION Spec
INVARIANTS
  NoStrandedText
