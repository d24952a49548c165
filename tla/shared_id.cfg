CONSTANTS
  a = a
  b = b
  s1 = s1
  s2 = s2
  x = x
  Sessions = {s1, s2}
  Tasks = {a, b}
  ContextIds = {x}
  CtxId <- SharedId
  SessionOf <- TwoSessions
  MaxChunks = 1
  MaxQueue = 1
  Frames <- OneFrame
SPECIFICATION Spec
INVARIANTS
  TerminalFrame
