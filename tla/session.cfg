CONSTANTS
  a = a
  b = b
  s1 = s1
  s2 = s2
  x = x
  Sessions = {s1}
  Tasks = {a}
  ContextIds = {a}
  CtxId <- OwnId
  SessionOf <- OneSession
  MaxChunks = 3
  MaxQueue = 3
  Frames <- ThreeChunks
SPECIFICATION Spec
INVARIANTS
  TypeOK
  DoneMeansComplete
  TerminalFrame
  CancelWakes
PROPERTIES
  CancelIsFinal
  ImplementsStream
