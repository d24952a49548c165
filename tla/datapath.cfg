CONSTANTS
  FrameMs = 20
  Unit = 4
  Inputs <- MCInputs
  Documented <- MCDocumented
  Rates <- MCRates
  Heavy = {150}
  NativeRate = 100
  Amplitudes <- MCAmplitudes
  MaxSamples = 3
  MaxChunks = 2
  MaxInputs = 3
SPECIFICATION Spec
INVARIANTS
  TypeOK
  DocumentedAccepted
  OneRate
  HeardIsMade
  PlaysAsLong
  NoWrap
