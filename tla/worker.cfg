CONSTANTS
  t1 = t1
  t2 = t2
  NWorkers = 2
  Threads = {t1, t2}
  Boot = Boot
  VoiceNames <- MCVoiceNames
  Found <- MCFound
  Shipped <- MCShipped
  Machines <- MCMachines
  Device <- MCDevice
  MaxCalls = 5
SPECIFICATION Spec
SYMMETRY Symmetry
INVARIANTS
  TypeOK
  StyleMatches
  LoadsBounded
  SerialContract
  SameDevice
  GpuIfComplete
