CONSTANTS
  NPROC = 3
  CPUs = {c1, c2}
  NoCPU = NoCPU
  MaxPid = 4
  KillPids = {1, 2, 3}
SPECIFICATION Spec
SYMMETRY CPUSymmetry
INVARIANTS
  OneCPUPerStack
  LiveParent
  NoMissedWakeup
  SleepLockMutex
  SchedNeverPanics
PROPERTY
  LifeCycle
CHECK_DEADLOCK FALSE
