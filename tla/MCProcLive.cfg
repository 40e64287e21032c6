CONSTANTS
  NPROC = 3
  CPUs = {c1}
  NoCPU = NoCPU
  MaxPid = 3
  KillPids = {2, 3}
SPECIFICATION FairSpec
PROPERTIES
  RunnableRuns
  FreeLockTaken
  KilledExits
