SPECIFICATION FairSpec
CONSTANTS
  CPU = {c1}
  NoCPU = NoCPU
  NPROC = 3
PROPERTIES
  SleepersWake
  RunnableRuns
