SPECIFICATION FdtSpec
CONSTANTS
  CELL = 1024
  WORD = 1048576
  PAGE = 2
  PROBE_CAP = 1000
  DEPTH = 5
  REGS = 3
  MEM_FACT_MAX = 2
  CPU_BOUND = 2
  AFF = 4
  ISA_PPI = 30
  Inputs <- WindowMachines
INVARIANTS
  ReadsInWindow
