SPECIFICATION HostSpec
CONSTANTS
  Banks = {0}
  Ranks = {0}
  Sizes = {0, 1}
  FillCounts = {0, 56}
  REF_CNT_INIT_CFG = 0
  REF_THRESH_CFG = 0
  AUTO_SREF_IDLE_CYCLES = 0
  SELFREF_TXSR_CYCLES = 1
  PDOWN_TXP_CYCLES = 1
  TDLLK_WAIT_CYCLES = 1
  TRCD_MIN = 2
  READ_LAT = 2
  CNT_RIDL = 0
  CMD_DEPTH = 2
  DATA_DEPTH = 24
  RET_DEPTH = 18
  OpNumbers = {0, 1, 2}
  HostCommands <- WritesOnly
  Continuous = FALSE
INVARIANT WriteDrivesItsWords
