SPECIFICATION WatchedSpec
CONSTANTS
  Banks = {0}
  Ranks = {0}
  Sizes = {1}
  FillCounts = {40, 56}
  REF_CNT_INIT_CFG = 0
  REF_THRESH_CFG = 0
  AUTO_SREF_IDLE_CYCLES = 2
  SELFREF_TXSR_CYCLES = 6
  PDOWN_TXP_CYCLES = 5
  TDLLK_WAIT_CYCLES = 5
  TRCD_MIN = 4
  READ_LAT = 24
  CNT_RIDL = 3
  TRP_MIN = 4
  TRAS_MIN = 20
INVARIANT BlockReadReturnsBlock
