SPECIFICATION DramSpec
CONSTANTS
  Banks = {0, 1}
  Ranks = {0}
  Sizes = {1}
  FillCounts = {40, 56}
  REF_CNT_INIT_CFG = 14
  REF_THRESH_CFG = 7
  AUTO_SREF_IDLE_CYCLES = 3
  SELFREF_TXSR_CYCLES = 1
  PDOWN_TXP_CYCLES = 1
  TDLLK_WAIT_CYCLES = 1
  TRCD_MIN = 2
  READ_LAT = 2
  CNT_RIDL = 1
PROPERTY ActivateClosedBank
