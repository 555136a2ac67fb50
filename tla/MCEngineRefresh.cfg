SPECIFICATION PoliteSpec
CONSTANTS
  Banks = {0}
  Ranks = {0}
  Sizes = {0}
  FillCounts = {40, 56}
  REF_CNT_INIT_CFG = 90
  REF_THRESH_CFG = 80
  AUTO_SREF_IDLE_CYCLES = 3
  SELFREF_TXSR_CYCLES = 2
  PDOWN_TXP_CYCLES = 1
  TDLLK_WAIT_CYCLES = 2
  TRCD_MIN = 4
  READ_LAT = 24
  CNT_RIDL = 5
  TREFI_MAX = 90
INVARIANT RefreshIntervalBounded
PROPERTIES
  RefreshServed
  IdleAgain
  FetchedIsActivated
