SPECIFICATION WatchedSpec
CONSTANTS
  Banks = {0}
  Ranks = {0}
  Sizes = {0, 1}
  FillCounts = {40, 56}
  REF_CNT_INIT_CFG = 0
  REF_THRESH_CFG = 0
  AUTO_SREF_IDLE_CYCLES = 2
  SELFREF_TXSR_CYCLES = 1
  PDOWN_TXP_CYCLES = 1
  TDLLK_WAIT_CYCLES = 1
  TRCD_MIN = 4
  READ_LAT = 6
  CNT_RIDL = 0
  TRP_MIN = 4
  TRAS_MIN = 6
INVARIANTS
  WriteWindow
  TrcdRespected
  ActivatesSpaced
  WritesPopTheirWords
  ScalarReadCoversBurst
