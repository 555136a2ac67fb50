SPECIFICATION TimingSpec
CONSTANTS
  CNT_PWRUP = 100
  TXSR_CYCLES = 199
  TRP_CYCLES = 7
  TMRD_CYCLES = 3
  TRFC_CYCLES = 100
  TMRD_DLL_CYCLES = 405
  FINAL_CYCLES = 4
  OCD_CALIB_EN = TRUE
  OCD_WAIT_CYCLES = 60
  ZQ_CALIB_EN = TRUE
  ZQ_WAIT_CYCLES = 64
INVARIANTS
  TypeOK
  SequenceInOrder
  CkeSettles
  GapsKept
  OcdSettles
PROPERTY EventuallyReady
