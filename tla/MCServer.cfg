SPECIFICATION ServerSpec
CONSTANTS
  Ranks = {0, 1}
  corr_err_threshold = 1
  uncorr_err_threshold = 1
  ADDRS = 4
  SCRUB_BURST_SIZE = 2
  IDLE_THRESHOLD = 1
  PROGRESS_MOD = 4
  CMD_DEPTH = 2
  DATA_DEPTH = 2
  READ_WORDS = 2
  WRITE_WORDS = 8
  TRACKED = 4
  HostAddrs = {1, 3}
  RankOf <- AddressRanks
  HostWords <- TwoWords
  FlipSets <- SomeFlips
  MaxErrors = 2
INVARIANTS
  
  
  
  ScrubInStep
