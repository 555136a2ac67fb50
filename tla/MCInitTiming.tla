---------------------------- MODULE MCInitTiming ----------------------------
\* The real waits of the power-up sequence, with SIM_SHORT_INIT's power-up count
\* and both calibration waits enabled.
EXTENDS InitTiming
=============================================================================
