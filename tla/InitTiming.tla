----------------------------- MODULE InitTiming -----------------------------
(***************************************************************************)
(* The power-up sequence watched at the pins, like ddr2_timing_checker.v   *)
(* and ddr2_dll_mrs_monitor.v: which commands have appeared, and how long  *)
(* ago the last one did.                                                   *)
(***************************************************************************)
EXTENDS InitEngine

VARIABLES
  log,         \* the commands seen since reset, oldest first
  age,         \* cycles since the last one, saturating at AgeCap
  ckeAge       \* cycles with CKE high, saturating at AgeCap

history == <<log, age, ckeAge>>

PowerUpSequence ==
  <<"PRE", "EMRS2", "EMRS3", "EMRS1_INIT", "MRS_RST", "REF", "REF",
    "MRS_FINAL", "EMRS1_FINAL", "PRE">>

\* No property compares an age with more than this.
AgeCap ==
  TXSR_CYCLES + TMRD_CYCLES + TMRD_DLL_CYCLES + TRFC_CYCLES + OCD_WAIT_CYCLES

Older(n) == IF n < AgeCap THEN n + 1 ELSE n

Watch ==
  /\ log' = IF bus = "DES" THEN log ELSE Append(log, bus)
  /\ age' = IF bus = "DES" THEN Older(age) ELSE 0
  /\ ckeAge' = IF cke THEN Older(ckeAge) ELSE 0

Forget == log' = <<>> /\ age' = AgeCap /\ ckeAge' = 0

TimingInit == Init /\ log = <<>> /\ age = AgeCap /\ ckeAge = 0

WatchedClock == Clock /\ Watch
WatchedReset == Reset /\ Forget

\* The clock runs; RESET may come at any time.
TimingSpec ==
  /\ TimingInit
  /\ [][WatchedClock \/ WatchedReset]_<<vars, history>>
  /\ WF_<<vars, history>>(WatchedClock)

-----------------------------------------------------------------------------
Last == log[Len(log)]
NewCommand == bus # "DES"

(* The device sees the commands of the power-up sequence in order, whatever  *)
(* resets interrupt it, and READY rises only after the whole of it.          *)
SequenceInOrder ==
  /\ log = SubSeq(PowerUpSequence, 1, Len(log))
  /\ ready => log = PowerUpSequence

(* CKE has been high for tXSR before the first command.                      *)
CkeSettles == NewCommand /\ log = <<>> => ckeAge >= TXSR_CYCLES

(* tMRD after each mode register write, tRFC after each REFRESH.             *)
GapsKept ==
  NewCommand /\ log # <<>> =>
    /\ Last \in {"EMRS2", "EMRS3", "EMRS1_INIT", "MRS_RST", "EMRS1_FINAL"}
         => age >= TMRD_CYCLES
    /\ Last = "REF" => age >= TRFC_CYCLES
    /\ Last = "MRS_FINAL" => age >= TMRD_DLL_CYCLES

(* With OCD_CALIB_EN, OCD_WAIT_CYCLES pass between the final EMRS1 write and *)
(* the final PRECHARGE ALL.                                                  *)
OcdSettles ==
  NewCommand /\ log # <<>> /\ Last = "EMRS1_FINAL" /\ OCD_CALIB_EN
    => age >= OCD_WAIT_CYCLES

(* The sequence completes: once started, and unless it is reset again, no    *)
(* wait state is left for ever and READY rises with the pads released.       *)
EventuallyReady == <>[](state # "S_IDLE") => <>[](ready /\ ~ts_con)
=============================================================================
