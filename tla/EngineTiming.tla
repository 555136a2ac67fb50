---------------------------- MODULE EngineTiming ----------------------------
(***************************************************************************)
(* The protocol engine watched at its pins, as ddr2_timing_checker.v does: *)
(* every clock samples the pins and ages the events seen there.  An age is *)
(* 0 in the cycle after the event and saturates just above the largest     *)
(* bound a property compares it with.                                      *)
(***************************************************************************)
EXTENDS ProtocolEngine

CONSTANTS
  TRP_MIN,        \* DDR2_TIMING_TRP_MIN
  TRAS_MIN        \* DDR2_TIMING_TRAS_MIN

ASSUME TimingBoundsAssumption ==
  TRP_MIN \in Nat /\ TRAS_MIN \in Nat /\ TRAS_MIN >= ACT_GAP_MIN

VARIABLES
  lastBus,        \* the command one cycle ago, for edge detection
  sinceAct,       \* since the last cycle with ACT on the pins
  sinceActEdge,   \* since ACT last appeared on the pins
  sincePre, sinceRef, sinceMrs,
  sinceSelfRef,   \* since CKE was low at the end of a self-refresh period
  sincePowerDown  \* since CKE was low for power-down

ages == <<lastBus, sinceAct, sinceActEdge, sincePre, sinceRef, sinceMrs,
          sinceSelfRef, sincePowerDown>>

TRFC == CNT_RIDL + 1
TDLLK == CNT_TDLLK + CNT_TMRD

ActCap == TRCD_MIN + 1
ActEdgeCap == TRAS_MIN + 1
PreCap == TRP_MIN + 1
RefCap == TRFC + 1
MrsCap == TDLLK + 1
SelfRefCap == CNT_SELFREF_TXSR + 1
PowerDownCap == CNT_PDOWN_TXP + 1

ActEdge == bus = "ACT" /\ lastBus # "ACT"

\* The last cycle of a self-refresh period with CKE low.  An entry aborted in
\* SREF_ENTER lowers CKE for one cycle too, but begins no exit wait.
SelfRefreshEnds == selfref_active_o /\ st = "SREF_EXIT_WAIT"

\* The next value of an age: restarted by the event, else one more up to cap.
Age(age, event, cap) ==
  IF event THEN 0 ELSE IF age < cap THEN age + 1 ELSE age

TimingInit ==
  /\ lastBus = "DES"
  /\ sinceAct = ActCap /\ sinceActEdge = ActEdgeCap
  /\ sincePre = PreCap /\ sinceRef = RefCap /\ sinceMrs = MrsCap
  /\ sinceSelfRef = SelfRefCap /\ sincePowerDown = PowerDownCap

Sample ==
  /\ lastBus' = bus
  /\ sinceAct' = Age(sinceAct, bus = "ACT", ActCap)
  /\ sinceActEdge' = Age(sinceActEdge, ActEdge, ActEdgeCap)
  /\ sincePre' = Age(sincePre, bus = "PRE", PreCap)
  /\ sinceRef' = Age(sinceRef, bus = "REF", RefCap)
  /\ sinceMrs' = Age(sinceMrs, bus = "MRS", MrsCap)
  /\ sinceSelfRef' = Age(sinceSelfRef, SelfRefreshEnds, SelfRefCap)
  /\ sincePowerDown' = Age(sincePowerDown, pdown_active_o, PowerDownCap)

\* The checker is reset with the engine.
SampleReset ==
  /\ lastBus' = "DES"
  /\ sinceAct' = ActCap /\ sinceActEdge' = ActEdgeCap
  /\ sincePre' = PreCap /\ sinceRef' = RefCap /\ sinceMrs' = MrsCap
  /\ sinceSelfRef' = SelfRefCap /\ sincePowerDown' = PowerDownCap

-----------------------------------------------------------------------------
LowPower == selfref_active_o \/ pdown_active_o
BusCommand == bus \notin {"DES", "NOP"}

(* tRP: after PRECHARGE ALL no row is opened, no refresh or mode change is  *)
(* issued and CKE does not fall before TRP_MIN cycles -- also when an entry *)
(* sequence is aborted and the next command is fetched at once.             *)
TrpRespected ==
  ActEdge \/ bus \in {"REF", "MRS"} \/ LowPower => sincePre >= TRP_MIN

(* tRCD: READ and WRITE follow the last ACTIVATE cycle by TRCD_MIN cycles,  *)
(* in scalar commands and after the second ACT of block commands.           *)
TrcdRespected == bus \in {"RD", "WR"} => sinceAct >= TRCD_MIN

(* tRRD and tFAW: ACT edges keep ACT_GAP_MIN cycles between them, through   *)
(* dropped commands that return to IDLE right after their ACT.              *)
ActivatesSpaced == ActEdge => sinceActEdge >= ACT_GAP_MIN

(* tRFC: nothing is commanded, a second cycle of REFRESH included, and CKE  *)
(* stays high, for TRFC cycles after a REFRESH.                             *)
TrfcRespected == BusCommand \/ LowPower => sinceRef >= TRFC

(* tDLLK: after the mode change no command is issued and CKE stays high     *)
(* until tMRD and the DLL lock time have passed.                            *)
TdllkRespected ==
  (BusCommand /\ bus # "MRS") \/ LowPower => sinceMrs >= TDLLK

(* tXP: the first command after power-down waits the exit time.             *)
TxpRespected == BusCommand => sincePowerDown >= CNT_PDOWN_TXP

(* tXSR: the first command after a self-refresh period waits the exit time,  *)
(* but for the one cycle by which CKE lags the exit (selfref_active_o is a    *)
(* delayed copy of the flag that starts the wait).                            *)
TxsrRespected == BusCommand => sinceSelfRef + 1 >= CNT_SELFREF_TXSR

(* tRAS: a row a READ or WRITE used stays open for TRAS_MIN cycles before   *)
(* PRECHARGE ALL.  Only the row of a command dropped after its ACT can be   *)
(* closed earlier.                                                          *)
TrasOfServedCommands ==
  bus = "PRE" /\ lastBus # "PRE" /\ sinceActEdge < TRAS_MIN
    => cur.cmd \notin {"SCR", "SCW", "BLW"}
=============================================================================
