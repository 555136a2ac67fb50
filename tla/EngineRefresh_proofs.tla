------------------------ MODULE EngineRefresh_proofs ------------------------
(***************************************************************************)
(* The refresh interval is kept, for every timing whose settings fit and   *)
(* every number of banks, ranks and block sizes: RefreshInv bounds, in     *)
(* every state, the time that is left until the next REF is on the pins.   *)
(***************************************************************************)
EXTENDS ProtocolEngine_proofs, EngineRefresh

\* A refresh t clocks from now is in time.
Within(t) == sinceRefresh + t <= TREFI_MAX

\* Clocks until the next ACT may be driven, and the bursts a block write still
\* has before it.
GapLeft == IF ActGapMet THEN 0 ELSE ACT_GAP_MIN - act_gap_cnt
BurstsLeft == Bursts(cur.sz, blk_cnt)
AfterBurst == IF from_blw THEN BurstsLeft ELSE 0

\* Low power from its precharge to the end of the wait after it.
Sleeping ==
  {"SREF_PRE", "SREF_TRP", "SREF_ENTER", "SREF_IDLE", "SREF_EXIT_WAIT",
   "PD_PRE", "PD_TRP", "PD_IDLE", "PD_EXIT_WAIT"}

\* The time left, state by state.
HomeFits ==
  /\ st = "IDLE" => Within(Home)
  /\ st = "RPRE" => Within(cnt + 10)
  /\ st = "RNOP" => Within(cnt + 2)
  /\ st = "RREF" => Within(1)
  /\ st = "RIDL" /\ bus # "REF" => Within(cnt + 1 + Home)

SleepFits ==
  /\ st = "SREF_PRE" => Within(cnt + CNT_SELFREF_TXSR + 12 + Home)
  /\ st = "SREF_TRP" => Within(cnt + CNT_SELFREF_TXSR + 4 + Home)
  /\ st = "SREF_ENTER" => Within(cnt + CNT_SELFREF_TXSR + 2 + Home)
  /\ st = "SREF_IDLE" => Within(CNT_SELFREF_TXSR + 1 + Home)
  /\ st = "PD_PRE" => Within(cnt + CNT_PDOWN_TXP + 10 + Home)
  /\ st = "PD_TRP" => Within(cnt + CNT_PDOWN_TXP + 2 + Home)
  /\ st = "PD_IDLE" => Within(CNT_PDOWN_TXP + 1 + Home)
  /\ st \in {"SREF_EXIT_WAIT", "PD_EXIT_WAIT"} => Within(cnt + 1 + Home)

DllFits ==
  /\ st = "DLL_PRE" => Within(cnt + CNT_TDLLK + 16 + Home)
  /\ st = "DLL_TRP" => Within(cnt + CNT_TDLLK + 8 + Home)
  /\ st = "DLL_MRS" => Within(cnt + CNT_TDLLK + 6 + Home)
  /\ st = "DLL_TMRD" => Within(cnt + CNT_TDLLK + 2 + Home)
  /\ st = "DLL_TDLLK" => Within(dll_tdllk_cnt + 1 + Home)

OpenFits ==
  /\ st = "GETCMD" => \A cmd \in Commands, sz \in Sizes :
       Within(cnt + GapLeft + 9 + OpenTime(cmd, sz) + Home)
  /\ st = "ACTIVATE" => Within(cnt + GapLeft + 1 + OpenTime(cur.cmd, cur.sz) + Home)
  /\ st \in {"BLR_ACT", "BLW_ACT"} =>
       Within(cnt + 2 + TRCD_WAIT + ColumnTime(cur.cmd, cur.sz) + Home)
  /\ st = "WAIT_TRCD" => Within(cnt + 1 + ColumnTime(cur.cmd, cur.sz) + Home)

ReadFits ==
  /\ st = "ISSUE_READ" => Within(CNT_SCREAD + 11 + Home)
  /\ st = "SCREAD" => Within(cnt + 10 + Home)
  /\ st = "SCREND" => Within(cnt + 1 + Home)
  /\ st = "BLR_ISSUE" => Within(CNT_SCREAD + 3 + Home)
  /\ st = "BLR_READ" => Within(cnt + 2 + Home)
  /\ st = "SCRNLSN" => Within(1 + Home)

WriteFits ==
  /\ st = "ISSUE_WRITE" => Within(40 + Home)
  /\ st = "SCWRITE" => Within(cnt + 27 + Home)
  /\ st = "BLW_ISSUE" => Within(Burst(cur.sz) + BurstsLeft + Home)
  /\ st = "BLW_WRITE" => Within(cnt + Burst(cur.sz) - 13 + BurstsLeft + Home)
  /\ st = "SCWRDATA" => Within(cnt + 19 + AfterBurst + Home)
  /\ st = "SCWREND" => Within(cnt + 1 + AfterBurst + Home)

TimeFits == HomeFits /\ SleepFits /\ DllFits /\ OpenFits /\ ReadFits /\ WriteFits

\* The interval is measured from the first REF.
Measured ==
  /\ sinceRefresh \in 0..TREFI_MAX
  /\ seenRefresh \in BOOLEAN
  /\ ~seenRefresh => sinceRefresh = 0
  /\ seenRefresh \/ st # "IDLE" => ready

\* REF is on the pins for one clock.
RefreshOnce ==
  /\ st = "RREF" => cnt = 1
  /\ bus = "REF" => st = "RIDL" /\ cnt = CNT_RIDL

\* The counter runs down with the interval, and IDLE asks for self-refresh
\* on its own only before a refresh is due.
CountedDown ==
  /\ refCnt <= REF_CNT_INIT
  /\ st \notin Sleeping /\ bus # "REF" /\ refCnt > 0 => sinceRefresh + refCnt <= REF_CNT_INIT
  /\ st = "IDLE" /\ auto_selfref_req => sinceRefresh <= Due

\* The states the engine may stay in for ever have CKE low.
AsleepWithCkeLow ==
  /\ st = "SREF_ENTER" => selfref_active \/ cnt # 0
  /\ st = "SREF_IDLE" => selfref_active /\ selfref_active_o
  /\ st = "PD_IDLE" => pdown_active_o

RefreshInv == Measured /\ RefreshOnce /\ CountedDown /\ AsleepWithCkeLow /\ TimeFits

-----------------------------------------------------------------------------
(***************************************************************************)
(* What a clock does to the flags, the counter and the interval.           *)
(***************************************************************************)
(* The engine under a polite host is the engine.                             *)
LEMMA PoliteIsEngine == PoliteSpec => Spec
<1>1. RefreshInit => Init
  BY Zenon DEF RefreshInit
<1>2. [Step(PoliteHost)]_refreshVars => [Next]_vars
  BY Zenon DEF Step, refreshVars, Next
<1> QED BY <1>1, <1>2, PTL DEF PoliteSpec, Spec

(* The refresh counter runs on every clock, but is reloaded by REF and       *)
(* cleared after low power.                                                  *)
LEMMA RefreshCount ==
  ASSUME Clock
  PROVE  /\ st \notin Sleeping /\ st # "RREF" => refCnt' = RefCntTick
         /\ st = "RREF" => refCnt' = IF cnt = 1 THEN REF_CNT_INIT ELSE RefCntTick
         /\ st \in Sleeping => refCnt' \in {RefCntTick, 0, REF_CNT_INIT}
         /\ st \in {"SREF_EXIT_WAIT", "PD_EXIT_WAIT"} =>
              refCnt' = IF cnt = 0 THEN 0 ELSE RefCntTick
<1>1. CASE IdleArms
  <2>1. st = "IDLE" /\ TimersTick
    BY <1>1, Zenon DEF IdleArms, Idle, StartSelfRefresh, StartDll, StartPowerDown,
       StartRefresh, StartCommand, StayIdle
  <2> QED BY <2>1 DEF TimersTick, Sleeping
<1>2. CASE CommandArms
  <2>1. refCnt' = RefCntTick
    BY <1>2, Zenon DEF CommandArms, GetCommand, ActivateHold, ActivateScalar, ActivateBlock,
       ActivateDrop, WaitTrcd, IssueRead, ScalarRead, ScalarReadEnd, IssueWrite, ScalarWrite,
       WriteData, WriteEnd, WriteLatency, BlockReadActivate, BlockWriteActivate,
       BlockActivate, BlockReadIssue, BlockRead, DefaultArm, BlockWriteIssue, BlockWrite,
       Sequencing, Plain, TimersTick, RestartActGap
  <2>2. st # "RREF" /\ st \notin Sleeping
    BY <1>2 DEF CommandArms, GetCommand, ActivateHold, ActivateScalar, ActivateBlock,
       ActivateDrop, Activating, WaitTrcd, IssueRead, ScalarRead, ScalarReadEnd, IssueWrite,
       ScalarWrite, WriteData, WriteEnd, WriteLatency, BlockReadActivate, BlockWriteActivate,
       BlockActivate, BlockReadIssue, BlockRead, DefaultArm, BlockWriteIssue, BlockWrite,
       Dwell, Sleeping
  <2> QED BY <2>1, <2>2, Zenon DEF Sleeping
<1>3. CASE \/ RefreshPrecharge \/ RefreshWaitTrp \/ RefreshWaitTrfc
           \/ DllPrecharge \/ DllWaitTrp \/ DllModeSet \/ DllWaitTmrd \/ DllWaitTdllk
  <2>1. refCnt' = RefCntTick
    BY <1>3, Zenon DEF RefreshPrecharge, RefreshWaitTrp, RefreshWaitTrfc, DllPrecharge,
       DllWaitTrp, DllModeSet, DllWaitTmrd, DllWaitTdllk, DllArm, Sequencing, Plain, TimersTick
  <2>2. st # "RREF" /\ st \notin Sleeping
    BY <1>3 DEF RefreshPrecharge, RefreshWaitTrp, RefreshWaitTrfc, DllPrecharge, DllWaitTrp,
       DllModeSet, DllWaitTmrd, DllWaitTdllk, Dwell, Sleeping
  <2> QED BY <2>1, <2>2, Zenon DEF Sleeping
<1>4. CASE Refresh
  BY <1>4 DEF Refresh, Sleeping
<1>5. CASE \/ SelfRefreshPrecharge \/ SelfRefreshWaitTrp \/ SelfRefreshEnter
           \/ SelfRefreshIdle \/ ExitSelfRefresh \/ PowerDownPrecharge \/ PowerDownWaitTrp
           \/ PowerDownIdle \/ ExitPowerDown
  <2>1. refCnt' = RefCntTick
    BY <1>5, Zenon DEF SelfRefreshPrecharge, SelfRefreshWaitTrp, SelfRefreshEnter,
       SelfRefreshIdle, ExitSelfRefresh, PowerDownPrecharge, PowerDownWaitTrp,
       PowerDownIdle, ExitPowerDown, LowPowerArm
  <2>2. st \in Sleeping \ {"SREF_EXIT_WAIT", "PD_EXIT_WAIT"}
    BY <1>5 DEF SelfRefreshPrecharge, SelfRefreshWaitTrp, SelfRefreshEnter,
       SelfRefreshIdle, ExitSelfRefresh, PowerDownPrecharge, PowerDownWaitTrp,
       PowerDownIdle, ExitPowerDown, Dwell, Sleeping
  <2> QED BY <2>1, <2>2 DEF Sleeping
<1>6. CASE AbortSelfRefresh \/ AbortPowerDown
  <2>1. refCnt' = REF_CNT_INIT
    BY <1>6, Zenon DEF AbortSelfRefresh, AbortPowerDown, AbortEntry
  <2>2. st \in Sleeping \ {"SREF_EXIT_WAIT", "PD_EXIT_WAIT"}
    BY <1>6 DEF AbortSelfRefresh, AbortPowerDown, Sleeping
  <2> QED BY <2>1, <2>2 DEF Sleeping
<1>7. CASE SelfRefreshExitWait \/ PowerDownExitWait
  BY <1>7 DEF SelfRefreshExitWait, PowerDownExitWait, ExitWait, Dwell, Sleeping
<1> QED BY <1>1, <1>2, <1>3, <1>4, <1>5, <1>6, <1>7, Zenon DEF Clock, MaintenanceArms

(* The flags of low power.                                                   *)
LEMMA LowPowerFlags ==
  ASSUME Clock
  PROVE  /\ st = "SREF_ENTER" /\ st' # "IDLE" => selfref_active'
         /\ st = "SREF_ENTER" \/ st' = "SREF_IDLE" => selfref_active_o' = selfref_active
         /\ st = "SREF_IDLE" /\ st' = "SREF_IDLE" => selfref_active' = selfref_active
         /\ st = "PD_TRP" /\ st' = "PD_IDLE" => pdown_active_o'
         /\ st = "PD_IDLE" /\ st' = "PD_IDLE" => pdown_active_o' = pdown_active_o
<1>1. selfref_active_o' = selfref_active
  BY Zenon DEF Clock, DelayedOutputs
<1>2. st = "SREF_ENTER" /\ st' # "IDLE" => selfref_active'
  BY ArmOf DEF SelfRefreshEnter, AbortSelfRefresh, AbortEntry, Goto
<1>3. st = "SREF_IDLE" /\ st' = "SREF_IDLE" => selfref_active' = selfref_active
  BY ArmOf DEF SelfRefreshIdle, ExitSelfRefresh, Goto
<1>4. st = "PD_TRP" /\ st' = "PD_IDLE" => pdown_active_o'
  BY ArmOf DEF PowerDownWaitTrp, AbortPowerDown, AbortEntry, Dwell, Goto
<1>5. st = "PD_IDLE" /\ st' = "PD_IDLE" => pdown_active_o' = pdown_active_o
  BY ArmOf DEF PowerDownIdle, ExitPowerDown, Goto
<1> QED BY <1>1, <1>2, <1>3, <1>4, <1>5, Zenon

(* IDLE asks for self-refresh on its own only after a clock in IDLE without  *)
(* a refresh due.                                                            *)
LEMMA AutoRequest ==
  ASSUME Clock, auto_selfref_req'
  PROVE  st = "IDLE" /\ ready /\ ~need_refresh
<1>1. ~NotQuiet
  BY Zenon DEF NotQuiet
<1>2. IdleArms
  <2>1. ~CommandArms
    BY <1>1, Zenon DEF CommandArms, GetCommand, ActivateHold, ActivateScalar, ActivateBlock,
       ActivateDrop, Activating, WaitTrcd, IssueRead, ScalarRead, ScalarReadEnd, IssueWrite,
       ScalarWrite, WriteData, WriteEnd, WriteLatency, BlockReadActivate, BlockWriteActivate,
       BlockActivate, BlockReadIssue, BlockRead, DefaultArm, BlockWriteIssue, BlockWrite,
       Sequencing, Plain
  <2>2. ~MaintenanceArms
    BY <1>1, Zenon DEF MaintenanceArms, RefreshPrecharge, RefreshWaitTrp, Refresh,
       RefreshWaitTrfc, SelfRefreshPrecharge, SelfRefreshWaitTrp, SelfRefreshEnter,
       AbortSelfRefresh, SelfRefreshIdle, ExitSelfRefresh, SelfRefreshExitWait,
       PowerDownPrecharge, PowerDownWaitTrp, AbortPowerDown, PowerDownIdle, ExitPowerDown,
       PowerDownExitWait, ExitWait, AbortEntry, LowPowerArm, LowPowerFrame, DllPrecharge,
       DllWaitTrp, DllModeSet, DllWaitTmrd, DllWaitTdllk, DllArm, Sequencing, Plain
  <2> QED BY <2>1, <2>2, Zenon DEF Clock
<1>3. ~StartSelfRefresh
  BY Zenon DEF StartSelfRefresh
<1>4. Idle /\ \E nonempty \in BOOLEAN : AutoRequestTick(nonempty)
  BY <1>2, <1>3, Zenon DEF IdleArms, StartDll, StartPowerDown, StartRefresh, StartCommand,
     StayIdle
<1> QED BY <1>4, Zenon DEF Idle, AutoRequestTick, QuietCycle

(* What IDLE starts: a refresh that is due, unless self-refresh was asked    *)
(* for before it was due.                                                    *)
LEMMA IdleChoice ==
  ASSUME QuietInv, Clock, PoliteHost, st = "IDLE"
  PROVE  /\ ~ready => st' = "IDLE"
         /\ need_refresh => /\ cnt' = 1
                            /\ st' = IF auto_selfref_req THEN "SREF_PRE" ELSE "RPRE"
<1>1. IdleArms
  BY ArmOf
<1>2. LowPowerOff
  <2>1. st \notin {"SREF_ENTER", "SREF_IDLE"} /\ st # "PD_IDLE"
    OBVIOUS
  <2> QED BY <2>1, Zenon DEF QuietInv, LowPowerOff
<1>3. ~ready => st' = "IDLE"
  BY <1>1, Zenon DEF IdleArms, StartSelfRefresh, StartDll, StartPowerDown, StartRefresh,
     StartCommand, StayIdle, WantsSelfRefresh, AcceptsDll, AcceptsPowerDown, WantsRefresh,
     need_refresh, FetchesCommand, Goto
<1>4. ASSUME need_refresh
      PROVE  cnt' = 1 /\ st' = IF auto_selfref_req THEN "SREF_PRE" ELSE "RPRE"
  <2>1. ready /\ WantsRefresh
    BY <1>2, <1>4, Zenon DEF need_refresh, WantsRefresh
  <2>2. ~StartDll /\ ~StartPowerDown /\ ~StartCommand /\ ~StayIdle
    BY <1>4, <2>1, Zenon DEF StartDll, StartPowerDown, StartCommand, StayIdle, AcceptsDll,
       AcceptsPowerDown
  <2>3. CASE auto_selfref_req
    <3>1. WantsSelfRefresh(FALSE)
      BY <1>2, <2>1, <2>3, Zenon DEF WantsSelfRefresh
    <3>2. StartSelfRefresh
      BY <1>1, <2>2, <3>1, Zenon DEF IdleArms, StartRefresh
    <3> QED BY <2>3, <3>2, Zenon DEF StartSelfRefresh, Goto, CNT_RPRE
  <2>4. CASE ~auto_selfref_req
    <3>1. st' # "SREF_PRE"
      BY <1>4, <2>4, Zenon DEF PoliteHost
    <3>2. StartRefresh
      BY <1>1, <2>2, <3>1, Zenon DEF IdleArms, StartSelfRefresh, Goto
    <3> QED BY <2>4, <3>2, Zenon DEF StartRefresh, Goto, CNT_RPRE
  <2> QED BY <2>3, <2>4
<1> QED BY <1>3, <1>4

(* Outside low power both flags are down.                                    *)
LEMMA AwakeFlags ==
  ASSUME QuietInv, st \notin Sleeping
  PROVE  ~selfref_active /\ ~pdown_active_o
<1>1. st \notin {"SREF_ENTER", "SREF_IDLE"} /\ st # "PD_IDLE"
  BY DEF Sleeping
<1> QED BY <1>1, Zenon DEF QuietInv

(* The interval restarts after REF, and grows by no more than a clock.       *)
LEMMA Elapsed ==
  ASSUME sinceRefresh \in Nat, seenRefresh \in BOOLEAN, Measure
  PROVE  \E s \in Nat :
           /\ sinceRefresh' = s /\ s <= sinceRefresh + 1
           /\ bus = "REF" \/ ~seenRefresh => s = 0
           /\ ~CkeHigh => s <= sinceRefresh
<1>1. CASE bus = "REF" \/ ~seenRefresh
  BY <1>1 DEF Measure
<1>2. CASE /\ ~(bus = "REF" \/ ~seenRefresh)
           /\ CkeHigh /\ sinceRefresh <= TREFI_MAX
  BY <1>2 DEF Measure
<1>3. CASE /\ ~(bus = "REF" \/ ~seenRefresh)
           /\ ~(CkeHigh /\ sinceRefresh <= TREFI_MAX)
  BY <1>3 DEF Measure
<1> QED BY <1>1, <1>2, <1>3

-----------------------------------------------------------------------------
(***************************************************************************)
(* Times.                                                                  *)
(***************************************************************************)
(* The waits are counts.                                                     *)
LEMMA Waits ==
  /\ TRCD_WAIT \in Nat /\ CNT_SCREAD \in Nat /\ CNT_TDLLK \in Nat
  /\ CNT_SELFREF_TXSR \in Nat /\ CNT_PDOWN_TXP \in Nat /\ CNT_RIDL \in Nat
  /\ REF_CNT_INIT \in Nat /\ REF_THRESH \in Nat /\ TREFI_MAX \in Nat
<1>1. /\ TRCD_WAIT \in Nat /\ CNT_SCREAD \in Nat
      /\ CNT_SELFREF_TXSR \in Nat /\ CNT_PDOWN_TXP \in Nat /\ CNT_RIDL \in Nat
  BY ParameterTypes DEF Word7
<1>2. CNT_TDLLK \in Nat
  BY TdllkTypes, WordSizes DEF Word16
<1>3. REF_CNT_INIT \in Nat /\ REF_THRESH \in Nat
  BY WordSizes, TimingAssumption DEF REF_CNT_INIT, REF_THRESH
<1> QED BY <1>1, <1>2, <1>3, IntervalAssumption

(* The bursts of a block write, one after the other.                         *)
LEMMA BurstTimes ==
  ASSUME NEW sz \in 0..3, NEW n \in 0..3
  PROVE  /\ Burst(sz) \in Nat /\ Bursts(sz, n) \in Nat
         /\ cnt_scwrdata_sz(sz) = Burst(sz) - 33
         /\ Bursts(sz, n) <= Bursts(sz, 0)
         /\ n < sz => Bursts(sz, n) = Burst(sz) + Bursts(sz, n + 1)
  BY DEF Burst, Bursts, cnt_scwrdata_sz

(* The time of each command's columns.                                       *)
LEMMA ColumnTimes ==
  ASSUME NEW cmd \in Commands, NEW sz \in 0..3
  PROVE  /\ ColumnTime(cmd, sz) \in Nat
         /\ cmd = "SCR" => ColumnTime(cmd, sz) = CNT_SCREAD + 11
         /\ cmd = "SCW" => ColumnTime(cmd, sz) = 40
         /\ cmd = "BLR" => ColumnTime(cmd, sz) = CNT_SCREAD + 3
         /\ cmd = "BLW" => ColumnTime(cmd, sz) = Burst(sz) + Bursts(sz, 0)
<1>1. Burst(sz) \in Nat /\ Bursts(sz, 0) \in Nat /\ CNT_SCREAD \in Nat
  BY BurstTimes, Waits
<1> QED BY <1>1 DEF ColumnTime, Commands


-----------------------------------------------------------------------------
(***************************************************************************)
(* The time left, group by group; s is the interval after the clock.       *)
(***************************************************************************)
(* What the steps compute with.                                              *)
LEMMA Words ==
  ASSUME TypeOK, RefreshInv
  PROVE  /\ st \in States /\ cnt \in Nat /\ refCnt \in Nat /\ dll_tdllk_cnt \in Nat
         /\ cur.cmd \in Commands /\ cur.sz \in 0..3 /\ blk_cnt \in 0..3
         /\ sinceRefresh \in Nat /\ seenRefresh \in BOOLEAN
         /\ TRCD_WAIT \in Nat /\ CNT_SCREAD \in Nat /\ CNT_TDLLK \in Nat
         /\ CNT_SELFREF_TXSR \in Nat /\ CNT_PDOWN_TXP \in Nat /\ CNT_RIDL \in Nat
         /\ REF_CNT_INIT \in Nat /\ REF_THRESH \in Nat /\ TREFI_MAX \in Nat
<1>1. sinceRefresh \in Nat /\ seenRefresh \in BOOLEAN
  BY Waits DEF RefreshInv, Measured
<1>2. refCnt \in Nat
  BY WordSizes DEF TypeOK, CounterType, Word12
<1>3. blk_cnt \in 0..3
  BY DEF TypeOK, BurstType, Word2
<1>4. cnt \in Nat
  BY StateTypes
<1> QED BY <1>1, <1>2, <1>3, <1>4, StateTypes, Waits

(* Self-refresh and power-down: asleep, the interval stands still.           *)
LEMMA SleepInTime ==
  ASSUME TypeOK, RefreshInv, Clock, PoliteHost, SelfRefreshMove \/ PowerDownMove,
         NEW s \in Nat, sinceRefresh' = s, s <= sinceRefresh + 1, ~CkeHigh => s <= sinceRefresh
  PROVE  TimeFits'
<1> USE DEF Within, Home
<1>1. CASE SelfRefreshMove
  <2>1. st = "SREF_IDLE" => s <= sinceRefresh
    BY DEF RefreshInv, AsleepWithCkeLow, CkeHigh
  <2>2. st \in {"SREF_PRE", "SREF_TRP", "SREF_ENTER"} => st' # "IDLE"
    BY DEF PoliteHost
  <2>3. /\ st' \in {"SREF_PRE", "SREF_TRP", "SREF_ENTER", "SREF_IDLE", "SREF_EXIT_WAIT", "IDLE"}
        /\ HomeFits' /\ SleepFits'
    BY <1>1, <2>1, <2>2, Words DEF RefreshInv, TimeFits, SleepFits, HomeFits, SelfRefreshMove,
       Moves, Dwell, Goto, CntTick, CNT_RNOP
  <2> QED BY <2>3 DEF TimeFits, DllFits, OpenFits, ReadFits, WriteFits
<1>2. CASE PowerDownMove
  <2>1. st = "PD_IDLE" => s <= sinceRefresh
    BY DEF RefreshInv, AsleepWithCkeLow, CkeHigh
  <2>2. st \in {"PD_PRE", "PD_TRP"} => st' # "IDLE"
    BY DEF PoliteHost
  <2>3. /\ st' \in {"PD_PRE", "PD_TRP", "PD_IDLE", "PD_EXIT_WAIT", "IDLE"}
        /\ HomeFits' /\ SleepFits'
    BY <1>2, <2>1, <2>2, Words DEF RefreshInv, TimeFits, SleepFits, HomeFits, PowerDownMove,
       Moves, Dwell, Goto, CntTick, CNT_RNOP
  <2> QED BY <2>3 DEF TimeFits, DllFits, OpenFits, ReadFits, WriteFits
<1> QED BY <1>1, <1>2

(* The refresh itself: REF ends the interval.                                *)
LEMMA RefreshInTime ==
  ASSUME TypeOK, RefreshInv, SettingsFit, Clock, RefreshMove,
         NEW s \in Nat, sinceRefresh' = s, s <= sinceRefresh + 1, bus = "REF" => s = 0
  PROVE  TimeFits'
<1> USE DEF Within, Home
<1>1. CNT_RIDL + 1 + Home <= TREFI_MAX
  BY DEF SettingsFit
<1>2. st' \in {"RPRE", "RNOP", "RREF", "RIDL", "IDLE"} /\ HomeFits'
  BY <1>1, Words DEF RefreshInv, RefreshOnce, TimeFits, HomeFits, RefreshMove, Moves, Dwell,
     Goto, CntTick, CNT_RNOP, CNT_RREF
<1> QED BY <1>2 DEF TimeFits, SleepFits, DllFits, OpenFits, ReadFits, WriteFits

(* The DLL change.                                                           *)
LEMMA DllInTime ==
  ASSUME TypeOK, RefreshInv, Clock, DllMove,
         NEW s \in Nat, sinceRefresh' = s, s <= sinceRefresh + 1
  PROVE  TimeFits'
<1> USE DEF Within, Home
<1>1. /\ st = "DLL_TMRD" /\ cnt = 0 => dll_tdllk_cnt' = CNT_TDLLK
      /\ st = "DLL_TDLLK" /\ st' = "DLL_TDLLK" => dll_tdllk_cnt # 0 /\ dll_tdllk_cnt' = dll_tdllk_cnt - 1
  BY ArmOf DEF DllWaitTmrd, DllWaitTdllk, Goto
<1>2. /\ st' \in {"DLL_PRE", "DLL_TRP", "DLL_MRS", "DLL_TMRD", "DLL_TDLLK", "IDLE"}
      /\ HomeFits' /\ DllFits'
  BY <1>1, Words DEF RefreshInv, TimeFits, HomeFits, DllFits, DllMove, Moves, Dwell, Goto,
     CntTick, CNT_RNOP, CNT_TMRD
<1> QED BY <1>2 DEF TimeFits, SleepFits, OpenFits, ReadFits, WriteFits

(* Reading.                                                                  *)
LEMMA ReadInTime ==
  ASSUME TypeOK, CommandInv, RefreshInv, Clock, ReadMove,
         NEW s \in Nat, sinceRefresh' = s, s <= sinceRefresh + 1
  PROVE  TimeFits'
<1> USE DEF Within, Home
<1>1. st = "SCREND" => cur.cmd # "BLR"
  BY DEF CommandInv, CommandsIn
<1>2. /\ st' \in {"SCREAD", "SCREND", "BLR_READ", "SCRNLSN", "IDLE"}
      /\ HomeFits' /\ ReadFits'
  BY <1>1, Words DEF RefreshInv, TimeFits, HomeFits, ReadFits, ReadMove, Moves, Dwell, Goto,
     CntTick, CNT_SCRNLSN
<1> QED BY <1>2 DEF TimeFits, SleepFits, DllFits, OpenFits, WriteFits

(* Writing: a block goes on until its last burst.                            *)
LEMMA WriteInTime ==
  ASSUME TypeOK, CommandInv, RefreshInv, Clock, WriteMove,
         NEW s \in Nat, sinceRefresh' = s, s <= sinceRefresh + 1
  PROVE  TimeFits'
<1> USE DEF Within, Home
<1>1. cur' = cur
  BY ClockMoves DEF WriteMove, Moves, Dwell, KeepsCommand
<1>2. /\ Burst(cur.sz) \in Nat /\ BurstsLeft \in Nat /\ AfterBurst \in Nat
      /\ cnt_scwrdata_sz(cur.sz) = Burst(cur.sz) - 33
  <2>1. /\ Burst(cur.sz) \in Nat /\ BurstsLeft \in Nat
        /\ cnt_scwrdata_sz(cur.sz) = Burst(cur.sz) - 33
    BY Words, BurstTimes DEF BurstsLeft
  <2>2. AfterBurst \in {BurstsLeft, 0}
    BY DEF AfterBurst
  <2> QED BY <2>1, <2>2
<1>3. CASE st = "SCWREND" /\ cnt = 0
  <2>1. CASE from_blw /\ blk_cnt < cur.sz
    <3>1. st' = "BLW_ISSUE" /\ blk_cnt' = blk_cnt + 1
      BY <1>3, <2>1, BurstCounts
    <3>2. AfterBurst = Burst(cur.sz) + Bursts(cur.sz, blk_cnt + 1)
      BY <2>1, Words, BurstTimes DEF AfterBurst, BurstsLeft
    <3>3. BurstsLeft' = Bursts(cur.sz, blk_cnt + 1) /\ Burst(cur.sz)' = Burst(cur.sz)
      BY <1>1, <3>1 DEF BurstsLeft, Bursts, Burst
    <3>4. sinceRefresh + (1 + AfterBurst + 12) <= TREFI_MAX
      BY <1>2, <1>3, Words DEF RefreshInv, TimeFits, WriteFits
    <3>5. Bursts(cur.sz, blk_cnt + 1) \in Nat
      <4>1. blk_cnt + 1 \in 0..3
        BY <2>1, Words
      <4> QED BY <4>1, Words, BurstTimes
    <3>6. WriteFits'
      BY <1>2, <3>1, <3>2, <3>3, <3>4, <3>5, Words DEF WriteFits
    <3> QED BY <3>1, <3>6 DEF TimeFits, HomeFits, SleepFits, DllFits, OpenFits, ReadFits
  <2>2. CASE ~(from_blw /\ blk_cnt < cur.sz)
    <3>1. st' = "IDLE"
      BY <1>3, <2>2, BurstCounts
    <3>2. HomeFits'
      BY <1>2, <1>3, <3>1, Words DEF RefreshInv, TimeFits, WriteFits, HomeFits
    <3> QED BY <3>1, <3>2 DEF TimeFits, SleepFits, DllFits, OpenFits, ReadFits, WriteFits
  <2> QED BY <2>1, <2>2
<1>4. CASE ~(st = "SCWREND" /\ cnt = 0)
  <2>1. st # "ISSUE_WRITE" /\ st # "SCWRITE" => blk_cnt' = blk_cnt
    BY <1>4, BurstCounts, Zenon DEF WriteMove, Moves, Dwell
  <2>2. /\ Burst(cur.sz)' = Burst(cur.sz)
        /\ st # "ISSUE_WRITE" /\ st # "SCWRITE" => BurstsLeft' = BurstsLeft
    BY <1>1, <2>1 DEF BurstsLeft, Bursts, Burst
  <2>3. /\ st = "SCWRITE" => AfterBurst' = 0
        /\ st = "BLW_WRITE" => AfterBurst' = BurstsLeft
        /\ st \in {"SCWRDATA", "SCWREND"} => AfterBurst' = AfterBurst
    <3>1. AfterBurst' = IF from_blw' THEN BurstsLeft' ELSE 0
      BY DEF AfterBurst
    <3>2. /\ st = "SCWRITE" => ~from_blw'
          /\ st = "BLW_WRITE" => from_blw'
          /\ st \in {"SCWRDATA", "SCWREND"} => from_blw' = from_blw
      BY BurstMoves, Zenon
    <3>3. st \in {"BLW_WRITE", "SCWRDATA", "SCWREND"} => BurstsLeft' = BurstsLeft
      BY <2>2
    <3>4. /\ st = "SCWRITE" => AfterBurst' = 0
          /\ st = "BLW_WRITE" => AfterBurst' = BurstsLeft
      BY <3>1, <3>2, <3>3
    <3>5. ASSUME st \in {"SCWRDATA", "SCWREND"} PROVE AfterBurst' = AfterBurst
      <4>1. BurstsLeft' = BurstsLeft
        BY <3>3, <3>5
      <4>2. from_blw' = from_blw
        BY <3>2, <3>5, Zenon
      <4> QED BY <3>1, <4>1, <4>2, Zenon DEF AfterBurst
    <3> QED BY <3>4, <3>5
  <2>4. st' \in {"SCWRITE", "BLW_WRITE", "SCWRDATA", "SCWREND"}
    BY <1>4 DEF WriteMove, Moves, Dwell, Goto
  <2>5. WriteFits'
    BY <1>2, <1>4, <2>2, <2>3, Words DEF RefreshInv, TimeFits, WriteFits, WriteMove, Moves, Dwell,
       Goto, CntTick, CNT_SCWRITE, CNT_SCWRDATA_SCW, CNT_SCWREND
  <2> QED BY <2>4, <2>5 DEF TimeFits, HomeFits, SleepFits, DllFits, OpenFits, ReadFits
<1> QED BY <1>3, <1>4

(* The ACT gap shrinks with every clock until it is met.                     *)
LEMMA GapTicks ==
  ASSUME TypeOK, TimersTick
  PROVE  /\ GapLeft \in Nat
         /\ \E g \in Nat : GapLeft' = g /\ g <= GapLeft /\ (~ActGapMet => g + 1 <= GapLeft)
<1>1. act_gap_cnt \in 0..63
  BY StateTypes
<1>2. CASE ActGapMet
  <2>1. ActGapMet'
    BY <1>1, <1>2 DEF TimersTick, ActGapMet, ActGapTick, ACT_GAP_MIN, ACT_GAP_MAX
  <2> QED BY <1>2, <2>1 DEF GapLeft
<1>3. CASE ~ActGapMet
  <2>1. act_gap_cnt < 6 /\ have_act_any
    BY <1>1, <1>3 DEF ActGapMet, ACT_GAP_MIN
  <2>2. act_gap_cnt' = act_gap_cnt + 1
    BY <1>1, <2>1 DEF TimersTick, ActGapTick, ACT_GAP_MAX
  <2>3. GapLeft = 6 - act_gap_cnt
    BY <1>3 DEF GapLeft, ACT_GAP_MIN
  <2>4. CASE ActGapMet'
    <3>1. GapLeft' = 0
      BY <2>4 DEF GapLeft
    <3> QED BY <1>1, <2>1, <2>3, <3>1
  <2>5. CASE ~ActGapMet'
    <3>1. GapLeft' = 6 - (act_gap_cnt + 1)
      BY <2>2, <2>5 DEF GapLeft, ACT_GAP_MIN
    <3> QED BY <1>1, <2>1, <2>3, <3>1
  <2> QED BY <2>4, <2>5
<1> QED BY <1>2, <1>3

(* It is six clocks long where it starts.                                    *)
LEMMA GapStarts ==
  ASSUME RestartActGap
  PROVE  GapLeft' = 6
  BY DEF RestartActGap, GapLeft, ActGapMet, ACT_GAP_MIN

(* GETCMD and ACTIVATE end when their count and the gap have run out.        *)
LEMMA GapHolds ==
  ASSUME TypeOK, Clock, st \in {"GETCMD", "ACTIVATE"}, st' = st
  PROVE  /\ GapLeft \in Nat
         /\ \E c, g \in Nat : cnt' = c /\ GapLeft' = g /\ c + g + 1 <= cnt + GapLeft
         /\ UNCHANGED cur
<1>1. /\ TimersTick /\ UNCHANGED cur /\ cnt' = CntTick
      /\ cnt # 0 \/ ~ActGapMet
  <2>1. CASE st = "GETCMD"
    BY <2>1, ArmOf DEF GetCommand, Goto
  <2>2. CASE st = "ACTIVATE"
    BY <2>2, ArmOf DEF ActivateHold, ActivateScalar, ActivateBlock, ActivateDrop,
       Activating, Goto
  <2> QED BY <2>1, <2>2
<1>2. PICK g \in Nat : GapLeft' = g /\ g <= GapLeft /\ (~ActGapMet => g + 1 <= GapLeft)
  BY <1>1, GapTicks
<1>3. GapLeft \in Nat /\ cnt \in Nat
  BY <1>1, GapTicks, StateTypes
<1>4. PICK c \in Nat : cnt' = c /\ (cnt # 0 => c + 1 = cnt) /\ (cnt = 0 => c = 0)
  BY <1>1, <1>3 DEF CntTick
<1>5. c + g + 1 <= cnt + GapLeft
  BY <1>1, <1>2, <1>3, <1>4
<1> QED BY <1>1, <1>2, <1>3, <1>4, <1>5

(* Fetching, activating, and waiting for the row.                            *)
LEMMA OpenInTime ==
  ASSUME TypeOK, CommandInv, RefreshInv, Clock, FetchMove \/ ActivateMove \/ OpenMove,
         NEW s \in Nat, sinceRefresh' = s, s <= sinceRefresh + 1
  PROVE  TimeFits'
<1>a. /\ ColumnTime(cur.cmd, cur.sz) \in Nat
      /\ \A cmd \in Commands, sz \in Sizes : ColumnTime(cmd, sz) \in Nat
  BY Words, ColumnTimes, GeometryAssumption
<1>b. st # "GETCMD" => cur' = cur
  BY ClockMoves, Zenon DEF KeepsCommand
<1>1. CASE st \in {"GETCMD", "ACTIVATE"} /\ st' = st
  <2>1. GapLeft \in Nat /\ UNCHANGED cur
    BY <1>1, GapHolds
  <2>2. PICK c, g \in Nat : cnt' = c /\ GapLeft' = g /\ c + g + 1 <= cnt + GapLeft
    BY <1>1, GapHolds
  <2>3. CASE st = "GETCMD"
    <3>1. ASSUME NEW cmd \in Commands, NEW sz \in Sizes
          PROVE  Within(cnt + GapLeft + 9 + OpenTime(cmd, sz) + Home)'
      <4>1. Within(cnt + GapLeft + 9 + OpenTime(cmd, sz) + Home)
        BY <2>3 DEF RefreshInv, TimeFits, OpenFits
      <4>2. OpenTime(cmd, sz) \in Nat
        BY <1>a, Words DEF OpenTime
      <4> QED BY <2>1, <2>2, <4>1, <4>2, Words DEF Within, Home
    <3>2. OpenFits'
      BY <1>1, <2>3, <3>1 DEF OpenFits
    <3> QED BY <1>1, <2>3, <3>2 DEF TimeFits, HomeFits, SleepFits, DllFits, ReadFits, WriteFits
  <2>4. CASE st = "ACTIVATE"
    <3>1. Within(cnt + GapLeft + 1 + OpenTime(cur.cmd, cur.sz) + Home)
      BY <2>4 DEF RefreshInv, TimeFits, OpenFits
    <3>2. OpenTime(cur.cmd, cur.sz) \in Nat
      BY <1>a, Words DEF OpenTime
    <3>3. OpenTime(cur.cmd, cur.sz)' = OpenTime(cur.cmd, cur.sz)
      BY <2>1 DEF OpenTime
    <3>4. Within(cnt + GapLeft + 1 + OpenTime(cur.cmd, cur.sz) + Home)'
      BY <2>1, <2>2, <3>1, <3>2, <3>3, Words DEF Within, Home
    <3>5. OpenFits'
      BY <1>1, <2>4, <3>4 DEF OpenFits
    <3> QED BY <1>1, <2>4, <3>5 DEF TimeFits, HomeFits, SleepFits, DllFits, ReadFits, WriteFits
  <2> QED BY <1>1, <2>3, <2>4
<1>2. CASE st = "GETCMD" /\ st' # "GETCMD"
  <2>1. /\ st' = "ACTIVATE" /\ cnt = 0 /\ cnt' = 1 /\ ActGapMet
        /\ cur'.cmd \in Commands /\ cur'.sz \in Sizes /\ RestartActGap
    BY <1>2, ArmOf DEF GetCommand, Goto, CNT_ACTIVATE
  <2>2. GapLeft = 0 /\ GapLeft' = 6
    BY <2>1, GapStarts DEF GapLeft
  <2>3. PICK cmd \in Commands, sz \in Sizes : cur'.cmd = cmd /\ cur'.sz = sz
    BY <2>1
  <2>4. Within(9 + OpenTime(cmd, sz) + Home)
    <3>1. Within(0 + 0 + 9 + OpenTime(cmd, sz) + Home)
      BY <1>2, <2>1, <2>2 DEF RefreshInv, TimeFits, OpenFits
    <3> QED BY <3>1
  <2>5. OpenTime(cmd, sz) \in Nat
    BY <1>a, Words DEF OpenTime
  <2>6. OpenTime(cur.cmd, cur.sz)' = OpenTime(cmd, sz)
    BY <2>3 DEF OpenTime
  <2>7. Within(cnt + GapLeft + 1 + OpenTime(cur.cmd, cur.sz) + Home)'
    BY <2>1, <2>2, <2>4, <2>5, <2>6, Words DEF Within, Home
  <2> QED BY <2>1, <2>7 DEF TimeFits, OpenFits, HomeFits, SleepFits, DllFits, ReadFits, WriteFits
<1>3. CASE st = "ACTIVATE" /\ st' # "ACTIVATE"
  <2>1. /\ cnt = 0
        /\ \/ Goto("WAIT_TRCD", TRCD_WAIT) \/ Goto("IDLE", CntTick)
           \/ Goto("BLR_ACT", 1) \/ Goto("BLW_ACT", 1)
    BY <1>3 DEF FetchMove, ActivateMove, OpenMove, Moves, Dwell, Goto, CNT_ACTIVATE
  <2>2. Within(0 + GapLeft + 1 + OpenTime(cur.cmd, cur.sz) + Home) /\ cur' = cur
    BY <1>b, <1>3, <2>1 DEF RefreshInv, TimeFits, OpenFits
  <2>3. GapLeft \in Nat
    BY StateTypes DEF GapLeft, ActGapMet, ACT_GAP_MIN
  <2>4. ColumnTime(cur.cmd, cur.sz)' = ColumnTime(cur.cmd, cur.sz)
    BY <2>2
  <2>5. OpenFits' /\ HomeFits'
    BY <1>a, <2>1, <2>2, <2>3, <2>4, Words DEF OpenFits, HomeFits, Goto, OpenTime, Within, Home
  <2>6. st' \in {"WAIT_TRCD", "IDLE", "BLR_ACT", "BLW_ACT"}
    BY <2>1 DEF Goto
  <2> QED BY <2>5, <2>6 DEF TimeFits, SleepFits, DllFits, ReadFits, WriteFits
<1>4. CASE st \in {"BLR_ACT", "BLW_ACT"} \/ (st = "WAIT_TRCD" /\ st' = "WAIT_TRCD")
  <2>1. PICK t \in Nat : ColumnTime(cur.cmd, cur.sz) = t /\ ColumnTime(cur.cmd, cur.sz)' = t
    <3>1. ColumnTime(cur.cmd, cur.sz)' = ColumnTime(cur.cmd, cur.sz)
      BY <1>b, <1>4
    <3> QED BY <1>a, <3>1
  <2>2. IF cnt = 0 THEN st # "WAIT_TRCD" /\ Goto("WAIT_TRCD", TRCD_WAIT) ELSE Goto(st, CntTick)
    BY <1>4, StateTypes DEF FetchMove, ActivateMove, OpenMove, Moves, Dwell, Goto
  <2>3. CASE st # "WAIT_TRCD"
    <3>1. sinceRefresh + (cnt + 2 + TRCD_WAIT + t + 12) <= TREFI_MAX
      BY <1>4, <2>1, <2>3 DEF RefreshInv, TimeFits, OpenFits, Within, Home
    <3>2. CASE cnt = 0
      <4>1. st' = "WAIT_TRCD" /\ Within(cnt + 1 + ColumnTime(cur.cmd, cur.sz) + Home)'
        BY <2>1, <2>2, <2>3, <3>1, <3>2, Words DEF Goto, Within, Home
      <4> QED BY <4>1 DEF TimeFits, OpenFits, HomeFits, SleepFits, DllFits, ReadFits, WriteFits
    <3>3. CASE cnt # 0
      <4>1. /\ st' \in {"BLR_ACT", "BLW_ACT"}
            /\ Within(cnt + 2 + TRCD_WAIT + ColumnTime(cur.cmd, cur.sz) + Home)'
        BY <1>4, <2>1, <2>2, <2>3, <3>1, <3>3, Words DEF Goto, CntTick, Within, Home
      <4> QED BY <4>1 DEF TimeFits, OpenFits, HomeFits, SleepFits, DllFits, ReadFits, WriteFits
    <3> QED BY <3>2, <3>3
  <2>4. CASE st = "WAIT_TRCD"
    <3>1. sinceRefresh + (cnt + 1 + t + 12) <= TREFI_MAX
      BY <2>1, <2>4 DEF RefreshInv, TimeFits, OpenFits, Within, Home
    <3>2. st' = "WAIT_TRCD" /\ Within(cnt + 1 + ColumnTime(cur.cmd, cur.sz) + Home)'
      BY <2>1, <2>2, <2>4, <3>1, Words DEF Goto, CntTick, Within, Home
    <3> QED BY <3>2 DEF TimeFits, OpenFits, HomeFits, SleepFits, DllFits, ReadFits, WriteFits
  <2> QED BY <2>3, <2>4
<1>5. CASE st = "WAIT_TRCD" /\ st' # "WAIT_TRCD"
  <2>1. /\ cnt = 0 /\ st' = FirstColumn[cur.cmd] /\ cur.cmd \in DOMAIN FirstColumn
        /\ cur' = cur
    BY <1>b, <1>5 DEF CommandInv, FetchMove, ActivateMove, OpenMove, Moves, Dwell, Goto
  <2>2. Within(0 + 1 + ColumnTime(cur.cmd, cur.sz) + Home)
    BY <1>5, <2>1 DEF RefreshInv, TimeFits, OpenFits
  <2>3. st' = "BLW_ISSUE" => Burst(cur.sz)' + BurstsLeft' <= ColumnTime(cur.cmd, cur.sz)
    <3>1. blk_cnt' = blk_cnt
      BY <1>5, BurstCounts
    <3>2. st' = "BLW_ISSUE" => cur.cmd = "BLW"
      BY <2>1 DEF FirstColumn
    <3>3. BurstsLeft' = Bursts(cur.sz, blk_cnt) /\ Burst(cur.sz)' = Burst(cur.sz)
      BY <2>1, <3>1 DEF BurstsLeft
    <3> QED BY <3>2, <3>3, Words, ColumnTimes, BurstTimes
  <2>4. /\ cur.cmd = "SCR" => st' = "ISSUE_READ" /\ Within(CNT_SCREAD + 11 + Home)'
        /\ cur.cmd = "SCW" => st' = "ISSUE_WRITE" /\ Within(40 + Home)'
        /\ cur.cmd = "BLR" => st' = "BLR_ISSUE" /\ Within(CNT_SCREAD + 3 + Home)'
    BY <2>1, <2>2, Words, ColumnTimes DEF FirstColumn, Within, Home
  <2>5. CASE cur.cmd = "BLW"
    <3>1. st' = "BLW_ISSUE"
      BY <2>1, <2>5 DEF FirstColumn
    <3>2. Burst(cur.sz)' \in Nat /\ BurstsLeft' \in Nat
      <4>1. blk_cnt' = blk_cnt
        BY <1>5, BurstCounts
      <4> QED BY <2>1, <4>1, Words, BurstTimes DEF BurstsLeft
    <3>3. Within(Burst(cur.sz) + BurstsLeft + Home)'
      BY <1>a, <2>2, <2>3, <3>1, <3>2, Words DEF Within, Home
    <3> QED BY <3>1, <3>3 DEF TimeFits, WriteFits, OpenFits, HomeFits, SleepFits, DllFits, ReadFits
  <2>6. cur.cmd \in {"SCR", "SCW", "BLR", "BLW"}
    BY <2>1 DEF FirstColumn
  <2> QED BY <2>4, <2>5, <2>6
          DEF TimeFits, WriteFits, OpenFits, HomeFits, SleepFits, DllFits, ReadFits
<1>6. st \in {"GETCMD", "ACTIVATE", "BLR_ACT", "BLW_ACT", "WAIT_TRCD"}
  BY DEF FetchMove, ActivateMove, OpenMove, Moves, Dwell
<1> QED BY <1>1, <1>2, <1>3, <1>4, <1>5, <1>6

(* IDLE: before a refresh is due the settings leave time for what it starts. *)
LEMMA IdleInTime ==
  ASSUME TypeOK, QuietInv, RefreshInv, SettingsFit, Clock, PoliteHost, st = "IDLE",
         NEW s \in Nat, sinceRefresh' = s, s <= sinceRefresh + 1, ~seenRefresh => s = 0
  PROVE  TimeFits'
<1>1. CASE ~ready
  <2>1. st' = "IDLE" /\ s = 0
    BY <1>1, IdleChoice DEF RefreshInv, Measured
  <2>2. HomeFits'
    BY <2>1, Words DEF SettingsFit, HomeFits, Within, Home
  <2> QED BY <2>1, <2>2 DEF TimeFits, SleepFits, DllFits, OpenFits, ReadFits, WriteFits
<1>2. Due \in Nat /\ Due = REF_CNT_INIT - REF_THRESH + 1 /\ REF_THRESH >= 1
  BY Words DEF SettingsFit, Due
<1>3. CASE need_refresh
  <2>1. cnt' = 1 /\ st' = IF auto_selfref_req THEN "SREF_PRE" ELSE "RPRE"
    BY <1>3, IdleChoice
  <2>2. CASE auto_selfref_req
    <3>1. sinceRefresh <= Due
      BY <2>2, Zenon DEF RefreshInv, CountedDown
    <3>2. Due + (CNT_SELFREF_TXSR + 14) + 12 <= TREFI_MAX
      BY DEF SettingsFit, SelfRefreshTime, Home
    <3>3. st' = "SREF_PRE" /\ Within(cnt + CNT_SELFREF_TXSR + 12 + Home)'
      BY <1>2, <2>1, <2>2, <3>1, <3>2, Words DEF Within, Home
    <3> QED BY <3>3 DEF TimeFits, HomeFits, SleepFits, DllFits, OpenFits, ReadFits, WriteFits
  <2>3. CASE ~auto_selfref_req
    <3>1. st' = "RPRE" /\ Within(cnt + 10)'
      BY <2>1, <2>3, Words DEF RefreshInv, TimeFits, HomeFits, Within, Home
    <3> QED BY <3>1 DEF TimeFits, HomeFits, SleepFits, DllFits, OpenFits, ReadFits, WriteFits
  <2> QED BY <2>2, <2>3
<1>4. CASE ready /\ ~need_refresh
  <2>1. s <= Due
    <3>1. refCnt >= REF_THRESH
      BY <1>4, Words DEF need_refresh
    <3>2. sinceRefresh + refCnt <= REF_CNT_INIT
      BY <1>2, <3>1, Words DEF RefreshInv, CountedDown, RefreshOnce, Sleeping
    <3> QED BY <1>2, <3>1, <3>2, Words
  <2>2. IdleMove
    BY ClockMoves DEF Move, FetchMove, ActivateMove, OpenMove, ReadMove, WriteMove,
       RefreshMove, SelfRefreshMove, PowerDownMove, DllMove, Moves, Dwell
  <2>3. /\ Due + (CNT_SELFREF_TXSR + 14) + 12 <= TREFI_MAX
        /\ Due + (CNT_PDOWN_TXP + 11) + 12 <= TREFI_MAX
        /\ Due + (CNT_TDLLK + 17) + 12 <= TREFI_MAX
    BY DEF SettingsFit, SelfRefreshTime, PowerDownTime, DllTime, Home
  <2>4. CASE st' = "IDLE"
    <3>1. Within(Home)'
      BY <1>2, <2>1, <2>3, Words DEF Within, Home
    <3> QED BY <2>4, <3>1 DEF TimeFits, HomeFits, SleepFits, DllFits, OpenFits, ReadFits, WriteFits
  <2>5. CASE st' \in PreStates /\ cnt' = CNT_RPRE
    <3>1. /\ Within(cnt + 10)'
          /\ Within(cnt + CNT_SELFREF_TXSR + 12 + Home)'
          /\ Within(cnt + CNT_PDOWN_TXP + 10 + Home)'
          /\ Within(cnt + CNT_TDLLK + 16 + Home)'
      BY <1>2, <2>1, <2>3, <2>5, Words DEF Within, Home, CNT_RPRE
    <3> QED BY <2>5, <3>1 DEF PreStates, TimeFits, HomeFits, SleepFits, DllFits, OpenFits,
            ReadFits, WriteFits
  <2>6. CASE Goto("GETCMD", CNT_GETCMD)
    <3>1. TimersTick
      BY ArmOf, Zenon DEF IdleArms, Idle, StartSelfRefresh, StartDll, StartPowerDown,
         StartRefresh, StartCommand, StayIdle
    <3>2. PICK g \in Nat : GapLeft' = g /\ g <= GapLeft
      BY <3>1, GapTicks
    <3>3. GapLeft \in 0..6
      BY StateTypes DEF GapLeft, ActGapMet, ACT_GAP_MIN
    <3>4. ASSUME NEW cmd \in Commands, NEW sz \in Sizes
          PROVE  Within(cnt + GapLeft + 9 + OpenTime(cmd, sz) + Home)'
      <4>1. OpenTime(cmd, sz) \in Nat
        BY Words, ColumnTimes, GeometryAssumption DEF OpenTime
      <4>2. Due + (17 + OpenTime(cmd, sz)) + 12 <= TREFI_MAX
        BY DEF SettingsFit, FetchTime, Home
      <4>3. cnt' = 2
        BY <2>6 DEF Goto, CNT_GETCMD
      <4> QED BY <1>2, <2>1, <3>2, <3>3, <4>1, <4>2, <4>3, Words DEF Within, Home
    <3>5. st' = "GETCMD" /\ OpenFits'
      BY <2>6, <3>4 DEF Goto, OpenFits
    <3> QED BY <3>5 DEF TimeFits, HomeFits, SleepFits, DllFits, ReadFits, WriteFits
  <2> QED BY <2>2, <2>4, <2>5, <2>6 DEF IdleMove
<1> QED BY <1>1, <1>3, <1>4 DEF need_refresh

(* Every clock leaves time for the refresh.                                  *)
LEMMA InTime ==
  ASSUME TypeOK, QuietInv, CommandInv, RefreshInv, SettingsFit, Clock, PoliteHost, Measure
  PROVE  TimeFits'
<1>1. PICK s \in Nat :
        /\ sinceRefresh' = s /\ s <= sinceRefresh + 1
        /\ bus = "REF" \/ ~seenRefresh => s = 0
        /\ ~CkeHigh => s <= sinceRefresh
  BY Words, Elapsed
<1>2. CASE IdleMove
  BY <1>1, <1>2, IdleInTime DEF IdleMove
<1>3. CASE FetchMove \/ ActivateMove \/ OpenMove
  BY <1>1, <1>3, OpenInTime
<1>4. CASE ReadMove
  BY <1>1, <1>4, ReadInTime
<1>5. CASE WriteMove
  BY <1>1, <1>5, WriteInTime
<1>6. CASE RefreshMove
  BY <1>1, <1>6, RefreshInTime
<1>7. CASE SelfRefreshMove \/ PowerDownMove
  BY <1>1, <1>7, SleepInTime
<1>8. CASE DllMove
  BY <1>1, <1>8, DllInTime
<1> QED BY <1>2, <1>3, <1>4, <1>5, <1>6, <1>7, <1>8, ClockMoves, Zenon DEF Move

-----------------------------------------------------------------------------
(***************************************************************************)
(* The other parts of the invariant.                                       *)
(***************************************************************************)
(* No state but the one that ends the interval is at its limit.              *)
LEMMA RoomLeft ==
  ASSUME TypeOK, RefreshInv, bus # "REF"
  PROVE  sinceRefresh + 1 <= TREFI_MAX
<1>1. CASE st \in {"IDLE", "RPRE", "RNOP", "RREF", "RIDL"}
  BY <1>1, Words DEF RefreshInv, TimeFits, HomeFits, Within, Home
<1>2. CASE st \in Sleeping
  BY <1>2, Words DEF RefreshInv, TimeFits, SleepFits, Sleeping, Within, Home
<1>3. CASE st \in {"DLL_PRE", "DLL_TRP", "DLL_MRS", "DLL_TMRD", "DLL_TDLLK"}
  BY <1>3, Words DEF RefreshInv, TimeFits, DllFits, Within, Home
<1>4. CASE st = "GETCMD"
  <2>1. PICK cmd \in Commands, sz \in Sizes : TRUE
    BY GeometryAssumption DEF Commands
  <2>2. OpenTime(cmd, sz) \in Nat
    BY Words, ColumnTimes, GeometryAssumption DEF OpenTime
  <2>3. GapLeft \in Nat
    BY StateTypes DEF GapLeft, ActGapMet, ACT_GAP_MIN
  <2>4. Within(cnt + GapLeft + 9 + OpenTime(cmd, sz) + Home)
    BY <1>4 DEF RefreshInv, TimeFits, OpenFits
  <2> QED BY <2>2, <2>3, <2>4, Words DEF Within, Home
<1>5. CASE st \in {"ACTIVATE", "BLR_ACT", "BLW_ACT", "WAIT_TRCD"}
  <2>1. PICK t \in Nat : ColumnTime(cur.cmd, cur.sz) = t
    BY Words, ColumnTimes
  <2>2. GapLeft \in Nat
    BY StateTypes DEF GapLeft, ActGapMet, ACT_GAP_MIN
  <2> QED BY <1>5, <2>1, <2>2, Words DEF RefreshInv, TimeFits, OpenFits, OpenTime, Within, Home
<1>6. CASE st \in {"ISSUE_READ", "SCREAD", "SCREND", "BLR_ISSUE", "BLR_READ", "SCRNLSN"}
  BY <1>6, Words DEF RefreshInv, TimeFits, ReadFits, Within, Home
<1>7. CASE st \in {"ISSUE_WRITE", "SCWRITE", "BLW_ISSUE", "BLW_WRITE", "SCWRDATA", "SCWREND"}
  <2>1. /\ BurstsLeft \in Nat /\ AfterBurst \in Nat
        /\ Burst(cur.sz) \in Nat /\ Burst(cur.sz) >= 40
    <3>1. BurstsLeft \in Nat /\ Burst(cur.sz) \in Nat
      BY Words, BurstTimes DEF BurstsLeft
    <3>2. Burst(cur.sz) >= 40
      BY Words DEF Burst
    <3> QED BY <3>1, <3>2 DEF AfterBurst
  <2> QED BY <1>7, <2>1, Words DEF RefreshInv, TimeFits, WriteFits, Within, Home
<1> QED BY <1>1, <1>2, <1>3, <1>4, <1>5, <1>6, <1>7, Words DEF States, Sleeping

(* The interval is measured from the first REF, with the engine ready.       *)
LEMMA MeasuredKept ==
  ASSUME TypeOK, QuietInv, RefreshInv, Clock, PoliteHost, Measure
  PROVE  Measured'
<1>1. PICK s \in Nat :
        sinceRefresh' = s /\ s <= sinceRefresh + 1 /\ (bus = "REF" \/ ~seenRefresh => s = 0)
  BY Words, Elapsed
<1>2. s \in 0..TREFI_MAX
  BY <1>1, RoomLeft, Words
<1>3. seenRefresh' = (seenRefresh \/ bus = "REF")
  BY Zenon DEF Measure
<1>4. seenRefresh' \in BOOLEAN
  BY <1>3
<1>5. ~seenRefresh' => sinceRefresh' = 0
  BY <1>1, <1>3, Zenon
<1>6. seenRefresh' \/ st' # "IDLE" => ready
  <2>1. bus = "REF" => st # "IDLE"
    BY DEF RefreshInv, RefreshOnce
  <2>2. st = "IDLE" /\ ~ready => st' = "IDLE"
    BY IdleChoice
  <2> QED BY <1>3, <2>1, <2>2, Zenon DEF RefreshInv, Measured
<1>7. ready => ready'
  BY DEF Clock, ReadyStays
<1> QED BY <1>1, <1>2, <1>4, <1>5, <1>6, <1>7, Zenon DEF Measured

(* RREF is entered for one clock.                                            *)
LEMMA RefreshOnceKept ==
  ASSUME TypeOK, RefreshInv, Clock
  PROVE  RefreshOnce'
<1>1. Move
  BY ClockMoves
<1>2. CASE IdleMove \/ FetchMove \/ ActivateMove \/ OpenMove
  BY <1>2, StateTypes DEF RefreshOnce, IdleMove, FetchMove, ActivateMove, OpenMove, Moves,
     Dwell, Goto, PreStates
<1>3. CASE ReadMove \/ WriteMove
  BY <1>3 DEF RefreshInv, RefreshOnce, ReadMove, WriteMove, Moves, Dwell, Goto
<1>4. CASE RefreshMove
  BY <1>4 DEF RefreshInv, RefreshOnce, RefreshMove, Moves, Dwell, Goto, CNT_RREF
<1>5. CASE SelfRefreshMove \/ PowerDownMove \/ DllMove
  BY <1>5 DEF RefreshOnce, SelfRefreshMove, PowerDownMove, DllMove, Moves, Dwell, Goto
<1> QED BY <1>1, <1>2, <1>3, <1>4, <1>5, Zenon DEF Move

(* How the states of low power follow each other under a polite host.        *)
LEMMA SleepMoves ==
  ASSUME TypeOK, Clock, PoliteHost
  PROVE  /\ st' = "SREF_ENTER" => \/ st = "SREF_TRP" /\ cnt' = 1
                                  \/ st = "SREF_ENTER"
         /\ st' = "SREF_IDLE" => \/ st = "SREF_ENTER" /\ cnt = 0
                                 \/ st = "SREF_IDLE"
         /\ st' = "PD_IDLE" => st \in {"PD_TRP", "PD_IDLE"}
         /\ st \in Sleeping /\ st' \notin Sleeping =>
              st \in {"SREF_EXIT_WAIT", "PD_EXIT_WAIT"} /\ cnt = 0
<1>1. Move
  BY ClockMoves
<1>2. CASE SelfRefreshMove
  BY <1>2 DEF SelfRefreshMove, Moves, Dwell, Goto, PoliteHost, Sleeping
<1>3. CASE PowerDownMove
  BY <1>3 DEF PowerDownMove, Moves, Dwell, Goto, PoliteHost, Sleeping
<1>4. CASE IdleMove \/ FetchMove \/ ActivateMove \/ OpenMove
  BY <1>4, StateTypes DEF IdleMove, FetchMove, ActivateMove, OpenMove, Moves, Dwell, Goto,
     PreStates, Sleeping
<1>5. CASE ReadMove \/ WriteMove \/ RefreshMove \/ DllMove
  BY <1>5 DEF ReadMove, WriteMove, RefreshMove, DllMove, Moves, Dwell, Goto, Sleeping
<1> QED BY <1>1, <1>2, <1>3, <1>4, <1>5, Zenon DEF Move

(* Whoever stays in low power has CKE low.                                   *)
LEMMA AsleepKept ==
  ASSUME TypeOK, RefreshInv, Clock, PoliteHost
  PROVE  AsleepWithCkeLow'
<1>1. st' = "SREF_ENTER" => selfref_active' \/ cnt' # 0
  <2>1. st = "SREF_TRP" /\ st' = "SREF_ENTER" => cnt' = 1
    BY SleepMoves
  <2>2. st = "SREF_ENTER" /\ st' = "SREF_ENTER" => selfref_active'
    BY LowPowerFlags
  <2> QED BY <2>1, <2>2, SleepMoves
<1>2. st' = "SREF_IDLE" => selfref_active' /\ selfref_active_o'
  <2>1. st = "SREF_ENTER" /\ st' = "SREF_IDLE" => selfref_active' /\ selfref_active_o' = selfref_active
    BY LowPowerFlags
  <2>2. st = "SREF_ENTER" /\ st' = "SREF_IDLE" => selfref_active
    BY SleepMoves DEF RefreshInv, AsleepWithCkeLow
  <2>3. st = "SREF_IDLE" /\ st' = "SREF_IDLE" => selfref_active' /\ selfref_active_o'
    BY LowPowerFlags, Zenon DEF RefreshInv, AsleepWithCkeLow
  <2> QED BY <2>1, <2>2, <2>3, SleepMoves
<1>3. st' = "PD_IDLE" => pdown_active_o'
  <2>1. st = "PD_IDLE" /\ st' = "PD_IDLE" => pdown_active_o'
    BY LowPowerFlags, Zenon DEF RefreshInv, AsleepWithCkeLow
  <2>2. st = "PD_TRP" /\ st' = "PD_IDLE" => pdown_active_o'
    BY LowPowerFlags, Zenon
  <2> QED BY <2>1, <2>2, SleepMoves
<1> QED BY <1>1, <1>2, <1>3, Zenon DEF AsleepWithCkeLow

(* The counter goes down by as much as the interval goes up.                 *)
LEMMA CountedDownKept ==
  ASSUME TypeOK, QuietInv, RefreshInv, SettingsFit, Clock, PoliteHost, Measure
  PROVE  CountedDown'
<1>1. PICK s \in Nat :
        sinceRefresh' = s /\ s <= sinceRefresh + 1 /\ (bus = "REF" \/ ~seenRefresh => s = 0)
  BY Words, Elapsed
<1>2. RefCntTick \in Nat /\ RefCntTick <= refCnt
  BY Words DEF RefCntTick
<1>3. PICK r \in Nat : refCnt' = r /\ r <= REF_CNT_INIT
  <2>1. refCnt' \in {RefCntTick, 0, REF_CNT_INIT}
    BY RefreshCount DEF Sleeping
  <2>2. refCnt <= REF_CNT_INIT
    BY DEF RefreshInv, CountedDown
  <2> QED BY <1>2, <2>1, <2>2, Words
<1>4. ASSUME st' \notin Sleeping, bus' # "REF", r > 0
      PROVE  s + r <= REF_CNT_INIT
  <2>1. CASE bus = "REF" \/ ~seenRefresh
    BY <1>1, <1>3, <2>1
  <2>2. CASE bus # "REF" /\ seenRefresh
    <3>1. st \notin Sleeping
      BY <1>3, <1>4, RefreshCount, SleepMoves
    <3>2. st # "RREF"
      BY <1>4, ClockMoves DEF Move, IdleMove, FetchMove, ActivateMove, OpenMove, ReadMove,
         WriteMove, RefreshMove, SelfRefreshMove, PowerDownMove, DllMove, Moves, Dwell
    <3>3. ready /\ ~selfref_active /\ ~pdown_active_o
      BY <2>2, <3>1, AwakeFlags, Zenon DEF RefreshInv, Measured
    <3>4. refCnt > 0 /\ r = refCnt - 1
      <4>1. r = RefCntTick
        BY <1>3, <3>1, <3>2, RefreshCount
      <4> QED BY <1>4, <3>3, <4>1, Words DEF RefCntTick
    <3>5. sinceRefresh + refCnt <= REF_CNT_INIT
      BY <2>2, <3>1, <3>4 DEF RefreshInv, CountedDown
    <3> QED BY <1>1, <3>4, <3>5, Words
  <2> QED BY <2>1, <2>2
<1>5. ASSUME auto_selfref_req' PROVE s <= Due
  <2>1. st = "IDLE" /\ ready /\ ~need_refresh
    BY <1>5, AutoRequest
  <2>2. REF_THRESH >= 1 /\ REF_THRESH <= REF_CNT_INIT
    BY Words DEF SettingsFit
  <2>3. refCnt >= REF_THRESH
    BY <2>1, Words DEF need_refresh
  <2>4. sinceRefresh + refCnt <= REF_CNT_INIT
    BY <2>1, <2>2, <2>3, Words DEF RefreshInv, CountedDown, RefreshOnce, Sleeping
  <2> QED BY <1>1, <2>2, <2>3, <2>4, Words DEF Due
<1>6. Due' = Due /\ REF_CNT_INIT' = REF_CNT_INIT
  BY DEF Due, REF_CNT_INIT, REF_THRESH
<1> QED BY <1>1, <1>3, <1>4, <1>5, <1>6 DEF CountedDown

-----------------------------------------------------------------------------
(***************************************************************************)
(* The invariant, and the interval it bounds.                              *)
(***************************************************************************)
(* At power-up the interval has not begun.                                   *)
LEMMA RefreshStarts ==
  ASSUME SettingsFit, RefreshInit
  PROVE  RefreshInv
<1>1. /\ st = "IDLE" /\ cnt = 0 /\ refCnt = REF_CNT_INIT /\ bus = "DES"
      /\ sinceRefresh = 0 /\ seenRefresh = FALSE
  BY DEF RefreshInit, Init
<1>2. Home <= TREFI_MAX /\ Due >= 0
  BY Waits DEF SettingsFit, Home, Due
<1>3. Measured /\ RefreshOnce /\ AsleepWithCkeLow
  <2>1. Measured
    <3>1. 0 \in 0..TREFI_MAX
      BY Waits
    <3> QED BY <1>1, <3>1, Zenon DEF Measured
  <2>2. RefreshOnce /\ AsleepWithCkeLow
    BY <1>1 DEF RefreshOnce, AsleepWithCkeLow
  <2> QED BY <2>1, <2>2
<1>4. CountedDown
  BY <1>1, <1>2, Waits DEF CountedDown
<1>5. TimeFits
  BY <1>1, <1>2, Waits DEF TimeFits, HomeFits, SleepFits, DllFits, OpenFits, ReadFits,
     WriteFits, Within, Home
<1> QED BY <1>3, <1>4, <1>5 DEF RefreshInv

(* Every step under a polite host keeps it, and so does standing still.      *)
LEMMA RefreshKept ==
  ASSUME SettingsFit, TypeOK, QuietInv, CommandInv, RefreshInv,
         [Step(PoliteHost)]_refreshVars
  PROVE  RefreshInv'
<1>1. CASE Step(PoliteHost)
  BY <1>1, InTime, MeasuredKept, RefreshOnceKept, AsleepKept, CountedDownKept, Zenon
     DEF Step, RefreshInv
<1>2. CASE UNCHANGED refreshVars
  <2>1. /\ ready' = ready /\ st' = st /\ cnt' = cnt /\ refCnt' = refCnt
        /\ act_gap_cnt' = act_gap_cnt /\ have_act_any' = have_act_any /\ cur' = cur
        /\ blk_cnt' = blk_cnt /\ from_blw' = from_blw /\ bus' = bus
        /\ selfref_active' = selfref_active /\ selfref_active_o' = selfref_active_o
        /\ pdown_active_o' = pdown_active_o /\ dll_tdllk_cnt' = dll_tdllk_cnt
        /\ auto_selfref_req' = auto_selfref_req
        /\ sinceRefresh' = sinceRefresh /\ seenRefresh' = seenRefresh
    BY <1>2 DEF refreshVars, vars, interval, burst, pins, dll, quiet, delayed
  <2>2. Measured' /\ RefreshOnce' /\ AsleepWithCkeLow'
    BY <2>1 DEF RefreshInv, Measured, RefreshOnce, AsleepWithCkeLow
  <2>3. CountedDown'
    BY <2>1 DEF RefreshInv, CountedDown
  <2>4. HomeFits' /\ SleepFits' /\ DllFits' /\ ReadFits'
    BY <2>1 DEF RefreshInv, TimeFits, HomeFits, SleepFits, DllFits, ReadFits, Within
  <2>5. OpenFits'
    BY <2>1 DEF RefreshInv, TimeFits, OpenFits, Within, GapLeft, ActGapMet
  <2>6. WriteFits'
    BY <2>1 DEF RefreshInv, TimeFits, WriteFits, Within, BurstsLeft, AfterBurst
  <2> QED BY <2>2, <2>3, <2>4, <2>5, <2>6 DEF RefreshInv, TimeFits
<1> QED BY <1>1, <1>2

(* With settings that fit, two refreshes are never more than TREFI_MAX       *)
(* clocks with CKE high apart, whatever the polite host asks of the engine   *)
(* in between.                                                               *)
THEOREM RefreshesInTime ==
  ASSUME SettingsFit
  PROVE  PoliteSpec => []RefreshIntervalBounded
<1>1. RefreshInit => RefreshInv
  BY RefreshStarts
<1>2. /\ TypeOK /\ QuietInv /\ CommandInv /\ RefreshInv
      /\ [Step(PoliteHost)]_refreshVars
      => RefreshInv'
  BY RefreshKept
<1>3. RefreshInv => RefreshIntervalBounded
  BY Waits DEF RefreshInv, Measured, RefreshIntervalBounded
<1> QED BY <1>1, <1>2, <1>3, PoliteIsEngine, TypeCorrect, QuietInvariant, CommandInvariant,
        PTL DEF PoliteSpec
=============================================================================
