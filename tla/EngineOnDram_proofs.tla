------------------------- MODULE EngineOnDram_proofs -------------------------
(***************************************************************************)
(* The engine drives its rank as a DDR2 device may be driven: the commands *)
(* of every clock, reset and request implement DramProtocol, for every     *)
(* timing, every number of banks and every depth of the return FIFO.  This *)
(* is the build with one rank; with more, CKE is common and a precharge    *)
(* reaches only the rank selected.                                         *)
(***************************************************************************)
EXTENDS ProtocolEngine_proofs, EngineOnDram

\* The states from the end of a precharge to the return to IDLE.
ClosedStates ==
  TrpStates \cup {"RREF", "RIDL", "SREF_ENTER", "SREF_IDLE", "SREF_EXIT_WAIT",
                  "PD_IDLE", "PD_EXIT_WAIT", "DLL_MRS", "DLL_TMRD", "DLL_TDLLK"}

\* The states in which the row of the command has been opened.
OpenStates ==
  {"BLR_ACT", "BLW_ACT", "WAIT_TRCD", "ISSUE_READ", "SCREAD", "SCREND", "ISSUE_WRITE",
   "SCWRITE", "SCWRDATA", "SCWREND", "BLR_ISSUE", "BLR_READ", "SCRNLSN", "BLW_ISSUE",
   "BLW_WRITE"}

\* The states that leave the bus alone.
HoldStates == {"SCREND", "SCRNLSN", "SCWREND"}

\* What the states say of the rank's rows.
RowInv ==
  /\ openBanks \in [Ranks -> SUBSET Banks]
  /\ st \in ClosedStates => openBanks[0] = {}
  /\ st \in OpenStates => cur.bank \in openBanks[0]
  /\ st \in HoldStates => bus = "DES"
  /\ selfref_active_o =>
       /\ st \in {"SREF_ENTER", "SREF_IDLE", "SREF_EXIT_WAIT", "IDLE"}
       /\ openBanks[0] = {}

-----------------------------------------------------------------------------
(***************************************************************************)
(* What the rank sees of a clock.                                          *)
(***************************************************************************)
\* The address that goes with the command.
Addressed ==
  /\ bus' \in {"ACT", "RD", "WR"} => ba_o' = cur.bank
  /\ bus' = "PRE" => a_o' = "PREALL"

(* Every way to drive the bus gives a command its address.                   *)
LEMMA DrivesAddressed ==
  ASSUME \/ Deselect \/ DriveNop \/ DriveActivate \/ PrechargeAll
         \/ \E a : Drive("RD", cur.bank, a) \/ Drive("WR", cur.bank, a)
         \/ Drive("REF", ba_o, a_o) \/ Drive("MRS", 0, "MODE")
         \/ HoldBus /\ bus = "DES"
  PROVE  Addressed
  BY DEF Deselect, DriveNop, DriveActivate, PrechargeAll, Drive, HoldBus, Addressed

(* Arms that deselect, activate or issue a column command.                   *)
LEMMA CommandAddressed ==
  ASSUME CommandArms, st \in HoldStates => bus = "DES"
  PROVE  Addressed
<1>1. CASE ScalarReadEnd \/ WriteEnd \/ DefaultArm
  <2>1. HoldBus /\ st \in HoldStates
    BY <1>1 DEF ScalarReadEnd, WriteEnd, DefaultArm, HoldStates
  <2> QED BY <2>1, DrivesAddressed, Zenon
<1>2. CASE IssueRead \/ BlockReadIssue \/ IssueWrite \/ BlockWriteIssue
  <2>1. \E a : Drive("RD", cur.bank, a) \/ Drive("WR", cur.bank, a)
    BY <1>2, Zenon DEF IssueRead, BlockReadIssue, IssueWrite, BlockWriteIssue
  <2> QED BY <2>1, DrivesAddressed, Zenon
<1>3. CASE \/ ActivateHold \/ ActivateScalar \/ ActivateBlock \/ ActivateDrop
           \/ BlockReadActivate \/ BlockWriteActivate
  BY <1>3, DrivesAddressed, Zenon DEF ActivateHold, ActivateScalar, ActivateBlock,
     ActivateDrop, Activating, BlockReadActivate, BlockWriteActivate, BlockActivate
<1>4. CASE \/ GetCommand \/ WaitTrcd \/ ScalarRead \/ BlockRead
           \/ ScalarWrite \/ WriteData \/ BlockWrite
  BY <1>4, DrivesAddressed, Zenon DEF GetCommand, WaitTrcd, ScalarRead, BlockRead,
     ScalarWrite, WriteData, BlockWrite, WriteLatency
<1> QED BY <1>1, <1>2, <1>3, <1>4, Zenon DEF CommandArms

(* Refresh, low power and the DLL change.                                    *)
LEMMA MaintenanceAddressed == MaintenanceArms => Addressed
  BY DrivesAddressed, Zenon DEF MaintenanceArms, RefreshPrecharge, RefreshWaitTrp,
     Refresh, RefreshWaitTrfc, SelfRefreshPrecharge, SelfRefreshWaitTrp,
     SelfRefreshEnter, AbortSelfRefresh, SelfRefreshIdle, ExitSelfRefresh,
     SelfRefreshExitWait, PowerDownPrecharge, PowerDownWaitTrp, AbortPowerDown,
     PowerDownIdle, ExitPowerDown, PowerDownExitWait, ExitWait, DllPrecharge,
     DllWaitTrp, DllModeSet, DllWaitTmrd, DllWaitTdllk, DllArm

(* Every clock.                                                              *)
LEMMA ClockAddressed ==
  ASSUME Clock, RowInv
  PROVE  Addressed
<1>1. CASE IdleArms
  BY <1>1, DrivesAddressed, Zenon DEF IdleArms, Idle, StartSelfRefresh, StartDll,
     StartPowerDown, StartRefresh, StartCommand, StayIdle
<1>2. CASE CommandArms
  BY <1>2, CommandAddressed, Zenon DEF RowInv
<1> QED BY <1>1, <1>2, MaintenanceAddressed, Zenon DEF Clock

(* The rank's rows after a clock, if it is the only one.                     *)
LEMMA RowsMove ==
  ASSUME Ranks = {0}, TypeOK, TypeOK', RowInv, Clock, Devices
  PROVE  /\ openBanks' \in [Ranks -> SUBSET Banks]
         /\ bus' = "ACT" => openBanks'[0] = openBanks[0] \cup {cur.bank}
         /\ bus' = "PRE" => openBanks'[0] = {}
         /\ bus' \notin {"ACT", "PRE"} => openBanks'[0] = openBanks[0]
<1>1. rank_sel_o' = 0 /\ ba_o' \in Banks
  BY Zenon DEF TypeOK, BusType
<1>2. openBanks[0] \in SUBSET Banks
  BY DEF RowInv
<1>3. openBanks' = [r \in Ranks |-> DeviceRows(openBanks[r])]
  BY <1>1 DEF Devices
<1>4. DeviceRows(openBanks[0]) \in SUBSET Banks
  BY <1>1, <1>2 DEF DeviceRows, Closed
<1>5. openBanks'[0] = DeviceRows(openBanks[0])
  BY <1>3
<1>6. openBanks' \in [Ranks -> SUBSET Banks]
  BY <1>3, <1>4
<1> QED BY <1>5, <1>6, ClockAddressed DEF DeviceRows, Closed, Addressed

-----------------------------------------------------------------------------
(***************************************************************************)
(* The invariant.                                                          *)
(***************************************************************************)
(* A clock keeps it.                                                         *)
LEMMA RowsKept ==
  ASSUME Ranks = {0}, TypeOK, TypeOK', QuietInv, RowInv, Clock, Devices
  PROVE  RowInv'
<1>1. Move /\ KeepsCommand
  BY ClockMoves
<1>2. next_state_after_trcd \in
        {"IDLE", "ISSUE_READ", "ISSUE_WRITE", "BLR_ISSUE", "BLW_ISSUE"}
  BY StateTypes
<1>3. st # "GETCMD" => cur' = cur
  BY <1>1, Zenon DEF KeepsCommand
<1>4. selfref_active_o' => st \in {"SREF_ENTER", "SREF_IDLE"}
  BY Zenon DEF Clock, DelayedOutputs, QuietInv
<1>5. openBanks' \in [Ranks -> SUBSET Banks]
  BY RowsMove
<1>6. CASE IdleMove \/ FetchMove \/ ActivateMove \/ OpenMove
  BY <1>2, <1>3, <1>4, <1>5, <1>6, RowsMove DEF RowInv, IdleMove, FetchMove,
     ActivateMove, OpenMove, Moves, Dwell, Goto, PreStates, TrpStates, ClosedStates,
     OpenStates, HoldStates
<1>7. CASE ReadMove \/ WriteMove
  BY <1>3, <1>4, <1>5, <1>7, RowsMove DEF RowInv, ReadMove, WriteMove, Moves, Dwell,
     Goto, TrpStates, ClosedStates, OpenStates, HoldStates
<1>8. CASE RefreshMove \/ SelfRefreshMove \/ PowerDownMove \/ DllMove
  BY <1>3, <1>4, <1>5, <1>8, RowsMove DEF RowInv, RefreshMove, SelfRefreshMove,
     PowerDownMove, DllMove, Moves, Dwell, Goto, TrpStates, ClosedStates, OpenStates,
     HoldStates
<1> QED BY <1>1, <1>6, <1>7, <1>8, Zenon DEF Move

(* At power-up and after a reset every row is closed.                        *)
LEMMA RowsInit == DramInit => RowInv
  BY GeometryAssumption DEF DramInit, Init, RowInv, TrpStates, ClosedStates, OpenStates,
     HoldStates

LEMMA RowsReset ==
  ASSUME Reset, openBanks' = [r \in Ranks |-> {}]
  PROVE  RowInv'
  BY GeometryAssumption DEF Reset, Goto, RowInv, TrpStates, ClosedStates, OpenStates,
     HoldStates

-----------------------------------------------------------------------------
(***************************************************************************)
(* The refinement.                                                         *)
(***************************************************************************)
(* What the commands of a clock ask of the rows and of CKE.                  *)
LEMMA CommandsAreDue ==
  ASSUME TypeOK, TypeOK', QuietInv, RowInv, Clock
  PROVE  /\ bus' \in {"RD", "WR"} => cur.bank \in openBanks[0]
         /\ bus' \in {"REF", "MRS"} => openBanks[0] = {}
         /\ CkeLow => bus' \in {"DES", "NOP"}
<1>1. Move
  BY ClockMoves
<1>2. pdown_active_o => st = "PD_IDLE"
  BY Zenon DEF QuietInv
<1>3. CASE IdleMove \/ FetchMove \/ ActivateMove \/ OpenMove
  BY <1>2, <1>3 DEF CkeLow, RowInv, IdleMove, FetchMove, ActivateMove, OpenMove, Moves,
     Dwell
<1>4. CASE ReadMove \/ WriteMove
  BY <1>2, <1>4 DEF CkeLow, RowInv, ReadMove, WriteMove, Moves, Dwell, OpenStates,
     HoldStates
<1>5. CASE RefreshMove \/ SelfRefreshMove \/ PowerDownMove \/ DllMove
  BY <1>2, <1>5 DEF CkeLow, RowInv, RefreshMove, SelfRefreshMove, PowerDownMove,
     DllMove, Moves, Dwell, ClosedStates
<1> QED BY <1>1, <1>3, <1>4, <1>5, Zenon DEF Move

(* CKE falls with every row closed.                                          *)
LEMMA CkeFallsClosed ==
  ASSUME QuietInv', RowInv', CkeLow'
  PROVE  bus' \in {"DES", "NOP"} /\ openBanks'[0] = {}
<1>1. bus' \in {"DES", "NOP"}
  BY Zenon DEF QuietInv, LowPowerQuiet, CkeLow
<1>2. CASE selfref_active_o'
  BY <1>1, <1>2, Zenon DEF RowInv
<1>3. CASE pdown_active_o'
  <2>1. st' = "PD_IDLE"
    BY <1>3, Zenon DEF QuietInv
  <2> QED BY <1>1, <2>1 DEF RowInv, ClosedStates
<1> QED BY <1>2, <1>3, Zenon DEF CkeLow

(* A clock is a step of the device's protocol.                               *)
LEMMA RankServed ==
  ASSUME Ranks = {0}, TypeOK, TypeOK', QuietInv, QuietInv', RowInv, Clock, Devices
  PROVE  RankStep(0)
<1>1. RowInv'
  BY RowsKept
<1>2. rank_sel_o' = 0 /\ ba_o' \in Banks /\ bus' \in BusCommands
  BY Zenon DEF TypeOK, BusType
<1>3. bus' \in {"ACT", "RD", "WR"} => ba_o' = cur.bank
  BY ClockAddressed, Zenon DEF Addressed
<1>4. CASE bus' \in {"DES", "NOP"}
  <2>1. CommandOf(0)' = "NONE" /\ openBanks'[0] = openBanks[0]
    BY <1>4, RowsMove DEF CommandOf
  <2>2. CASE CkeLow'
    <3>1. openBanks[0] = {}
      BY <1>1, <2>1, <2>2, CkeFallsClosed
    <3>2. CkeLow' = TRUE
      BY <2>2 DEF CkeLow
    <3> QED BY <1>2, <2>1, <3>1, <3>2 DEF RankStep, Rank!Next, Rank!EnterLowPower
  <2>3. CASE ~CkeLow'
    <3>1. CkeLow' = FALSE
      BY <2>3 DEF CkeLow
    <3> QED BY <1>2, <2>1, <3>1 DEF RankStep, Rank!Next, Rank!LeaveLowPower
  <2> QED BY <2>2, <2>3
<1>5. CASE bus' \notin {"DES", "NOP"}
  <2>1. CommandOf(0)' = bus'
    BY <1>2, <1>5 DEF CommandOf
  <2>2. ~CkeLow
    BY <1>5, CommandsAreDue
  <2>3. ~CkeLow'
    BY <1>1, <1>5, CkeFallsClosed
  <2>4. CkeLow' = CkeLow
    BY <2>2, <2>3 DEF CkeLow
  <2>5. CASE bus' = "ACT"
    BY <1>2, <1>3, <2>1, <2>2, <2>4, <2>5, RowsMove DEF RankStep, Rank!Next, Rank!Activate
  <2>6. CASE bus' \in {"RD", "WR"}
    BY <1>2, <1>3, <2>1, <2>2, <2>4, <2>6, RowsMove, CommandsAreDue
       DEF RankStep, Rank!Next, Rank!Column
  <2>7. CASE bus' = "PRE"
    BY <1>2, <2>1, <2>2, <2>4, <2>7, RowsMove DEF RankStep, Rank!Next, Rank!PrechargeAll
  <2>8. CASE bus' \in {"REF", "MRS"}
    BY <1>2, <2>1, <2>2, <2>4, <2>8, RowsMove, CommandsAreDue
       DEF RankStep, Rank!Next, Rank!Maintain
  <2> QED BY <1>2, <1>5, <2>5, <2>6, <2>7, <2>8 DEF BusCommands
<1> QED BY <1>4, <1>5

(* So is a reset: the device is powered up anew.                             *)
LEMMA ResetServed ==
  ASSUME Reset, openBanks' = [r \in Ranks |-> {}]
  PROVE  RankStep(0)
<1>1. CommandOf(0)' = "NONE" /\ ba_o' = 0
  BY DEF Reset, Drive, CommandOf
<1>2. CkeLow' = FALSE
  BY DEF Reset, CkeLow
<1>3. openBanks'[0] = {}
  BY GeometryAssumption
<1> QED BY <1>1, <1>2, <1>3, GeometryAssumption DEF RankStep, Rank!Next, Rank!PowerUp

(* The engine under its devices is the engine.                               *)
LEMMA DramIsEngine == DramSpec => Spec
<1>1. DramInit => Init
  BY Zenon DEF DramInit
<1>2. [DramNext]_<<vars, openBanks>> => [Next]_vars
  BY Zenon DEF DramNext, Next
<1> QED BY <1>1, <1>2, PTL DEF DramSpec, Spec

(* Every step keeps the invariant and serves the rank.                       *)
LEMMA DramStep ==
  ASSUME Ranks = {0}, TypeOK, TypeOK', QuietInv, QuietInv', RowInv,
         [DramNext]_<<vars, openBanks>>
  PROVE  RowInv' /\ [RankStep(0)]_<<vars, openBanks>>
<1>1. CASE Clock /\ Devices
  BY <1>1, RowsKept, RankServed
<1>2. CASE Reset /\ openBanks' = [r \in Ranks |-> {}]
  BY <1>2, RowsReset, ResetServed
<1>3. CASE UNCHANGED <<vars, openBanks>>
  BY <1>3, Zenon DEF vars, burst, pins, delayed, RowInv
<1> QED BY <1>1, <1>2, <1>3, Zenon DEF DramNext

(* Each step of the promise speaks of the one rank.                          *)
LEMMA ServedStep ==
  ASSUME Ranks = {0}
  PROVE  [RankStep(0)]_<<vars, openBanks>>
           => [\A r \in Ranks : RankStep(r)]_<<vars, openBanks>>
<1>1. ASSUME RankStep(0) PROVE \A r \in Ranks : RankStep(r)
  BY <1>1
<1> QED BY <1>1, Zenon

(* At power-up the rank has been asked nothing.                              *)
LEMMA ServedInit == DramInit => \A r \in Ranks : Rank(r)!Init
  BY GeometryAssumption DEF DramInit, Init, Rank!Init, CommandOf, CkeLow

(* A single rank sees a legal DDR2 command sequence, for every timing and    *)
(* however refreshes, low-power requests, aborted entries and resets fall:   *)
(* columns only on open rows; REFRESH, MODE REGISTER SET and CKE low only    *)
(* with all banks closed; no command while CKE is low.                       *)
THEOREM SingleRankIsServed ==
  ASSUME Ranks = {0}
  PROVE  DramSpec => RanksAreServed
<1>1. DramSpec => [](TypeOK /\ QuietInv)
  BY DramIsEngine, TypeCorrect, QuietInvariant, PTL
<1>2. TypeOK /\ TypeOK' /\ QuietInv /\ QuietInv' /\ RowInv /\ [DramNext]_<<vars, openBanks>>
        => RowInv' /\ [RankStep(0)]_<<vars, openBanks>>
  BY DramStep
<1> QED BY <1>1, <1>2, RowsInit, ServedInit, ServedStep, PTL DEF DramSpec, RanksAreServed
=============================================================================
