------------------------ MODULE EngineWatched_proofs ------------------------
(***************************************************************************)
(* The engine's timing at the pins and the words it moves, for every       *)
(* geometry and every timing parameter.  Each bound has an invariant of    *)
(* its own, which says how much of the wait is over in each state: what a  *)
(* dwell counter still holds and what the timer at the pins has counted    *)
(* add up to the bound.  The words of a command are counted in the same    *)
(* way: what each state has left to move is what its command still owes.   *)
(***************************************************************************)
EXTENDS ProtocolEngine_proofs, EngineWatched

\* The ages only count.
AgeType ==
  /\ sinceAct \in Nat /\ sinceActEdge \in Nat /\ sincePre \in Nat
  /\ sinceRef \in Nat /\ sinceMrs \in Nat
  /\ sinceSelfRef \in Nat /\ sincePowerDown \in Nat

\* tRP: what is left of it is in the dwell of the wait for it, or in GETCMD
\* and ACTIVATE when an aborted entry has gone straight to a command.
TrpInv ==
  /\ bus = "PRE" =>
       st \in PreStates \cup {"IDLE"} \/ (st \in TrpStates /\ cnt = CNT_RNOP)
  /\ st \in TrpStates /\ bus # "PRE" => sincePre + cnt + 1 >= TRP_MIN
  /\ st = "GETCMD" => sincePre + cnt + CNT_GETCMD >= TRP_MIN
  /\ st = "ACTIVATE" => sincePre + 1 >= TRP_MIN
  /\ st \notin PreStates \cup TrpStates \cup {"IDLE", "GETCMD", "ACTIVATE"}
       => sincePre >= TRP_MIN
  /\ bus \in {"ACT", "REF", "MRS"} \/ selfref_active_o => sincePre >= TRP_MIN

\* tRFC: REF is on the pins for the first cycle of RIDL, whose dwell is the wait.
TrfcInv ==
  /\ bus = "REF" => st = "RIDL" /\ cnt = CNT_RIDL
  /\ st = "RREF" => cnt = 1
  /\ st = "RIDL" /\ bus # "REF" => sinceRef + cnt + 1 >= CNT_RIDL
  /\ st = "IDLE" => sinceRef >= CNT_RIDL
  /\ st \notin {"IDLE", "RIDL"} => sinceRef >= TRFC
  /\ BusCommand \/ selfref_active_o => sinceRef >= TRFC

\* tDLLK: MRS is driven twice, then come tMRD in the dwell counter and the lock
\* time in a counter of its own.
TdllkInv ==
  /\ bus = "MRS" => (st = "DLL_MRS" /\ cnt = 0) \/ (st = "DLL_TMRD" /\ cnt = CNT_TMRD)
  /\ st = "DLL_MRS" => cnt <= 1
  /\ st = "DLL_TMRD" /\ bus # "MRS" => sinceMrs + cnt + 1 >= CNT_TMRD
  /\ st = "DLL_TDLLK" => sinceMrs + dll_tdllk_cnt >= TDLLK
  /\ st \notin {"DLL_MRS", "DLL_TMRD", "DLL_TDLLK"} => sinceMrs >= TDLLK
  /\ (BusCommand /\ bus # "MRS") \/ selfref_active_o => sinceMrs >= TDLLK

\* tXP and tXSR: no command while CKE may be low or has just risen, and the
\* dwell of the exit wait is what is left.
TxpInv ==
  /\ st \in {"PD_IDLE", "PD_EXIT_WAIT"} => ~BusCommand
  /\ st = "PD_EXIT_WAIT" => sincePowerDown + cnt >= CNT_PDOWN_TXP
  /\ st \notin {"PD_IDLE", "PD_EXIT_WAIT"} => sincePowerDown >= CNT_PDOWN_TXP

TxsrInv ==
  /\ st = "SREF_EXIT_WAIT" =>
       /\ ~BusCommand
       /\ IF selfref_active_o THEN cnt = CNT_SELFREF_TXSR
                              ELSE sinceSelfRef + cnt + 1 >= CNT_SELFREF_TXSR
  /\ st # "SREF_EXIT_WAIT" => sinceSelfRef + 1 >= CNT_SELFREF_TXSR

\* The states between a READ or WRITE and the next IDLE.
ColumnStates ==
  {"ISSUE_READ", "SCREAD", "SCRNLSN", "SCREND", "ISSUE_WRITE", "SCWRITE", "SCWRDATA",
   "SCWREND", "BLR_ISSUE", "BLR_READ", "BLW_ISSUE", "BLW_WRITE"}

\* tRCD: the dwell of WAIT_TRCD is the wait.
TrcdInv ==
  /\ bus = "ACT" =>
       \/ st \in {"ACTIVATE", "BLR_ACT", "BLW_ACT", "IDLE"}
       \/ st = "WAIT_TRCD" /\ cnt = TRCD_WAIT
  /\ st = "WAIT_TRCD" /\ bus # "ACT" => sinceAct + cnt + 1 >= TRCD_WAIT
  /\ st \in ColumnStates => sinceAct >= TRCD_WAIT
  /\ bus \in {"RD", "WR"} => sinceAct >= TRCD_WAIT + 1

\* tRRD and tFAW: an edge of ACT falls in ACTIVATE only, where the gap counter
\* has been restarted a cycle before.
ActInv ==
  /\ st = "GETCMD" => bus # "ACT"
  /\ st = "ACTIVATE" =>
       /\ have_act_any
       /\ \/ cnt = 1 /\ bus # "ACT" /\ act_gap_cnt = 0
             /\ sinceActEdge + 1 >= ACT_GAP_MIN
          \/ cnt = 0 /\ bus = "ACT"
  /\ st \in {"BLR_ACT", "BLW_ACT"} => bus = "ACT"
  /\ ActEdge => /\ st = "ACTIVATE" /\ cnt = 0
                /\ act_gap_cnt <= 1
                /\ sinceActEdge >= ACT_GAP_MIN
  /\ act_gap_cnt <= sinceActEdge + 2 \/ sinceActEdge >= ACT_GAP_MIN
  /\ ~have_act_any => sinceActEdge >= ACT_GAP_MIN

\* tRAS, of the commands that are served: by the time a column command is done
\* its row has been open long enough but for the cycles that IDLE and the
\* precharge take.
Served == cur.cmd \in {"SCR", "SCW", "BLW"}

TrasInv ==
  /\ st = "WAIT_TRCD" => sinceActEdge + cnt >= TRCD_WAIT \/ sinceActEdge >= TRAS_MIN
  /\ st = "ISSUE_READ" => sinceActEdge + CNT_SCREAD + 13 >= TRAS_MIN
  /\ st = "SCREAD" => sinceActEdge + cnt + 12 >= TRAS_MIN
  /\ st \in {"ISSUE_WRITE", "BLW_ISSUE"} => sinceActEdge + 42 >= TRAS_MIN
  /\ st \in {"SCWRITE", "BLW_WRITE"} => sinceActEdge + cnt + 29 >= TRAS_MIN
  /\ st = "SCWRDATA" => sinceActEdge + cnt + 21 >= TRAS_MIN
  /\ st \in {"SCREND", "SCWREND"} => sinceActEdge + cnt + 3 >= TRAS_MIN
  /\ Served /\ st = "IDLE" => sinceActEdge + 2 >= TRAS_MIN
  /\ Served /\ st \notin ColumnStates \cup {"IDLE", "GETCMD", "ACTIVATE", "BLR_ACT", "BLW_ACT", "WAIT_TRCD"}
       => sinceActEdge + 1 >= TRAS_MIN
  /\ Served /\ bus = "PRE" => sinceActEdge >= TRAS_MIN

\* The states of a command before its first column command.
OpeningStates == {"GETCMD", "ACTIVATE", "BLR_ACT", "BLW_ACT", "WAIT_TRCD"}

\* The bursts of a block write that are over.
FullBursts == IF cur.cmd = "BLW" THEN blk_cnt ELSE 0

\* What has been transferred so far, state by state.
WordsSoFar ==
  /\ st \in OpeningStates \/ cur.cmd \notin {"SCW", "BLW"} => pops = 0
  /\ st \in OpeningStates => words = {} /\ columns = 0
  /\ st \in {"ISSUE_WRITE", "BLW_ISSUE"} => pops = 8 * FullBursts /\ columns = FullBursts
  /\ st \in {"SCWRITE", "BLW_WRITE"} => pops = 8 * FullBursts /\ columns = FullBursts + 1
  /\ st = "SCWRDATA" =>
       /\ pops = 8 * FullBursts + burst_cnt + 1 /\ columns = FullBursts + 1
       /\ burst_cnt + cnt >= 7
  /\ st = "SCWREND" => pops = 8 * FullBursts + 8 /\ columns = FullBursts + 1
  /\ st = "ISSUE_READ" => words = {} /\ columns = 0
  /\ st = "SCREAD" => words = {} /\ columns = 1
  /\ st = "SCREND" => words = {0} \cup 0..(7 - cnt) /\ columns = 1 /\ cnt <= 8

BlockCounted ==
  /\ cur.cmd = "BLW" /\ st \in {"BLW_ACT", "WAIT_TRCD"} => blk_cnt = 0
  /\ cur.cmd = "BLW" /\ st \in {"BLW_ISSUE", "BLW_WRITE", "SCWRDATA", "SCWREND"}
       => blk_cnt <= cur.sz
  /\ st \in {"SCREND", "SCRNLSN", "SCWREND"} => bus = "DES"

\* Between commands everything of the last one is there.
AllThere ==
  st \notin OpeningStates \cup DOMAIN CommandsIn =>
    /\ cur.cmd = "SCW" => pops = 8 /\ columns = 1
    /\ cur.cmd = "BLW" => pops = 8 * Bursts /\ columns = Bursts
    /\ cur.cmd = "SCR" => words = 0..7 /\ columns = 1

CountType == pops \in Nat /\ columns \in Nat

TransferInv == CountType /\ WordsSoFar /\ BlockCounted /\ AllThere

-----------------------------------------------------------------------------
(***************************************************************************)
(* The observers.                                                          *)
(***************************************************************************)
(* The watched engine is the engine.                                         *)
LEMMA WatchedIsEngine == WatchedSpec => Spec
<1>1. WatchedInit => Init
  BY Zenon DEF WatchedInit
<1>2. [WatchedNext]_watched => [Next]_vars
  BY Zenon DEF WatchedNext, watched, Next
<1> QED BY <1>1, <1>2, PTL DEF WatchedSpec, Spec

(* So its types and flags are what the engine's theorems say.                *)
LEMMA EngineFacts == WatchedSpec => [](TypeOK /\ QuietInv)
  BY WatchedIsEngine, TypeCorrect, QuietInvariant, PTL

(* The bounds the ages are compared with are numbers.                        *)
LEMMA Bounds ==
  /\ TRP_MIN \in Nat /\ TRAS_MIN \in Nat /\ TRCD_MIN \in Nat
  /\ TRCD_WAIT \in Word7 /\ CNT_SCREAD \in Word7
  /\ CNT_RIDL \in Word7 /\ CNT_SELFREF_TXSR \in Word7 /\ CNT_PDOWN_TXP \in Word7
  /\ CNT_TDLLK \in Nat
  /\ TRFC \in Nat /\ TDLLK \in Nat
<1>1. CNT_TDLLK \in Nat
  BY TimingAssumption, WordSizes DEF CNT_TDLLK
<1>2. TDLLK \in Nat
  BY <1>1 DEF TDLLK, CNT_TMRD
<1>3. TRFC \in Nat
  BY ParameterTypes DEF TRFC, Word7
<1> QED BY <1>1, <1>2, <1>3, ParameterTypes, TimingAssumption, TimingBoundsAssumption, Zenon

-----------------------------------------------------------------------------
(***************************************************************************)
(* tRP.                                                                    *)
(***************************************************************************)
(* A clock keeps the invariant of tRP.                                       *)
LEMMA TrpKept ==
  ASSUME TRP_MIN <= 4, TypeOK, QuietInv, AgeType, TrpInv, Clock, Sample
  PROVE  TrpInv'
<1>1. Move
  BY ClockMoves
<1>2. /\ sincePre \in Nat /\ TRP_MIN \in Nat
      /\ sincePre' = IF bus = "PRE" THEN 0
                     ELSE IF sincePre < TRP_MIN + 1 THEN sincePre + 1 ELSE sincePre
  BY Bounds DEF AgeType, Sample, Age, PreCap
<1>3. st \in States /\ cnt \in 0..127
  BY StateTypes
<1>4. selfref_active_o' => sincePre' >= TRP_MIN
  <2>1. selfref_active_o' => st \in {"SREF_ENTER", "SREF_IDLE"}
    BY Zenon DEF Clock, DelayedOutputs, QuietInv
  <2>2. st \in {"SREF_ENTER", "SREF_IDLE"} => sincePre >= TRP_MIN /\ bus # "PRE"
    BY DEF TrpInv, PreStates, TrpStates
  <2> QED BY <1>2, <2>1, <2>2
<1>5. CASE IdleMove
  BY <1>2, <1>3, <1>4, <1>5 DEF TrpInv, IdleMove, Goto, PreStates, TrpStates, CNT_GETCMD
<1>6. CASE FetchMove \/ ActivateMove \/ OpenMove
  BY <1>2, <1>3, <1>4, <1>6 DEF TrpInv, FetchMove, ActivateMove, OpenMove, Moves, Dwell, Goto, CntTick, PreStates, TrpStates, CNT_GETCMD
<1>7. CASE ReadMove \/ WriteMove
  BY <1>2, <1>3, <1>4, <1>7 DEF TrpInv, ReadMove, WriteMove, Moves, Dwell, Goto, CntTick, PreStates, TrpStates
<1>8. CASE RefreshMove \/ SelfRefreshMove \/ PowerDownMove \/ DllMove
  BY <1>2, <1>3, <1>4, <1>8 DEF TrpInv, RefreshMove, SelfRefreshMove, PowerDownMove, DllMove, Moves, Dwell, Goto, CntTick, PreStates, TrpStates, CNT_RNOP
<1> QED BY <1>1, <1>5, <1>6, <1>7, <1>8, Zenon DEF Move

-----------------------------------------------------------------------------
(***************************************************************************)
(* tRFC.                                                                   *)
(***************************************************************************)
(* A clock keeps the invariant of tRFC.                                      *)
LEMMA TrfcKept ==
  ASSUME TypeOK, QuietInv, AgeType, TrfcInv, Clock, Sample
  PROVE  TrfcInv'
<1>1. Move
  BY ClockMoves
<1>2. /\ sinceRef \in Nat /\ CNT_RIDL \in 0..127 /\ TRFC = CNT_RIDL + 1
      /\ sinceRef' = IF bus = "REF" THEN 0
                     ELSE IF sinceRef < TRFC + 1 THEN sinceRef + 1 ELSE sinceRef
  BY Bounds DEF AgeType, Sample, Age, RefCap, TRFC, Word7
<1>3. /\ st \in States /\ cnt \in 0..127
      /\ next_state_after_trcd \in
           {"IDLE", "ISSUE_READ", "ISSUE_WRITE", "BLR_ISSUE", "BLW_ISSUE"}
  BY StateTypes
<1>4. selfref_active_o' => sinceRef' >= TRFC
  <2>1. selfref_active_o' => st \in {"SREF_ENTER", "SREF_IDLE"}
    BY Zenon DEF Clock, DelayedOutputs, QuietInv
  <2>2. st \in {"SREF_ENTER", "SREF_IDLE"} => sinceRef >= TRFC /\ bus # "REF"
    BY DEF TrfcInv
  <2> QED BY <1>2, <2>1, <2>2
<1>5. CASE IdleMove \/ FetchMove \/ ActivateMove \/ OpenMove
  BY <1>2, <1>3, <1>4, <1>5 DEF TrfcInv, BusCommand, IdleMove, FetchMove, ActivateMove,
     OpenMove, Moves, Dwell, Goto, PreStates
<1>6. CASE ReadMove \/ WriteMove
  BY <1>2, <1>3, <1>4, <1>6 DEF TrfcInv, BusCommand, ReadMove, WriteMove, Moves, Dwell,
     Goto
<1>7. CASE RefreshMove
  BY <1>2, <1>3, <1>4, <1>7 DEF TrfcInv, BusCommand, RefreshMove, Moves, Dwell, Goto,
     CntTick, CNT_RREF
<1>8. CASE SelfRefreshMove \/ PowerDownMove \/ DllMove
  BY <1>2, <1>3, <1>4, <1>8 DEF TrfcInv, BusCommand, SelfRefreshMove, PowerDownMove,
     DllMove, Moves, Dwell, Goto
<1> QED BY <1>1, <1>5, <1>6, <1>7, <1>8, Zenon DEF Move

-----------------------------------------------------------------------------
(***************************************************************************)
(* tDLLK.                                                                  *)
(***************************************************************************)
(* The lock counter runs in DLL_TDLLK only.                                  *)
LEMMA LockCount ==
  ASSUME Clock, st = "DLL_TMRD" \/ st = "DLL_TDLLK"
  PROVE  \/ st = "DLL_TMRD" /\ cnt = 0 /\ st' = "DLL_TDLLK" /\ dll_tdllk_cnt' = CNT_TDLLK
         \/ st = "DLL_TMRD" /\ cnt # 0 /\ Goto("DLL_TMRD", CntTick)
         \/ /\ st = "DLL_TDLLK" /\ dll_tdllk_cnt # 0
            /\ st' = "DLL_TDLLK" /\ dll_tdllk_cnt' = dll_tdllk_cnt - 1
         \/ st = "DLL_TDLLK" /\ dll_tdllk_cnt = 0 /\ st' = "IDLE"
<1>1. DllWaitTmrd \/ DllWaitTdllk
  BY ArmOf, Zenon
<1>2. CASE DllWaitTmrd
  BY <1>2, Zenon DEF DllWaitTmrd, Dwell, Goto
<1>3. CASE DllWaitTdllk
  BY <1>3, Zenon DEF DllWaitTdllk, Goto
<1> QED BY <1>1, <1>2, <1>3

(* A clock keeps the invariant of tDLLK.                                     *)
LEMMA TdllkKept ==
  ASSUME TypeOK, QuietInv, AgeType, TdllkInv, Clock, Sample
  PROVE  TdllkInv'
<1>1. Move
  BY ClockMoves
<1>2. /\ sinceMrs \in Nat /\ CNT_TDLLK \in Nat /\ TDLLK = CNT_TDLLK + 3
      /\ sinceMrs' = IF bus = "MRS" THEN 0
                     ELSE IF sinceMrs < TDLLK + 1 THEN sinceMrs + 1 ELSE sinceMrs
  BY Bounds DEF AgeType, Sample, Age, MrsCap, TDLLK, CNT_TMRD
<1>3. /\ st \in States /\ cnt \in 0..127 /\ dll_tdllk_cnt \in Nat
      /\ next_state_after_trcd \in
           {"IDLE", "ISSUE_READ", "ISSUE_WRITE", "BLR_ISSUE", "BLW_ISSUE"}
  BY StateTypes
<1>4. selfref_active_o' => sinceMrs' >= TDLLK
  <2>1. selfref_active_o' => st \in {"SREF_ENTER", "SREF_IDLE"}
    BY Zenon DEF Clock, DelayedOutputs, QuietInv
  <2>2. st \in {"SREF_ENTER", "SREF_IDLE"} => sinceMrs >= TDLLK /\ bus # "MRS"
    BY DEF TdllkInv
  <2> QED BY <1>2, <2>1, <2>2
<1>5. CASE IdleMove \/ FetchMove \/ ActivateMove \/ OpenMove
  BY <1>2, <1>3, <1>4, <1>5 DEF TdllkInv, BusCommand, IdleMove, FetchMove, ActivateMove,
     OpenMove, Moves, Dwell, Goto, PreStates
<1>6. CASE ReadMove \/ WriteMove
  BY <1>2, <1>3, <1>4, <1>6 DEF TdllkInv, BusCommand, ReadMove, WriteMove, Moves, Dwell,
     Goto
<1>7. CASE RefreshMove \/ SelfRefreshMove \/ PowerDownMove
  BY <1>2, <1>3, <1>4, <1>7 DEF TdllkInv, BusCommand, RefreshMove, SelfRefreshMove,
     PowerDownMove, Moves, Dwell, Goto
<1>8. CASE DllMove /\ st \notin {"DLL_TMRD", "DLL_TDLLK"}
  BY <1>2, <1>3, <1>4, <1>8 DEF TdllkInv, BusCommand, DllMove, Moves, Dwell, Goto,
     CntTick, CNT_TMRD
<1>9. CASE st = "DLL_TMRD" \/ st = "DLL_TDLLK"
  <2>1. bus' = "DES"
    BY <1>1, <1>9 DEF Move, IdleMove, FetchMove, ActivateMove, OpenMove, ReadMove, WriteMove,
       RefreshMove, SelfRefreshMove, PowerDownMove, DllMove, Moves, Dwell
  <2>2. bus = "MRS" => st = "DLL_TMRD" /\ cnt = 3
    BY <1>9 DEF TdllkInv, CNT_TMRD
  <2> QED BY <1>2, <1>3, <1>4, <1>9, <2>1, <2>2, LockCount
          DEF TdllkInv, BusCommand, Goto, CntTick, CNT_TMRD
<1> QED BY <1>1, <1>5, <1>6, <1>7, <1>8, <1>9, Zenon DEF Move

-----------------------------------------------------------------------------
(***************************************************************************)
(* tXP and tXSR.                                                           *)
(***************************************************************************)
(* A clock keeps the invariant of tXP.                                       *)
LEMMA TxpKept ==
  ASSUME TypeOK, QuietInv, AgeType, TxpInv, Clock, Sample
  PROVE  TxpInv'
<1>1. Move
  BY ClockMoves
<1>2. /\ sincePowerDown \in Nat /\ CNT_PDOWN_TXP \in 0..127
      /\ sincePowerDown' =
           IF pdown_active_o THEN 0
           ELSE IF sincePowerDown < CNT_PDOWN_TXP + 1 THEN sincePowerDown + 1
           ELSE sincePowerDown
  BY Bounds DEF AgeType, Sample, Age, PowerDownCap, Word7
<1>3. /\ st \in States /\ cnt \in 0..127
      /\ next_state_after_trcd \in
           {"IDLE", "ISSUE_READ", "ISSUE_WRITE", "BLR_ISSUE", "BLW_ISSUE"}
  BY StateTypes
<1>4. st # "PD_IDLE" => ~pdown_active_o
  BY Zenon DEF QuietInv
<1>5. CASE IdleMove \/ FetchMove \/ ActivateMove \/ OpenMove
  BY <1>2, <1>3, <1>4, <1>5 DEF TxpInv, IdleMove, FetchMove, ActivateMove,
     OpenMove, Moves, Dwell, Goto, PreStates
<1>6. CASE ReadMove \/ WriteMove
  BY <1>2, <1>3, <1>4, <1>6 DEF TxpInv, ReadMove, WriteMove, Moves, Dwell, Goto
<1>7. CASE RefreshMove \/ SelfRefreshMove \/ DllMove
  BY <1>2, <1>3, <1>4, <1>7 DEF TxpInv, RefreshMove, SelfRefreshMove, DllMove, Moves,
     Dwell, Goto
<1>8. CASE PowerDownMove
  BY <1>2, <1>3, <1>4, <1>8 DEF TxpInv, BusCommand, PowerDownMove, Moves, Dwell, Goto,
     CntTick
<1> QED BY <1>1, <1>5, <1>6, <1>7, <1>8, Zenon DEF Move

(* A clock keeps the invariant of tXSR.                                      *)
LEMMA TxsrKept ==
  ASSUME TypeOK, QuietInv, AgeType, TxsrInv, Clock, Sample
  PROVE  TxsrInv'
<1>1. Move
  BY ClockMoves
<1>2. /\ sinceSelfRef \in Nat /\ CNT_SELFREF_TXSR \in 0..127
      /\ sinceSelfRef' =
           IF selfref_active_o /\ st = "SREF_EXIT_WAIT" THEN 0
           ELSE IF sinceSelfRef < CNT_SELFREF_TXSR + 1 THEN sinceSelfRef + 1
           ELSE sinceSelfRef
  BY Bounds DEF AgeType, Sample, Age, SelfRefCap, SelfRefreshEnds, Word7
<1>3. /\ st \in States /\ cnt \in 0..127
      /\ next_state_after_trcd \in
           {"IDLE", "ISSUE_READ", "ISSUE_WRITE", "BLR_ISSUE", "BLW_ISSUE"}
  BY StateTypes
<1>4. st = "SREF_EXIT_WAIT" => ~selfref_active_o'
  <2>1. st = "SREF_EXIT_WAIT" => st \notin {"SREF_ENTER", "SREF_IDLE"}
    OBVIOUS
  <2>2. st = "SREF_EXIT_WAIT" => ~selfref_active
    BY <2>1, Zenon DEF QuietInv
  <2> QED BY <2>2, Zenon DEF Clock, DelayedOutputs
<1>5. CASE IdleMove \/ FetchMove \/ ActivateMove \/ OpenMove
  BY <1>2, <1>3, <1>5 DEF TxsrInv, IdleMove, FetchMove, ActivateMove,
     OpenMove, Moves, Dwell, Goto, PreStates
<1>6. CASE ReadMove \/ WriteMove
  BY <1>2, <1>3, <1>6 DEF TxsrInv, ReadMove, WriteMove, Moves, Dwell, Goto
<1>7. CASE RefreshMove \/ PowerDownMove \/ DllMove
  BY <1>2, <1>3, <1>7 DEF TxsrInv, RefreshMove, PowerDownMove, DllMove, Moves,
     Dwell, Goto
<1>8. CASE SelfRefreshMove
  BY <1>2, <1>3, <1>4, <1>8 DEF TxsrInv, BusCommand, SelfRefreshMove, Moves, Dwell, Goto,
     CntTick
<1> QED BY <1>1, <1>5, <1>6, <1>7, <1>8, Zenon DEF Move

-----------------------------------------------------------------------------
(***************************************************************************)
(* tRCD.                                                                   *)
(***************************************************************************)
(* The wait is the bound less the cycle that drives the column command.      *)
LEMMA TrcdWait ==
  ASSUME TRCD_MIN <= 64
  PROVE  TRCD_WAIT \in 0..63 /\ TRCD_WAIT <= TRCD_MIN /\ TRCD_WAIT + 1 >= TRCD_MIN
<1>1. CASE TRCD_MIN > 1
  <2>1. TRCD_MIN - 1 \in 0..63
    BY <1>1, TimingAssumption
  <2>2. TRCD_WAIT = (TRCD_MIN - 1) % 64
    BY <1>1 DEF TRCD_WAIT
  <2>3. (TRCD_MIN - 1) % 64 = TRCD_MIN - 1
    BY <2>1
  <2> QED BY <2>1, <2>2, <2>3, TimingAssumption
<1>2. CASE ~(TRCD_MIN > 1)
  BY <1>2, TimingAssumption DEF TRCD_WAIT
<1> QED BY <1>1, <1>2

(* A clock keeps the invariant of tRCD.                                      *)
LEMMA TrcdKept ==
  ASSUME TRCD_MIN <= 64, TypeOK, AgeType, TrcdInv, Clock, Sample
  PROVE  TrcdInv'
<1>1. Move
  BY ClockMoves
<1>2. /\ sinceAct \in Nat /\ TRCD_MIN \in Nat
      /\ sinceAct' = IF bus = "ACT" THEN 0
                     ELSE IF sinceAct < TRCD_MIN + 1 THEN sinceAct + 1 ELSE sinceAct
      /\ TRCD_WAIT \in 0..63 /\ TRCD_WAIT <= TRCD_MIN
  BY Bounds, TrcdWait DEF AgeType, Sample, Age, ActCap
<1>3. /\ st \in States /\ cnt \in 0..127
      /\ next_state_after_trcd \in
           {"IDLE", "ISSUE_READ", "ISSUE_WRITE", "BLR_ISSUE", "BLW_ISSUE"}
  BY StateTypes
<1>4. CASE IdleMove \/ FetchMove \/ ActivateMove
  BY <1>2, <1>3, <1>4 DEF TrcdInv, ColumnStates, IdleMove, FetchMove, ActivateMove,
     Goto, PreStates
<1>5. CASE OpenMove
  BY <1>2, <1>3, <1>5 DEF TrcdInv, ColumnStates, OpenMove, Moves, Dwell, Goto, CntTick
<1>6. CASE ReadMove
  BY <1>2, <1>3, <1>6 DEF TrcdInv, ColumnStates, ReadMove, Moves, Dwell, Goto
<1>7. CASE WriteMove
  BY <1>2, <1>3, <1>7 DEF TrcdInv, ColumnStates, WriteMove, Moves, Dwell, Goto
<1>8. CASE RefreshMove \/ SelfRefreshMove \/ PowerDownMove \/ DllMove
  BY <1>2, <1>3, <1>8 DEF TrcdInv, ColumnStates, RefreshMove, SelfRefreshMove,
     PowerDownMove, DllMove, Moves, Dwell, Goto
<1> QED BY <1>1, <1>4, <1>5, <1>6, <1>7, <1>8, Zenon DEF Move

-----------------------------------------------------------------------------
(***************************************************************************)
(* tRRD and tFAW.                                                          *)
(***************************************************************************)
(* The gap counter counts on, or is restarted where an ACT is about to be    *)
(* driven; GETCMD lets a command pass only when the gap is met.              *)
LEMMA GapCounts ==
  ASSUME Clock
  PROVE  /\ \/ act_gap_cnt' = ActGapTick /\ have_act_any' = have_act_any
            \/ act_gap_cnt' = 0 /\ have_act_any'
         /\ st = "GETCMD" /\ st' = "ACTIVATE" =>
              ActGapMet /\ act_gap_cnt' = 0 /\ have_act_any'
<1>1. ASSUME TimersTick, st # "GETCMD"
      PROVE  /\ act_gap_cnt' = ActGapTick /\ have_act_any' = have_act_any
             /\ st # "GETCMD"
  BY <1>1, Zenon DEF TimersTick
<1>2. CASE IdleArms
  <2>1. TimersTick /\ st # "GETCMD"
    BY <1>2 DEF IdleArms, Idle, StartSelfRefresh, StartDll, StartPowerDown, StartRefresh,
       StartCommand, StayIdle
  <2> QED BY <1>1, <2>1, Zenon
<1>3. CASE GetCommand
  <2>1. CASE cnt = 0 /\ ActGapMet
    BY <1>3, <2>1, Zenon DEF GetCommand, RestartActGap
  <2>2. CASE ~(cnt = 0 /\ ActGapMet)
    <3>1. TimersTick /\ st' = "GETCMD"
      BY <1>3, <2>2, Zenon DEF GetCommand, Goto
    <3>2. st' # "ACTIVATE"
      BY <3>1
    <3> QED BY <3>1, <3>2, Zenon DEF TimersTick
  <2> QED BY <2>1, <2>2, Zenon
<1>4. CASE ActivateBlock
  <2>1. st # "GETCMD"
    BY <1>4 DEF ActivateBlock, Activating
  <2>2. TimersTick \/ RestartActGap
    BY <1>4, Zenon DEF ActivateBlock
  <2> QED BY <2>1, <2>2, Zenon DEF TimersTick, RestartActGap
<1>5. CASE CommandArms /\ ~GetCommand /\ ~ActivateBlock
  <2>1. TimersTick
    BY <1>5, Zenon DEF CommandArms, ActivateHold, ActivateScalar, ActivateDrop, WaitTrcd,
       IssueRead, ScalarRead, ScalarReadEnd, IssueWrite, ScalarWrite, WriteData, WriteEnd,
       WriteLatency, BlockReadActivate, BlockWriteActivate, BlockActivate, BlockReadIssue,
       BlockRead, DefaultArm, BlockWriteIssue, BlockWrite, Sequencing, Plain
  <2>2. st # "GETCMD"
    BY <1>5 DEF CommandArms, ActivateHold, ActivateScalar, ActivateDrop, Activating,
       WaitTrcd, IssueRead, ScalarRead, ScalarReadEnd, IssueWrite, ScalarWrite, WriteData,
       WriteEnd, WriteLatency, BlockReadActivate, BlockWriteActivate, BlockActivate,
       BlockReadIssue, BlockRead, DefaultArm, BlockWriteIssue, BlockWrite, Dwell
  <2> QED BY <1>1, <2>1, <2>2, Zenon
<1>6. CASE MaintenanceArms
  <2>1. act_gap_cnt' = ActGapTick /\ have_act_any' = have_act_any
    BY <1>6, Zenon DEF MaintenanceArms, RefreshPrecharge, RefreshWaitTrp, Refresh,
       RefreshWaitTrfc, SelfRefreshPrecharge, SelfRefreshWaitTrp, SelfRefreshEnter,
       AbortSelfRefresh, SelfRefreshIdle, ExitSelfRefresh, SelfRefreshExitWait,
       PowerDownPrecharge, PowerDownWaitTrp, AbortPowerDown, PowerDownIdle, ExitPowerDown,
       PowerDownExitWait, ExitWait, AbortEntry, LowPowerArm, LowPowerFrame, DllPrecharge,
       DllWaitTrp, DllModeSet, DllWaitTmrd, DllWaitTdllk, DllArm, Sequencing, Plain,
       TimersTick
  <2>2. st # "GETCMD"
    BY <1>6 DEF MaintenanceArms, RefreshPrecharge, RefreshWaitTrp, Refresh,
       RefreshWaitTrfc, SelfRefreshPrecharge, SelfRefreshWaitTrp, SelfRefreshEnter,
       AbortSelfRefresh, SelfRefreshIdle, ExitSelfRefresh, SelfRefreshExitWait,
       PowerDownPrecharge, PowerDownWaitTrp, AbortPowerDown, PowerDownIdle, ExitPowerDown,
       PowerDownExitWait, ExitWait, DllPrecharge, DllWaitTrp, DllModeSet, DllWaitTmrd,
       DllWaitTdllk, Dwell
  <2> QED BY <2>1, <2>2, Zenon
<1> QED BY <1>2, <1>3, <1>4, <1>5, <1>6, Zenon DEF Clock

(* A clock keeps the invariant of the ACT spacing.                           *)
LEMMA ActKept ==
  ASSUME TypeOK, AgeType, ActInv, Clock, Sample
  PROVE  ActInv'
<1>1. Move
  BY ClockMoves
<1>2. /\ sinceActEdge \in Nat /\ TRAS_MIN \in Nat /\ TRAS_MIN >= 6
      /\ sinceActEdge' = IF ActEdge THEN 0
                         ELSE IF sinceActEdge < TRAS_MIN + 1 THEN sinceActEdge + 1
                         ELSE sinceActEdge
      /\ lastBus' = bus
  BY Bounds, TimingBoundsAssumption DEF AgeType, Sample, Age, ActEdgeCap, ACT_GAP_MIN
<1>3. /\ st \in States /\ cnt \in 0..127 /\ act_gap_cnt \in 0..63
      /\ have_act_any \in BOOLEAN
      /\ next_state_after_trcd \in
           {"IDLE", "ISSUE_READ", "ISSUE_WRITE", "BLR_ISSUE", "BLW_ISSUE"}
  BY StateTypes DEF TypeOK, FlagType
<1>4. /\ act_gap_cnt' \in {0, act_gap_cnt, act_gap_cnt + 1}
      /\ have_act_any => have_act_any'
      /\ have_act_any' => have_act_any \/ act_gap_cnt' = 0
      /\ ~have_act_any => act_gap_cnt' \in {0, act_gap_cnt}
  BY GapCounts DEF ActGapTick
<1>5. ASSUME st # "ACTIVATE", ~(st = "GETCMD" /\ st' = "ACTIVATE")
      PROVE  /\ st' = "GETCMD" => bus' # "ACT"
             /\ st' # "ACTIVATE"
             /\ st' \in {"BLR_ACT", "BLW_ACT"} => bus' = "ACT"
             /\ ~ActEdge'
  <2>1. CASE IdleMove \/ FetchMove \/ OpenMove
    BY <1>2, <1>3, <1>5, <2>1 DEF ActInv, ActEdge, IdleMove, FetchMove, OpenMove, Moves,
       Dwell, Goto, PreStates
  <2>2. CASE ReadMove \/ WriteMove
    BY <1>2, <1>3, <2>2 DEF ActEdge, ReadMove, WriteMove, Moves, Dwell, Goto
  <2>3. CASE RefreshMove \/ SelfRefreshMove \/ PowerDownMove \/ DllMove
    BY <1>2, <1>3, <2>3 DEF ActEdge, RefreshMove, SelfRefreshMove, PowerDownMove, DllMove,
       Moves, Dwell, Goto
  <2>4. CASE ActivateMove
    BY <1>5, <2>4, Zenon DEF ActivateMove
  <2> QED BY <1>1, <2>1, <2>2, <2>3, <2>4, Zenon DEF Move
<1>6. /\ act_gap_cnt' <= sinceActEdge' + 2 \/ sinceActEdge' >= ACT_GAP_MIN
      /\ ~have_act_any' => sinceActEdge' >= ACT_GAP_MIN
  BY <1>2, <1>3, <1>4 DEF ActInv, ACT_GAP_MIN
<1>7. CASE st = "GETCMD" /\ st' = "ACTIVATE"
  <2>1. cnt' = 1 /\ bus' = "DES"
    BY <1>1, <1>7 DEF Move, IdleMove, FetchMove, ActivateMove, OpenMove, ReadMove,
       WriteMove, RefreshMove, SelfRefreshMove, PowerDownMove, DllMove, Moves, Dwell, Goto,
       CNT_ACTIVATE
  <2>2. have_act_any' /\ act_gap_cnt' = 0 /\ ActGapMet
    BY <1>7, GapCounts
  <2>3. sinceActEdge' + 1 >= ACT_GAP_MIN
    BY <1>2, <1>3, <1>7, <2>2 DEF ActInv, ActEdge, ActGapMet, ACT_GAP_MIN
  <2>4. ~ActEdge'
    BY <2>1 DEF ActEdge
  <2> QED BY <1>6, <1>7, <2>1, <2>2, <2>3, <2>4 DEF ActInv
<1>8. CASE st = "ACTIVATE"
  <2>1. ActivateMove
    BY <1>1, <1>8 DEF Move, IdleMove, FetchMove, OpenMove, ReadMove, WriteMove, RefreshMove,
       SelfRefreshMove, PowerDownMove, DllMove, Moves, Dwell
  <2>2. bus' = "ACT" /\ have_act_any'
    BY <1>4, <1>8, <2>1 DEF ActivateMove, ActInv
  <2>3. CASE cnt = 1 /\ bus # "ACT" /\ act_gap_cnt = 0 /\ sinceActEdge + 1 >= ACT_GAP_MIN
    <3>1. st' = "ACTIVATE" /\ cnt' = 0
      BY <2>1, <2>3 DEF ActivateMove, Goto, CntTick
    <3>2. act_gap_cnt' <= 1 /\ sinceActEdge' >= ACT_GAP_MIN
      BY <1>2, <1>4, <2>3 DEF ActEdge, ACT_GAP_MIN
    <3> QED BY <1>6, <2>2, <3>1, <3>2 DEF ActInv
  <2>4. CASE cnt = 0 /\ bus = "ACT"
    <3>1. ~ActEdge'
      BY <1>2, <2>4 DEF ActEdge
    <3>2. /\ st' # "GETCMD"
          /\ st' = "ACTIVATE" => cnt' = 0
      BY <2>1, <2>4 DEF ActivateMove, Goto, CntTick
    <3> QED BY <1>6, <2>2, <3>1, <3>2 DEF ActInv
  <2> QED BY <1>8, <2>3, <2>4 DEF ActInv
<1> QED BY <1>5, <1>6, <1>7, <1>8 DEF ActInv

-----------------------------------------------------------------------------
(***************************************************************************)
(* tRAS.                                                                   *)
(***************************************************************************)
(* A clock keeps the invariant of tRAS.                                      *)
LEMMA TrasKept ==
  ASSUME TRAS_MIN <= TRCD_WAIT + CNT_SCREAD + 14, TRAS_MIN <= TRCD_WAIT + 43,
         TypeOK, AgeType, ActInv, CommandInv, TrasInv, Clock, Sample
  PROVE  TrasInv'
<1>1. Move /\ KeepsCommand
  BY ClockMoves
<1>2. /\ sinceActEdge \in Nat /\ TRAS_MIN \in Nat
      /\ sinceActEdge' = IF ActEdge THEN 0
                         ELSE IF sinceActEdge < TRAS_MIN + 1 THEN sinceActEdge + 1
                         ELSE sinceActEdge
      /\ ActEdge => st = "ACTIVATE"
      /\ TRCD_WAIT \in 0..127 /\ CNT_SCREAD \in 0..127
  BY Bounds DEF AgeType, Sample, Age, ActEdgeCap, ActInv, Word7
<1>3. /\ st \in States /\ cnt \in 0..127 /\ cur.sz \in 0..3 /\ cur.cmd \in Commands
  BY StateTypes
<1>4. CASE FetchMove
  BY <1>4 DEF TrasInv, FetchMove, Goto, ColumnStates
<1>5. CASE ~FetchMove
  <2>1. cur' = cur
    <3>1. st = "GETCMD" => FetchMove
      BY <1>1 DEF Move, IdleMove, ActivateMove, OpenMove, ReadMove, WriteMove, RefreshMove,
         SelfRefreshMove, PowerDownMove, DllMove, Moves, Dwell
    <3> QED BY <1>1, <1>5, <3>1, Zenon DEF KeepsCommand
  <2>2. CASE IdleMove
    BY <1>2, <1>3, <2>1, <2>2 DEF TrasInv, Served, IdleMove, Goto, ColumnStates, PreStates
  <2>3. CASE ActivateMove
    BY <1>2, <1>3, <2>1, <2>3 DEF TrasInv, Served, ActivateMove, Goto, ColumnStates
  <2>4. CASE OpenMove
    <3>1. CASE st = "WAIT_TRCD"
      <4>1. /\ bus' = "DES"
            /\ sinceActEdge' = IF sinceActEdge < TRAS_MIN + 1 THEN sinceActEdge + 1
                               ELSE sinceActEdge
        BY <1>2, <2>4, <3>1 DEF OpenMove, Moves, Dwell
      <4>2. CASE cnt = 0
        <5>1. /\ cur.cmd \in DOMAIN FirstColumn
              /\ st' = FirstColumn[cur.cmd]
          BY <2>4, <3>1, <4>2 DEF CommandInv, OpenMove, Moves, Dwell, Goto
        <5>2. \/ cur.cmd = "SCR" /\ st' = "ISSUE_READ"
              \/ cur.cmd = "SCW" /\ st' = "ISSUE_WRITE"
              \/ cur.cmd = "BLR" /\ st' = "BLR_ISSUE"
              \/ cur.cmd = "BLW" /\ st' = "BLW_ISSUE"
          BY <5>1 DEF FirstColumn
        <5>3. sinceActEdge >= TRCD_WAIT \/ sinceActEdge >= TRAS_MIN
          BY <1>2, <1>3, <3>1, <4>2 DEF TrasInv
        <5> QED BY <1>2, <2>1, <4>1, <5>2, <5>3 DEF TrasInv, Served, ColumnStates
      <4>3. CASE cnt # 0
        <5>1. st' = "WAIT_TRCD" /\ cnt' = cnt - 1
          BY <1>3, <2>4, <3>1, <4>3 DEF OpenMove, Moves, Dwell, Goto, CntTick
        <5> QED BY <1>2, <1>3, <3>1, <4>1, <5>1 DEF TrasInv, ColumnStates
      <4> QED BY <4>2, <4>3
    <3>2. CASE st # "WAIT_TRCD"
      BY <1>2, <1>3, <2>1, <2>4, <3>2 DEF TrasInv, OpenMove, Moves, Dwell, Goto, CntTick,
         ColumnStates
    <3> QED BY <3>1, <3>2
  <2>5. CASE ReadMove
    BY <1>2, <1>3, <2>1, <2>5 DEF TrasInv, Served, CommandInv, CommandsIn, ReadMove,
       Moves, Dwell, Goto, CntTick, ColumnStates
  <2>6. CASE WriteMove
    BY <1>2, <1>3, <2>1, <2>6 DEF TrasInv, Served, WriteMove, Moves, Dwell, Goto, CntTick,
       ColumnStates, CNT_SCWRITE, CNT_SCWRDATA_SCW, CNT_SCWREND, cnt_scwrdata_sz
  <2>7. CASE RefreshMove \/ SelfRefreshMove \/ PowerDownMove \/ DllMove
    BY <1>2, <1>3, <2>1, <2>7 DEF TrasInv, Served, RefreshMove, SelfRefreshMove,
       PowerDownMove, DllMove, Moves, Dwell, Goto, ColumnStates
  <2> QED BY <1>1, <1>5, <2>2, <2>3, <2>4, <2>5, <2>6, <2>7, Zenon DEF Move
<1> QED BY <1>4, <1>5

-----------------------------------------------------------------------------
(***************************************************************************)
(* From the steps to the behaviours.                                       *)
(***************************************************************************)
\* Power-up and RESET: the engine idles and every age is past its bound.
Fresh ==
  /\ st = "IDLE" /\ cnt = 0 /\ bus = "DES" /\ cur.cmd = "NOP"
  /\ act_gap_cnt = 0 /\ have_act_any = FALSE /\ selfref_active_o = FALSE
  /\ TimingInit

LEMMA FreshAfterInit == WatchedInit => Fresh
  BY DEF WatchedInit, Init, Fresh

LEMMA FreshAfterReset == Reset /\ SampleReset => Fresh'
  BY DEF Reset, Goto, Drive, SampleReset, TimingInit, Fresh

(* It satisfies every invariant.                                             *)
LEMMA FreshIsFine ==
  ASSUME Fresh
  PROVE  /\ AgeType /\ TrpInv /\ TrfcInv /\ TdllkInv /\ TxpInv /\ TxsrInv /\ TrcdInv
         /\ ActInv /\ CommandInv /\ TrasInv
<1>1. /\ TRP_MIN \in Nat /\ TRAS_MIN \in Nat /\ TRCD_MIN \in Nat /\ TRFC \in Nat
      /\ TDLLK \in Nat /\ CNT_PDOWN_TXP \in 0..127 /\ CNT_SELFREF_TXSR \in 0..127
      /\ CNT_RIDL \in 0..127 /\ TRFC = CNT_RIDL + 1
      /\ TRAS_MIN >= ACT_GAP_MIN
  BY Bounds, TimingBoundsAssumption DEF TRFC, Word7
<1>2. AgeType
  BY <1>1 DEF Fresh, TimingInit, AgeType, ActCap, ActEdgeCap, PreCap, RefCap, MrsCap,
     SelfRefCap, PowerDownCap
<1>3. TrpInv /\ TrfcInv /\ TdllkInv
  BY <1>1 DEF Fresh, TimingInit, TrpInv, TrfcInv, TdllkInv, BusCommand, PreCap, RefCap,
     MrsCap, PreStates, TrpStates
<1>4. TxpInv /\ TxsrInv /\ TrcdInv
  BY <1>1 DEF Fresh, TimingInit, TxpInv, TxsrInv, TrcdInv, BusCommand, PowerDownCap,
     SelfRefCap, ActCap, ColumnStates
<1>5. ActInv /\ CommandInv /\ TrasInv
  BY <1>1 DEF Fresh, TimingInit, ActInv, ActEdge, CommandInv, CommandsIn, TrasInv, Served,
     ActEdgeCap, ColumnStates, ACT_GAP_MIN
<1> QED BY <1>2, <1>3, <1>4, <1>5

(* The invariants of the bounds that need no hypothesis.                     *)
FreeInv == AgeType /\ TrfcInv /\ TdllkInv /\ TxpInv /\ TxsrInv /\ ActInv /\ CommandInv

(* The ages stay numbers.                                                    *)
LEMMA AgesKept ==
  ASSUME AgeType, Sample
  PROVE  AgeType'
<1>1. \A e, c : \A a \in Nat : Age(a, e, c) \in Nat
  BY DEF Age
<1> QED BY <1>1, Zenon DEF AgeType, Sample

(* A watched step is a clock, a reset or a stutter.                          *)
LEMMA WatchedSteps ==
  ASSUME [WatchedNext]_watched
  PROVE  \/ Clock /\ Sample
         \/ Fresh'
         \/ UNCHANGED watched
  BY FreshAfterReset, Zenon DEF WatchedNext

(* Fresh states satisfy the invariants after a step too.                     *)
LEMMA FreshStep ==
  Fresh' => /\ AgeType' /\ TrpInv' /\ TrfcInv' /\ TdllkInv' /\ TxpInv' /\ TxsrInv'
            /\ TrcdInv' /\ ActInv' /\ CommandInv' /\ TrasInv'
<1>1. Fresh => /\ AgeType /\ TrpInv /\ TrfcInv /\ TdllkInv /\ TxpInv /\ TxsrInv
               /\ TrcdInv /\ ActInv /\ CommandInv /\ TrasInv
  BY FreshIsFine
<1> QED BY <1>1, PTL

(* A stutter changes none of them.                                           *)
LEMMA Stutters ==
  ASSUME UNCHANGED watched
  PROVE  /\ TrpInv => TrpInv'
         /\ FreeInv => FreeInv'
         /\ TrcdInv => TrcdInv'
         /\ TrasInv => TrasInv'
<1>1. /\ UNCHANGED <<st, cnt, bus, cur, from_blw, next_state_after_trcd, act_gap_cnt>>
      /\ UNCHANGED <<have_act_any, dll_tdllk_cnt, selfref_active_o>>
      /\ UNCHANGED <<lastBus, sinceAct, sinceActEdge, sincePre, sinceRef>>
      /\ UNCHANGED <<sinceMrs, sinceSelfRef, sincePowerDown>>
  BY Zenon DEF watched, vars, ages, burst, pins, dll, delayed
<1>2. (TrpInv => TrpInv') /\ (TrcdInv => TrcdInv') /\ (TrasInv => TrasInv')
  BY <1>1 DEF TrpInv, TrcdInv, TrasInv, Served
<1>3. (AgeType => AgeType') /\ (TrfcInv => TrfcInv') /\ (TdllkInv => TdllkInv')
  BY <1>1 DEF AgeType, TrfcInv, TdllkInv, BusCommand
<1>4. (TxpInv => TxpInv') /\ (TxsrInv => TxsrInv') /\ (ActInv => ActInv')
  BY <1>1 DEF TxpInv, TxsrInv, ActInv, ActEdge, BusCommand
<1>5. CommandInv => CommandInv'
  BY <1>1, Zenon DEF CommandInv
<1> QED BY <1>2, <1>3, <1>4, <1>5, Zenon DEF FreeInv

(* The invariants without a hypothesis hold in every behaviour.              *)
LEMMA FreeInvariant == WatchedSpec => []FreeInv
<1>1. TypeOK /\ QuietInv /\ FreeInv /\ [WatchedNext]_watched => FreeInv'
  BY WatchedSteps, FreshStep, Stutters, AgesKept, TrfcKept, TdllkKept, TxpKept, TxsrKept,
     ActKept, CommandKept, Zenon DEF FreeInv
<1>2. WatchedInit => FreeInv
  BY FreshAfterInit, FreshIsFine, Zenon DEF FreeInv
<1> QED BY <1>1, <1>2, EngineFacts, PTL DEF WatchedSpec

(* tRFC: nothing is commanded and CKE stays high for TRFC cycles after a     *)
(* REFRESH, for every length of its wait.                                    *)
THEOREM RefreshGetsItsTime == WatchedSpec => []TrfcRespected
<1>1. QuietInv /\ FreeInv => TrfcRespected
  BY Zenon DEF FreeInv, TrfcInv, QuietInv, TrfcRespected, LowPower
<1> QED BY <1>1, FreeInvariant, EngineFacts, PTL

(* tDLLK: after a mode change no command is issued and CKE stays high until  *)
(* tMRD and the lock time have passed, however long the lock time is.        *)
THEOREM DllGetsItsLockTime == WatchedSpec => []TdllkRespected
<1>1. QuietInv /\ FreeInv => TdllkRespected
  BY Zenon DEF FreeInv, TdllkInv, QuietInv, TdllkRespected, LowPower
<1> QED BY <1>1, FreeInvariant, EngineFacts, PTL

(* tXP: the first command after power-down waits the exit time.              *)
THEOREM PowerDownExitWaits == WatchedSpec => []TxpRespected
<1>1. FreeInv => TxpRespected
  BY Zenon DEF FreeInv, TxpInv, TxpRespected
<1> QED BY <1>1, FreeInvariant, PTL

(* tXSR: so does the first command after self-refresh.                       *)
THEOREM SelfRefreshExitWaits == WatchedSpec => []TxsrRespected
<1>1. FreeInv => TxsrRespected
  BY Zenon DEF FreeInv, TxsrInv, TxsrRespected
<1> QED BY <1>1, FreeInvariant, PTL

(* tRRD and tFAW: edges of ACT keep their spacing, whatever becomes of the   *)
(* commands they belong to.                                                  *)
THEOREM ActivatesKeepSpacing == WatchedSpec => []ActivatesSpaced
<1>1. FreeInv => ActivatesSpaced
  BY Zenon DEF FreeInv, ActInv, ActivatesSpaced
<1> QED BY <1>1, FreeInvariant, PTL

(* tRP, for every bound that fits the GETCMD and ACTIVATE cycles an aborted  *)
(* entry leaves between its PRECHARGE ALL and the next ACT; the monitors'    *)
(* bound, ddr2_timing_config.vh:25, is 4.                                    *)
THEOREM PrechargeGetsItsTime ==
  ASSUME TRP_MIN <= 4
  PROVE  WatchedSpec => []TrpRespected
<1>1. FreeInv /\ TypeOK /\ QuietInv /\ TrpInv /\ [WatchedNext]_watched => TrpInv'
  BY WatchedSteps, FreshStep, Stutters, TrpKept, Zenon DEF FreeInv
<1>2. WatchedInit => TrpInv
  BY FreshAfterInit, FreshIsFine, Zenon
<1>3. QuietInv /\ TrpInv => TrpRespected
  <2>1. pdown_active_o /\ QuietInv =>
          st \notin PreStates \cup TrpStates \cup {"IDLE", "GETCMD", "ACTIVATE"}
    BY DEF QuietInv, PreStates, TrpStates
  <2> QED BY <2>1, Zenon DEF TrpInv, TrpRespected, LowPower, ActEdge
<1> QED BY <1>1, <1>2, <1>3, FreeInvariant, EngineFacts, PTL DEF WatchedSpec

(* tRCD, for every bound the 6-bit wait register can hold.                   *)
THEOREM ColumnsWaitForTheirRow ==
  ASSUME TRCD_MIN <= 64
  PROVE  WatchedSpec => []TrcdRespected
<1>1. FreeInv /\ TypeOK /\ TrcdInv /\ [WatchedNext]_watched => TrcdInv'
  BY WatchedSteps, FreshStep, Stutters, TrcdKept, Zenon DEF FreeInv
<1>2. WatchedInit => TrcdInv
  BY FreshAfterInit, FreshIsFine, Zenon
<1>3. AgeType /\ TrcdInv => TrcdRespected
  BY TrcdWait, TimingAssumption DEF AgeType, TrcdInv, TrcdRespected
<1> QED BY <1>1, <1>2, <1>3, FreeInvariant, EngineFacts, PTL DEF WatchedSpec, FreeInv

(* tRAS of the rows that were used, for every bound within the latency of a  *)
(* read and of a write; the other properties need no such condition.         *)
THEOREM ServedRowsStayOpen ==
  ASSUME TRAS_MIN <= TRCD_WAIT + CNT_SCREAD + 14, TRAS_MIN <= TRCD_WAIT + 43
  PROVE  WatchedSpec => []TrasOfServedCommands
<1>1. FreeInv /\ TypeOK /\ TrasInv /\ [WatchedNext]_watched => TrasInv'
  BY WatchedSteps, FreshStep, Stutters, TrasKept, Zenon DEF FreeInv
<1>2. WatchedInit => TrasInv
  BY FreshAfterInit, FreshIsFine, Zenon
<1>3. AgeType /\ TrasInv => TrasOfServedCommands
  BY Bounds DEF AgeType, TrasInv, Served, TrasOfServedCommands
<1> QED BY <1>1, <1>2, <1>3, FreeInvariant, EngineFacts, PTL DEF WatchedSpec, FreeInv

-----------------------------------------------------------------------------
(***************************************************************************)
(* The traffic of a command with the data and return FIFOs.                *)
(***************************************************************************)
(* The counts: restarted with the command, else one more for each strobe.    *)
LEMMA Counted ==
  ASSUME TypeOK, Clock, Count
  PROVE  /\ st = "IDLE" /\ st' = "GETCMD" => pops' = 0 /\ words' = {} /\ columns' = 0
         /\ ~(st = "IDLE" /\ st' = "GETCMD") =>
              /\ pops' = IF \/ st \in {"SCWRITE", "BLW_WRITE"} /\ cnt = 0
                            \/ st = "SCWRDATA" /\ burst_cnt < 7
                           THEN pops + 1 ELSE pops
              /\ columns' = IF bus' \in {"RD", "WR"} THEN columns + 1 ELSE columns
              /\ words' = IF st = "SCREAD" /\ cnt = 0 THEN words \cup {0}
                          ELSE IF st = "SCREND" /\ cnt # 0 THEN words \cup {(8 - cnt) % 8}
                          ELSE words
<1>1. CASE st = "IDLE" /\ st' = "GETCMD"
  BY <1>1, Strobes, Zenon DEF Count, Increment
<1>2. CASE ~(st = "IDLE" /\ st' = "GETCMD")
  <2>1. ~strobe'["getCmd"]
    BY <1>2, Strobes, Zenon
  <2>2. columns' = IF bus' \in {"RD", "WR"} THEN columns + 1 ELSE columns
    BY <2>1, Zenon DEF Count, Increment
  <2>3. pops' = IF \/ st \in {"SCWRITE", "BLW_WRITE"} /\ cnt = 0
                   \/ st = "SCWRDATA" /\ burst_cnt < 7
                  THEN pops + 1 ELSE pops
    BY <2>1, Strobes, Zenon DEF Count, Increment
  <2>4. words' = IF st = "SCREAD" /\ cnt = 0 THEN words \cup {0}
                 ELSE IF st = "SCREND" /\ cnt # 0 THEN words \cup {(8 - cnt) % 8}
                 ELSE words
    <3>1. words' = IF strobe'["put"] THEN words \cup {readPtr'} ELSE words
      BY <2>1, Zenon DEF Count
    <3>2. CASE st = "SCREAD" /\ cnt = 0
      BY <3>1, <3>2, Strobes
    <3>3. CASE st = "SCREND" /\ cnt # 0
      BY <3>1, <3>3, Strobes
    <3>4. CASE ~(st = "SCREAD" /\ cnt = 0) /\ ~(st = "SCREND" /\ cnt # 0)
      BY <3>1, <3>4, Strobes
    <3> QED BY <3>2, <3>3, <3>4
  <2> QED BY <1>2, <2>2, <2>3, <2>4
<1> QED BY <1>1, <1>2

(* In the states between commands, and while one is fetched, nothing is      *)
(* transferred.                                                              *)
LEMMA RestKeepsTransfers ==
  ASSUME TypeOK, CommandInv, TransferInv, Clock, Count,
         IdleMove \/ FetchMove \/ RefreshMove \/ SelfRefreshMove \/ PowerDownMove \/ DllMove
  PROVE  TransferInv'
<1>1. CASE st = "IDLE" /\ st' = "GETCMD"
  BY <1>1, Counted DEF TransferInv, CountType, WordsSoFar, BlockCounted, AllThere,
     OpeningStates
<1>2. CASE ~(st = "IDLE" /\ st' = "GETCMD")
  <2>1. /\ st \notin {"SCREAD", "SCREND", "SCWRITE", "BLW_WRITE", "SCWRDATA"}
        /\ bus' \notin {"RD", "WR"}
    BY DEF IdleMove, FetchMove, RefreshMove, SelfRefreshMove, PowerDownMove, DllMove, Moves,
       Dwell
  <2>2. pops' = pops /\ columns' = columns /\ words' = words
    BY <1>2, <2>1, Counted
  <2>3. CASE FetchMove
    <3>1. st = "GETCMD" /\ st' \in {"GETCMD", "ACTIVATE"}
      BY <2>3 DEF FetchMove, Goto
    <3> QED BY <2>2, <3>1 DEF TransferInv, CountType, WordsSoFar, BlockCounted, AllThere,
               OpeningStates
  <2>4. CASE ~FetchMove
    <3>1. st \notin OpeningStates \cup DOMAIN CommandsIn
      BY <2>4 DEF OpeningStates, CommandsIn, IdleMove, RefreshMove, SelfRefreshMove,
         PowerDownMove, DllMove, Moves, Dwell
    <3>2. st' \notin OpeningStates \cup DOMAIN CommandsIn
      BY <1>2, <2>4 DEF OpeningStates, CommandsIn, IdleMove, RefreshMove, SelfRefreshMove,
         PowerDownMove, DllMove, Moves, Dwell, Goto, PreStates
    <3>3. cur' = cur
      <4>1. st # "GETCMD"
        BY <3>1 DEF OpeningStates
      <4> QED BY <4>1, ClockMoves, Zenon DEF KeepsCommand
    <3>4. CountType' /\ AllThere'
      BY <2>2, <3>1, <3>3, Zenon DEF TransferInv, CountType, AllThere, Bursts
    <3>5. WordsSoFar' /\ BlockCounted'
      BY <2>2, <3>1, <3>2, <3>3
         DEF TransferInv, WordsSoFar, BlockCounted, OpeningStates, CommandsIn
    <3> QED BY <3>4, <3>5 DEF TransferInv
  <2> QED BY <2>3, <2>4
<1> QED BY <1>1, <1>2

(* Opening the row transfers nothing.                                        *)
LEMMA OpeningKeepsTransfers ==
  ASSUME TypeOK, CommandInv, TransferInv, Clock, Count, ActivateMove \/ OpenMove
  PROVE  TransferInv'
<1>1. /\ st \in {"ACTIVATE", "BLR_ACT", "BLW_ACT", "WAIT_TRCD"}
      /\ bus' \notin {"RD", "WR"}
  BY DEF ActivateMove, OpenMove, Moves, Dwell
<1>2. /\ pops' = 0 /\ columns' = 0 /\ words' = {}
      /\ cur' = cur
  <2>1. pops = 0 /\ columns = 0 /\ words = {}
    BY <1>1 DEF TransferInv, WordsSoFar, OpeningStates
  <2>2. pops' = pops /\ columns' = columns /\ words' = words
    BY <1>1, Counted
  <2> QED BY <1>1, <2>1, <2>2, ClockMoves DEF KeepsCommand
<1>3. /\ cur.sz \in 0..3 /\ blk_cnt \in 0..3
      /\ cur.cmd \in Commands
  BY StateTypes DEF TypeOK, BurstType, Word2
<1>4. CASE st' = "IDLE"
  <2>1. cur.cmd \notin {"SCR", "SCW", "BLW"}
    BY <1>1, <1>4 DEF ActivateMove, OpenMove, Moves, Dwell, Goto, CommandInv, FirstColumn
  <2> QED BY <1>2, <1>4, <2>1 DEF TransferInv, CountType, WordsSoFar, BlockCounted, AllThere,
             OpeningStates
<1>5. CASE st' \in {"ACTIVATE", "BLR_ACT", "BLW_ACT", "WAIT_TRCD"}
  <2>1. cur.cmd = "BLW" /\ st' \in {"BLW_ACT", "WAIT_TRCD"} => blk_cnt' = 0
    BY <1>1, <1>5, BurstCounts DEF TransferInv, BlockCounted, ActivateMove, OpenMove, Moves,
       Dwell, Goto, CommandInv, CommandsIn
  <2> QED BY <1>2, <1>5, <2>1 DEF TransferInv, CountType, WordsSoFar, BlockCounted, AllThere,
             OpeningStates
<1>6. CASE st = "WAIT_TRCD" /\ st' = FirstColumn[cur.cmd] /\ cur.cmd \in DOMAIN FirstColumn
  <2>1. \/ cur.cmd = "SCR" /\ st' = "ISSUE_READ"
        \/ cur.cmd = "SCW" /\ st' = "ISSUE_WRITE"
        \/ cur.cmd = "BLR" /\ st' = "BLR_ISSUE"
        \/ cur.cmd = "BLW" /\ st' = "BLW_ISSUE"
    BY <1>6 DEF FirstColumn
  <2>2. cur.cmd = "BLW" => blk_cnt' = 0
    BY <1>6, BurstCounts DEF TransferInv, BlockCounted
  <2> QED BY <1>2, <1>3, <2>1, <2>2 DEF TransferInv, CountType, WordsSoFar, BlockCounted,
             AllThere, OpeningStates, FullBursts, CommandsIn
<1>7. \/ st' = "IDLE"
      \/ st' \in {"ACTIVATE", "BLR_ACT", "BLW_ACT", "WAIT_TRCD"}
      \/ st = "WAIT_TRCD" /\ st' = FirstColumn[cur.cmd] /\ cur.cmd \in DOMAIN FirstColumn
  BY DEF ActivateMove, OpenMove, Moves, Dwell, Goto, CommandInv
<1> QED BY <1>4, <1>5, <1>6, <1>7

(* A scalar read puts one word after the other; a block read puts none.      *)
LEMMA ReadKeepsTransfers ==
  ASSUME TypeOK, CommandInv, TransferInv, Clock, Count, ReadMove
  PROVE  TransferInv'
<1>1. /\ st \in {"ISSUE_READ", "SCREAD", "SCREND", "BLR_ISSUE", "BLR_READ", "SCRNLSN"}
      /\ cur' = cur
  BY ClockMoves DEF ReadMove, Moves, Dwell, KeepsCommand
<1>2. /\ cnt \in 0..127 /\ pops = 0 /\ pops' = 0
      /\ cur.cmd = IF st \in {"ISSUE_READ", "SCREAD", "SCREND"} THEN "SCR" ELSE "BLR"
  <2>1. cur.cmd = IF st \in {"ISSUE_READ", "SCREAD", "SCREND"} THEN "SCR" ELSE "BLR"
    BY <1>1 DEF CommandInv, CommandsIn
  <2> QED BY <1>1, <2>1, Counted, StateTypes DEF TransferInv, WordsSoFar
<1>3. CASE st \in {"BLR_ISSUE", "BLR_READ", "SCRNLSN"}
  <2>1. /\ st' \in {"BLR_READ", "SCRNLSN", "IDLE"}
        /\ st' = "SCRNLSN" => bus' = "DES"
    BY <1>3 DEF ReadMove, Moves, Dwell, Goto
  <2>2. columns' \in Nat
    BY <1>1, Counted DEF TransferInv, CountType
  <2> QED BY <1>1, <1>2, <1>3, <2>1, <2>2 DEF TransferInv, CountType, WordsSoFar,
             BlockCounted, AllThere, OpeningStates, CommandsIn
<1>4. CASE st = "ISSUE_READ"
  <2>1. st' = "SCREAD" /\ bus' = "RD"
    BY <1>4 DEF ReadMove, Moves, Dwell, Goto
  <2>2. words' = {} /\ columns' = 1
    BY <1>4, <2>1, Counted DEF TransferInv, WordsSoFar
  <2> QED BY <1>1, <1>2, <1>4, <2>1, <2>2 DEF TransferInv, CountType, WordsSoFar,
             BlockCounted, AllThere, OpeningStates, CommandsIn
<1>5. CASE st = "SCREAD"
  <2>1. /\ bus' = "DES"
        /\ \/ cnt = 0 /\ st' = "SCREND" /\ cnt' = 8
           \/ cnt # 0 /\ st' = "SCREAD"
    BY <1>5 DEF ReadMove, Moves, Dwell, Goto
  <2>2. columns' = 1 /\ words' = IF cnt = 0 THEN {0} ELSE {}
    BY <1>5, <2>1, Counted DEF TransferInv, WordsSoFar
  <2>3. cnt = 0 => words' = {0} \cup 0..(7 - cnt')
    BY <2>1, <2>2
  <2> QED BY <1>1, <1>2, <1>5, <2>1, <2>2, <2>3 DEF TransferInv, CountType, WordsSoFar,
             BlockCounted, AllThere, OpeningStates, CommandsIn
<1>6. CASE st = "SCREND"
  <2>1. /\ bus' = "DES"
        /\ \/ cnt = 0 /\ st' = "IDLE"
           \/ cnt # 0 /\ st' = "SCREND" /\ cnt' = cnt - 1
    BY <1>2, <1>6, BurstCounts DEF TransferInv, BlockCounted, ReadMove, Moves, Dwell, Goto,
       CntTick
  <2>2. /\ columns' = 1 /\ words = {0} \cup 0..(7 - cnt) /\ cnt <= 8
        /\ words' = IF cnt # 0 THEN words \cup {(8 - cnt) % 8} ELSE words
    BY <1>6, <2>1, Counted DEF TransferInv, WordsSoFar
  <2>3. CASE cnt = 0
    <3>1. words' = 0..7
      BY <2>2, <2>3
    <3> QED BY <1>1, <1>2, <2>1, <2>2, <2>3, <3>1 DEF TransferInv, CountType, WordsSoFar,
               BlockCounted, AllThere, OpeningStates, CommandsIn
  <2>4. CASE cnt # 0
    <3>1. cnt \in {1, 2, 3, 4, 5, 6, 7, 8}
      BY <1>2, <2>2, <2>4
    <3>2. words' = {0} \cup 0..(7 - (cnt - 1))
      <4>1. (8 - cnt) % 8 = IF cnt = 8 THEN 0 ELSE 8 - cnt
        BY <3>1
      <4> QED BY <2>2, <2>4, <3>1, <4>1
    <3>3. words' = {0} \cup 0..(7 - cnt') /\ cnt' <= 8 /\ st' = "SCREND"
      BY <2>1, <2>4, <3>1, <3>2
    <3> QED BY <1>1, <1>2, <2>1, <2>2, <3>3 DEF TransferInv, CountType, WordsSoFar,
               BlockCounted, AllThere, OpeningStates, CommandsIn
  <2> QED BY <2>3, <2>4
<1> QED BY <1>1, <1>3, <1>4, <1>5, <1>6

(* A write burst pops a word per cycle of its window until it has eight, and *)
(* a block write opens the next burst until it has all of them.              *)
LEMMA WriteKeepsTransfers ==
  ASSUME TypeOK, CommandInv, TransferInv, Clock, Count, WriteMove
  PROVE  TransferInv'
<1>1. /\ st \in {"ISSUE_WRITE", "BLW_ISSUE", "SCWRITE", "BLW_WRITE", "SCWRDATA", "SCWREND"}
      /\ cur' = cur
  BY ClockMoves DEF WriteMove, Moves, Dwell, KeepsCommand
<1>2. /\ cnt \in 0..127 /\ blk_cnt \in 0..3 /\ burst_cnt \in 0..7 /\ cur.sz \in 0..3
      /\ pops \in Nat /\ columns \in Nat
  BY StateTypes DEF TypeOK, BurstType, Word2, Word3, TransferInv, CountType
<1>3. /\ cur.cmd \in {"SCW", "BLW"}
      /\ st \in {"ISSUE_WRITE", "SCWRITE"} => cur.cmd = "SCW"
      /\ st \in {"BLW_ISSUE", "BLW_WRITE"} => cur.cmd = "BLW"
  BY <1>1 DEF CommandInv, CommandsIn
<1>4. /\ pops' = IF \/ st \in {"SCWRITE", "BLW_WRITE"} /\ cnt = 0
                    \/ st = "SCWRDATA" /\ burst_cnt < 7
                   THEN pops + 1 ELSE pops
      /\ columns' = IF bus' \in {"RD", "WR"} THEN columns + 1 ELSE columns
  BY <1>1, Counted
<1>a. /\ FullBursts \in Nat
      /\ cur.cmd = "BLW" => FullBursts = blk_cnt
      /\ cur.cmd = "SCW" => FullBursts = 0
      /\ FullBursts' = IF cur.cmd = "BLW" THEN blk_cnt' ELSE 0
  BY <1>1, <1>2 DEF FullBursts
<1>5. CASE st \in {"ISSUE_WRITE", "BLW_ISSUE"}
  <2>1. /\ st' \in {"SCWRITE", "BLW_WRITE"} /\ bus' = "WR"
        /\ st = "BLW_ISSUE" => st' = "BLW_WRITE"
        /\ st = "ISSUE_WRITE" => st' = "SCWRITE"
    BY <1>5 DEF WriteMove, Moves, Dwell, Goto
  <2>2. pops' = 8 * FullBursts /\ columns' = FullBursts + 1
    BY <1>2, <1>4, <1>5, <1>a, <2>1 DEF TransferInv, WordsSoFar
  <2>3. st = "BLW_ISSUE" => blk_cnt' = blk_cnt /\ blk_cnt <= cur.sz
    BY <1>3, BurstCounts DEF TransferInv, BlockCounted
  <2>4. FullBursts' = FullBursts
    BY <1>3, <1>5, <1>a, <2>3
  <2>5. CountType'
    BY <1>a, <2>2 DEF CountType
  <2>7. WordsSoFar'
    BY <1>1, <1>3, <2>1, <2>2, <2>4 DEF WordsSoFar, OpeningStates
  <2>6. BlockCounted' /\ AllThere'
    BY <1>1, <1>3, <1>5, <2>1, <2>3 DEF BlockCounted, AllThere, CommandsIn
  <2> QED BY <2>5, <2>6, <2>7 DEF TransferInv
<1>6. CASE st \in {"SCWRITE", "BLW_WRITE"}
  <2>1. /\ bus' = "DES"
        /\ \/ cnt # 0 /\ st' = st
           \/ cnt = 0 /\ st' = "SCWRDATA" /\ cnt' \in Nat /\ cnt' >= 7 /\ burst_cnt' = 0
    <3>1. /\ CNT_SCWRDATA_SCW = 7
          /\ cnt_scwrdata_sz(cur.sz) \in Nat /\ cnt_scwrdata_sz(cur.sz) >= 7
      BY <1>2 DEF CNT_SCWRDATA_SCW, cnt_scwrdata_sz
    <3> QED BY <1>6, <3>1, BurstCounts DEF WriteMove, Moves, Dwell, Goto
  <2>2. /\ pops' = IF cnt = 0 THEN 8 * FullBursts + 1 ELSE 8 * FullBursts
        /\ columns' = FullBursts + 1
    BY <1>2, <1>4, <1>6, <1>a, <2>1 DEF TransferInv, WordsSoFar
  <2>3. st = "BLW_WRITE" => blk_cnt' = blk_cnt /\ blk_cnt <= cur.sz
    BY <1>3, BurstCounts DEF TransferInv, BlockCounted
  <2>4. FullBursts' = FullBursts
    BY <1>3, <1>6, <1>a, <2>3
  <2>5. CountType'
    BY <1>a, <2>2 DEF CountType
  <2>7. WordsSoFar'
    <3>1. CASE cnt # 0
      BY <1>1, <1>3, <1>6, <2>1, <2>2, <2>4, <3>1 DEF WordsSoFar, OpeningStates
    <3>2. CASE cnt = 0
      <4>1. PICK n \in Nat : cnt' = n /\ n >= 7
        BY <2>1, <3>2
      <4>2. /\ st' = "SCWRDATA" /\ burst_cnt' = 0
            /\ pops' = 8 * FullBursts + 1 /\ columns' = FullBursts + 1
        BY <1>6, <2>1, <2>2, <3>2
      <4>3. burst_cnt' + cnt' >= 7
        BY <4>1, <4>2
      <4>4. FullBursts \in Nat
        BY <1>a
      <4>5. pops' = 8 * FullBursts' + burst_cnt' + 1
        BY <2>4, <4>2, <4>4
      <4> QED BY <1>1, <1>3, <2>4, <4>2, <4>3, <4>5 DEF WordsSoFar, OpeningStates
    <3> QED BY <3>1, <3>2
  <2>6. BlockCounted' /\ AllThere'
    BY <1>1, <1>3, <1>6, <2>1, <2>3 DEF BlockCounted, AllThere, CommandsIn
  <2> QED BY <2>5, <2>6, <2>7 DEF TransferInv
<1>7. CASE st = "SCWRDATA"
  <2>1. /\ bus' = "DES"
        /\ \/ cnt # 0 /\ st' = "SCWRDATA" /\ cnt' = cnt - 1
           \/ cnt = 0 /\ st' = "SCWREND"
    BY <1>2, <1>7 DEF WriteMove, Moves, Dwell, Goto, CntTick
  <2>2. /\ burst_cnt' = IF burst_cnt < 7 THEN burst_cnt + 1 ELSE burst_cnt
        /\ blk_cnt' = blk_cnt
        /\ cur.cmd = "BLW" => blk_cnt <= cur.sz
    BY <1>7, BurstCounts DEF TransferInv, BlockCounted
  <2>3. /\ pops = 8 * FullBursts + burst_cnt + 1 /\ columns = FullBursts + 1
        /\ burst_cnt + cnt >= 7
    BY <1>7 DEF TransferInv, WordsSoFar
  <2>4. FullBursts' = FullBursts
    BY <1>3, <1>a, <2>2
  <2>5. /\ pops' = 8 * FullBursts + burst_cnt' + 1 /\ columns' = FullBursts + 1
        /\ cnt = 0 => pops' = 8 * FullBursts + 8
        /\ cnt # 0 => burst_cnt' + (cnt - 1) >= 7
    BY <1>2, <1>4, <1>7, <1>a, <2>1, <2>2, <2>3
  <2>6. CountType' /\ WordsSoFar'
    BY <1>1, <1>2, <1>3, <1>7, <1>a, <2>1, <2>2, <2>4, <2>5
       DEF CountType, WordsSoFar, OpeningStates
  <2>7. BlockCounted' /\ AllThere'
    BY <1>1, <1>3, <1>7, <2>1, <2>2 DEF BlockCounted, AllThere, CommandsIn
  <2> QED BY <2>6, <2>7 DEF TransferInv
<1>8. CASE st = "SCWREND"
  <2>1. /\ pops' = 8 * FullBursts + 8 /\ columns' = FullBursts + 1 /\ bus' = "DES"
        /\ cur.cmd = "BLW" => blk_cnt <= cur.sz
    <3>1. bus' = bus /\ bus = "DES"
      BY <1>8 DEF TransferInv, BlockCounted, WriteMove, Moves, Dwell
    <3> QED BY <1>4, <1>8, <3>1 DEF TransferInv, WordsSoFar, BlockCounted
  <2>2. CASE cnt # 0
    <3>1. st' = "SCWREND" /\ blk_cnt' = blk_cnt
      BY <1>8, <2>2, BurstCounts DEF WriteMove, Moves, Dwell, Goto
    <3>2. FullBursts' = FullBursts
      BY <1>3, <1>a, <3>1
    <3>3. CountType' /\ WordsSoFar'
      BY <1>1, <1>3, <1>a, <2>1, <3>1, <3>2 DEF CountType, WordsSoFar, OpeningStates
    <3>4. BlockCounted' /\ AllThere'
      BY <1>1, <2>1, <3>1 DEF BlockCounted, AllThere, CommandsIn
    <3> QED BY <3>3, <3>4 DEF TransferInv
  <2>3. CASE cnt = 0 /\ from_blw /\ blk_cnt < cur.sz
    <3>1. st' = "BLW_ISSUE" /\ blk_cnt' = blk_cnt + 1
      BY <1>8, <2>3, BurstCounts
    <3>2. cur.cmd = "BLW" /\ FullBursts' = FullBursts + 1 /\ blk_cnt' <= cur.sz
      <4>1. cur.cmd = "BLW"
        BY <1>8, <2>3, Zenon DEF CommandInv
      <4> QED BY <1>2, <1>a, <2>3, <3>1, <4>1
    <3>3. CountType' /\ WordsSoFar'
      BY <1>1, <1>a, <2>1, <3>1, <3>2 DEF CountType, WordsSoFar, OpeningStates
    <3>4. BlockCounted' /\ AllThere'
      BY <1>1, <2>1, <3>1, <3>2 DEF BlockCounted, AllThere, CommandsIn
    <3> QED BY <3>3, <3>4 DEF TransferInv
  <2>4. CASE cnt = 0 /\ ~(from_blw /\ blk_cnt < cur.sz)
    <3>1. st' = "IDLE" /\ blk_cnt' = blk_cnt
      BY <1>8, <2>4, BurstCounts
    <3>2. cur.cmd = "BLW" => blk_cnt = cur.sz
      <4>1. cur.cmd = "BLW" => from_blw
        BY <1>8, Zenon DEF CommandInv
      <4> QED BY <1>2, <2>1, <2>4, <4>1
    <3>3. AllThere'
      BY <1>1, <1>2, <1>3, <1>a, <2>1, <3>1, <3>2 DEF AllThere, Bursts
    <3>4. CountType' /\ WordsSoFar' /\ BlockCounted'
      BY <1>1, <1>3, <1>a, <2>1, <3>1 DEF CountType, WordsSoFar, BlockCounted, OpeningStates
    <3> QED BY <3>3, <3>4 DEF TransferInv
  <2> QED BY <2>2, <2>3, <2>4
<1> QED BY <1>1, <1>5, <1>6, <1>7, <1>8

(* Every clock keeps the invariant.                                          *)
LEMMA TransferKept ==
  ASSUME TypeOK, CommandInv, TransferInv, Clock, Count
  PROVE  TransferInv'
  BY ClockMoves, RestKeepsTransfers, OpeningKeepsTransfers, ReadKeepsTransfers,
     WriteKeepsTransfers, Zenon DEF Move

(* So what a command transfers is known in every behaviour.                  *)
LEMMA TransferInvariant == WatchedSpec => []TransferInv
<1>1. WatchedInit => TransferInv
  BY DEF WatchedInit, Init, NoCounts, TransferInv, CountType, WordsSoFar, BlockCounted,
     AllThere, OpeningStates
<1>2. Reset /\ ClearCounts => TransferInv'
  BY DEF Reset, Goto, Drive, ClearCounts, TransferInv, CountType, WordsSoFar, BlockCounted,
     AllThere, OpeningStates
<1>3. UNCHANGED watched /\ TransferInv => TransferInv'
  <2>1. UNCHANGED watched =>
          /\ UNCHANGED <<st, cnt, bus, cur, blk_cnt, burst_cnt>>
          /\ UNCHANGED <<pops, words, columns>>
    BY Zenon DEF watched, vars, counts, burst, pins
  <2>2. ASSUME UNCHANGED <<st, cnt, bus, cur, blk_cnt, burst_cnt>>,
               UNCHANGED <<pops, words, columns>>, TransferInv
        PROVE  TransferInv'
    <3>1. UNCHANGED FullBursts /\ UNCHANGED Bursts
      BY <2>2, Zenon DEF FullBursts, Bursts
    <3>2. WordsSoFar'
      BY <2>2, <3>1 DEF TransferInv, WordsSoFar
    <3>3. CountType' /\ BlockCounted' /\ AllThere'
      BY <2>2, <3>1, Zenon DEF TransferInv, CountType, BlockCounted, AllThere
    <3> QED BY <3>2, <3>3, Zenon DEF TransferInv
  <2> QED BY <2>1, <2>2, Zenon
<1>4. FreeInv /\ TypeOK /\ TransferInv /\ [WatchedNext]_watched => TransferInv'
  BY <1>2, <1>3, TransferKept, Zenon DEF WatchedNext, FreeInv
<1> QED BY <1>1, <1>4, FreeInvariant, EngineFacts, PTL DEF WatchedSpec

(* A write pops exactly the words of its bursts, and one WRITE is driven for *)
(* each burst; nothing else pops, so data stays aligned with its commands.   *)
THEOREM WritesPopWords == WatchedSpec => []WritesPopTheirWords
<1>1. TransferInv => WritesPopTheirWords
  <2>1. st = "IDLE" => st \notin OpeningStates \cup DOMAIN CommandsIn
    BY DEF OpeningStates, CommandsIn
  <2> QED BY <2>1, Zenon DEF TransferInv, AllThere, WordsSoFar, WritesPopTheirWords, Done
<1> QED BY <1>1, TransferInvariant, PTL

(* A scalar read puts all eight words of its burst into the return FIFO.     *)
THEOREM ScalarReadIsWhole == WatchedSpec => []ScalarReadCoversBurst
<1>1. TransferInv => ScalarReadCoversBurst
  <2>1. st = "IDLE" => st \notin OpeningStates \cup DOMAIN CommandsIn
    BY DEF OpeningStates, CommandsIn
  <2> QED BY <2>1, Zenon DEF TransferInv, AllThere, ScalarReadCoversBurst, Done
<1> QED BY <1>1, TransferInvariant, PTL
=============================================================================
