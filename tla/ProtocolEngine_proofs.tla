----------------------- MODULE ProtocolEngine_proofs -----------------------
(***************************************************************************)
(* Type correctness of the protocol engine, and its two safety invariants, *)
(* for every geometry and every timing parameter; then the walk of the     *)
(* engine from state to state, on which the proofs about its pins rest.    *)
(*                                                                         *)
(* The registers are either flags or words.  A leaf about a flag, or about *)
(* words whose sets stay closed, is left to Zenon; one that computes with  *)
(* a word opens that word only, and is left to SMT.                        *)
(***************************************************************************)
EXTENDS ProtocolEngine, TLAPS

-----------------------------------------------------------------------------
(***************************************************************************)
(* What the operators shared by the arms do to the types.                  *)
(***************************************************************************)
(* The wide registers have some values.                                      *)
LEMMA WordSizes ==
  /\ Values12 \in Nat /\ Values12 > 0
  /\ Values16 \in Nat /\ Values16 > 0
  BY DEF Values12, Values16

(* A parameter cut to a register's width fits that register.                 *)
LEMMA ParameterTypes ==
  /\ TRCD_WAIT \in Word7 /\ CNT_SCREAD \in Word7
  /\ CNT_SELFREF_TXSR \in Word7 /\ CNT_PDOWN_TXP \in Word7
  /\ CNT_RIDL \in Word7
  /\ AUTO_SREF_IDLE_THRESH \in Word12 /\ REF_CNT_INIT \in Word12
<1>1. TRCD_WAIT \in Word7 /\ CNT_SCREAD \in Word7
  BY TimingAssumption DEF TRCD_WAIT, CNT_SCREAD, Word7
<1>2. CNT_SELFREF_TXSR \in Word7 /\ CNT_PDOWN_TXP \in Word7 /\ CNT_RIDL \in Word7
  BY TimingAssumption DEF CNT_SELFREF_TXSR, CNT_PDOWN_TXP, Word7
<1>3. AUTO_SREF_IDLE_THRESH \in Word12 /\ REF_CNT_INIT \in Word12
  BY WordSizes, TimingAssumption DEF AUTO_SREF_IDLE_THRESH, REF_CNT_INIT, Word12
<1> QED BY <1>1, <1>2, <1>3, Zenon

(* So do the fixed counts.                                                   *)
LEMMA CountTypes ==
  /\ 0 \in Word7 /\ 1 \in Word7 /\ 8 \in Word7
  /\ CNT_GETCMD \in Word7 /\ CNT_ACTIVATE \in Word7 /\ CNT_SCWRITE \in Word7
  /\ CNT_SCWRDATA_SCW \in Word7 /\ CNT_SCWREND \in Word7
  /\ CNT_SCRNLSN \in Word7 /\ CNT_RPRE \in Word7 /\ CNT_RNOP \in Word7
  /\ CNT_RREF \in Word7 /\ CNT_TMRD \in Word7
  BY DEF CNT_GETCMD, CNT_ACTIVATE, CNT_SCWRITE, CNT_SCWRDATA_SCW, CNT_SCWREND,
     CNT_SCRNLSN, CNT_RPRE, CNT_RNOP, CNT_RREF, CNT_TMRD, Word7

(* Zero fits every register.                                                 *)
LEMMA ZeroTypes ==
  /\ 0 \in Word2 /\ 0 \in Word3 /\ 0 \in Word6 /\ 0 \in Word12 /\ 0 \in Word16
  BY WordSizes DEF Word2, Word3, Word6, Word12, Word16, ACT_GAP_MAX

(* The window of a block write fits the dwell counter for every size.        *)
LEMMA WriteWindowTypes ==
  ASSUME NEW sz \in 0..3
  PROVE  cnt_scwrdata_sz(sz) \in Word7
  BY DEF cnt_scwrdata_sz, Word7

(* The dwell counter counts down to zero,                                    *)
LEMMA CntTickTypes == cnt \in Word7 => CntTick \in Word7
  BY DEF CntTick, Word7

(* the refresh counter too,                                                  *)
LEMMA RefCntTickTypes == refCnt \in Word12 => RefCntTick \in Word12
  BY WordSizes DEF RefCntTick, Word12

(* the ACT gap counts up and saturates at its width,                         *)
LEMMA ActGapTickTypes == act_gap_cnt \in Word6 => ActGapTick \in Word6
  BY DEF ActGapTick, Word6, ACT_GAP_MAX

(* and the idle counter stops at the automatic threshold, which fits it.     *)
LEMMA QuietTickTypes ==
  ASSUME NEW nonempty, idle_quiet_cnt \in Word12, QuietTick(nonempty)
  PROVE  idle_quiet_cnt' \in Word12
<1>1. \/ idle_quiet_cnt' = 0
      \/ /\ idle_quiet_cnt < AUTO_SREF_IDLE_THRESH
         /\ idle_quiet_cnt' = idle_quiet_cnt + 1
      \/ idle_quiet_cnt' = idle_quiet_cnt
  BY Zenon DEF QuietTick
<1>2. CASE idle_quiet_cnt' = 0
  BY <1>2, ZeroTypes
<1>3. CASE /\ idle_quiet_cnt < AUTO_SREF_IDLE_THRESH
           /\ idle_quiet_cnt' = idle_quiet_cnt + 1
  <2>1. AUTO_SREF_IDLE_THRESH \in Word12
    BY ParameterTypes
  <2>2. idle_quiet_cnt + 1 \in Word12
    BY <1>3, <2>1, WordSizes DEF Word12
  <2> QED BY <1>3, <2>2, Zenon
<1>4. CASE idle_quiet_cnt' = idle_quiet_cnt
  BY <1>4, Zenon
<1> QED BY <1>1, <1>2, <1>3, <1>4, Zenon

(* A jump with a count that fits,                                            *)
LEMMA GotoTypes ==
  ASSUME NEW s \in States, NEW c \in Word7, Goto(s, c)
  PROVE  ControlType'
  BY Zenon DEF Goto, ControlType

(* and a state that dwells and then jumps.                                   *)
LEMMA DwellTypes ==
  ASSUME ControlType, NEW s, NEW n \in States, NEW c \in Word7, Dwell(s, n, c)
  PROVE  ControlType'
<1>1. CASE cnt = 0
  BY <1>1, Zenon DEF Dwell, Goto, ControlType
<1>2. CASE cnt # 0
  BY <1>2, CntTickTypes, Zenon DEF Dwell, Goto, ControlType
<1> QED BY <1>1, <1>2, Zenon

\* The part of BusType an arm decides; rank_sel_o is a delayed output.
CommandType == bus \in BusCommands /\ ba_o \in Banks /\ a_o \in AddressPatterns

(* The bus keeps its type when a command is driven ...                       *)
LEMMA DriveTypes ==
  ASSUME NEW c \in BusCommands, NEW b \in Banks, NEW a \in AddressPatterns,
         Drive(c, b, a)
  PROVE  CommandType'
  BY DEF Drive, CommandType

(* ... and when none is.                                                     *)
LEMMA NoCommandTypes ==
  BusType /\ (Deselect \/ DriveNop \/ HoldBus) => CommandType'
  BY DEF BusType, CommandType, Deselect, DriveNop, HoldBus, BusCommands

(* PRECHARGE ALL leaves the bank bits alone.                                 *)
LEMMA PrechargeAllTypes == BusType /\ PrechargeAll => CommandType'
  BY DriveTypes DEF BusType, PrechargeAll, BusCommands, AddressPatterns

(* The strobes are flags, whichever are raised.                              *)
LEMMA StrobeTypes ==
  ASSUME NEW S, Raise(S)
  PROVE  strobe' \in [StrobeNames -> BOOLEAN]
  BY DEF Raise

\* The flags an arm decides; the others are delayed outputs.
ArmFlags ==
  /\ have_act_any \in BOOLEAN
  /\ from_blw \in BOOLEAN
  /\ odt_o \in BOOLEAN
  /\ strobe \in [StrobeNames -> BOOLEAN]
  /\ selfref_active \in BOOLEAN
  /\ pdown_active_o \in BOOLEAN
  /\ dll_in_progress \in BOOLEAN
  /\ auto_selfref_req \in BOOLEAN

\* What remains to be shown of an arm.
ArmTypes == ControlType /\ CounterType /\ BurstType /\ CommandType /\ ArmFlags

(* An arm with its delayed outputs is a typed clock.                         *)
LEMMA ArmsSuffice ==
  ASSUME TypeOK, ArmTypes', DelayedOutputs, ReadyStays
  PROVE  TypeOK'
<1>1. rank_sel_o' \in Ranks
  BY DEF TypeOK, BurstType, CommandRecords, DelayedOutputs
<1>2. BusType'
  BY <1>1, Zenon DEF ArmTypes, CommandType, BusType
<1>3. ready' \in BOOLEAN
  BY Zenon DEF TypeOK, FlagType, ReadyStays
<1>4. selfref_active_o' \in BOOLEAN /\ dll_busy_o' \in BOOLEAN
  BY Zenon DEF TypeOK, FlagType, DelayedOutputs
<1>5. FlagType'
  BY <1>3, <1>4, Zenon DEF ArmTypes, ArmFlags, FlagType
<1> QED BY <1>2, <1>5, Zenon DEF ArmTypes, TypeOK

\* The timers on any clock.
TimersTyped == refCnt \in Word12 /\ act_gap_cnt \in Word6 /\ have_act_any \in BOOLEAN

(* Timers on an ordinary clock, and where an ACT is about to be driven.      *)
LEMMA TimersTypes ==
  ASSUME TypeOK, TimersTick \/ RestartActGap
  PROVE  TimersTyped'
  BY RefCntTickTypes, ActGapTickTypes, ZeroTypes, Zenon
  DEF TypeOK, CounterType, FlagType, TimersTick, RestartActGap, TimersTyped

(* Outside IDLE the idle counter is cleared.                                 *)
LEMMA NotQuietTypes ==
  NotQuiet => idle_quiet_cnt' \in Word12 /\ auto_selfref_req' \in BOOLEAN
  BY ZeroTypes, Zenon DEF NotQuiet

\* Flags of the low-power and DLL modes.
ModesTyped ==
  /\ selfref_active \in BOOLEAN
  /\ pdown_active_o \in BOOLEAN
  /\ dll_in_progress \in BOOLEAN
  /\ dll_tdllk_cnt \in Word16

(* Modes an arm leaves alone.                                                *)
LEMMA SameModesTypes == TypeOK /\ SameModes => ModesTyped'
  BY Zenon DEF TypeOK, FlagType, CounterType, SameModes, dll, ModesTyped

(* An arm is typed once its six parts are.                                   *)
LEMMA PartsSuffice ==
  ASSUME ControlType', BurstType', CommandType', TimersTyped', ModesTyped',
         idle_quiet_cnt' \in Word12, auto_selfref_req' \in BOOLEAN,
         from_blw' \in BOOLEAN, odt_o' \in BOOLEAN,
         strobe' \in [StrobeNames -> BOOLEAN]
  PROVE  ArmTypes'
  BY Zenon DEF TimersTyped, ModesTyped, CounterType, ArmFlags, ArmTypes

(* A Plain arm is typed once state, bus and data path are.                   *)
LEMMA PlainTypes ==
  ASSUME TypeOK, Plain, NEW S, Raise(S), ControlType', BurstType', CommandType',
         from_blw' \in BOOLEAN, odt_o' \in BOOLEAN
  PROVE  ArmTypes'
<1>1. TimersTyped' /\ ModesTyped'
  BY TimersTypes, SameModesTypes, Zenon DEF Plain
<1>2. idle_quiet_cnt' \in Word12 /\ auto_selfref_req' \in BOOLEAN
  BY NotQuietTypes, Zenon DEF Plain
<1> QED BY <1>1, <1>2, StrobeTypes, PartsSuffice, Zenon

(* The burst bookkeeping as a whole may stay.                                *)
LEMMA SameBurstTypes ==
  ASSUME TypeOK, UNCHANGED burst, readPtr' \in Word3
  PROVE  BurstType' /\ from_blw' \in BOOLEAN
  BY Zenon DEF TypeOK, burst, BurstType, FlagType

(* An arm that only sequences is typed once state and bus are.               *)
LEMMA SequencingTypes ==
  ASSUME TypeOK, Sequencing, ControlType', CommandType'
  PROVE  ArmTypes'
<1>1. Plain /\ Raise({}) /\ UNCHANGED <<burst, readPtr, odt_o>>
  BY Zenon DEF Sequencing
<1>2. readPtr' \in Word3 /\ odt_o' \in BOOLEAN
  BY <1>1, Zenon DEF TypeOK, BurstType, FlagType
<1>3. BurstType' /\ from_blw' \in BOOLEAN
  BY <1>1, <1>2, SameBurstTypes, Zenon
<1> QED BY <1>1, <1>2, <1>3, PlainTypes, Zenon

-----------------------------------------------------------------------------
(***************************************************************************)
(* The arms, one step per action.                                          *)
(***************************************************************************)
(* IDLE and its branches.                                                    *)
LEMMA IdleTypes ==
  ASSUME TypeOK, Idle, NEW nonempty, QuietTick(nonempty),
         auto_selfref_req' \in BOOLEAN, dll_in_progress' \in BOOLEAN,
         NEW S, Raise(S), ControlType'
  PROVE  ArmTypes'
<1>1. CommandType'
  BY NoCommandTypes, Zenon DEF TypeOK, Idle
<1>2. TimersTyped'
  BY TimersTypes, Zenon DEF Idle
<1>3. ModesTyped'
  BY Zenon DEF Idle, TypeOK, FlagType, CounterType, ModesTyped
<1>4. BurstType' /\ from_blw' \in BOOLEAN
  BY SameBurstTypes, Zenon DEF Idle, TypeOK, BurstType
<1>5. odt_o' \in BOOLEAN
  BY Zenon DEF Idle
<1>6. idle_quiet_cnt' \in Word12
  BY QuietTickTypes, Zenon DEF TypeOK, CounterType
<1> QED BY <1>1, <1>2, <1>3, <1>4, <1>5, <1>6, StrobeTypes, PartsSuffice, Zenon

(* The branches of IDLE.                                                     *)
LEMMA IdleArmTypes ==
  ASSUME TypeOK, IdleArms
  PROVE  ArmTypes'
<1>a. dll_in_progress \in BOOLEAN /\ auto_selfref_req \in BOOLEAN /\ cnt \in Word7
  BY Zenon DEF TypeOK, FlagType, ControlType
<1>b. ASSUME NEW nonempty, AutoRequestTick(nonempty)
      PROVE  auto_selfref_req' \in BOOLEAN
  BY <1>a, <1>b, Zenon DEF AutoRequestTick
<1>1. CASE StartSelfRefresh
  BY <1>a, <1>1, IdleTypes, GotoTypes, CountTypes, Zenon DEF StartSelfRefresh, States
<1>2. CASE StartDll
  BY <1>b, <1>2, IdleTypes, GotoTypes, CountTypes, Zenon DEF StartDll, States
<1>3. CASE StartPowerDown
  BY <1>a, <1>b, <1>3, IdleTypes, GotoTypes, CountTypes, Zenon
  DEF StartPowerDown, States
<1>4. CASE StartRefresh
  BY <1>a, <1>b, <1>4, IdleTypes, GotoTypes, CountTypes, Zenon
  DEF StartRefresh, States
<1>5. CASE StartCommand
  BY <1>a, <1>b, <1>5, IdleTypes, GotoTypes, CountTypes, Zenon
  DEF StartCommand, States
<1>6. CASE StayIdle
  BY <1>a, <1>b, <1>6, IdleTypes, GotoTypes, CntTickTypes, Zenon DEF StayIdle, States
<1> QED BY <1>1, <1>2, <1>3, <1>4, <1>5, <1>6, Zenon DEF IdleArms

(* What the latched command offers.                                          *)
LEMMA LatchedTypes ==
  TypeOK => cur.bank \in Banks /\ cur.sz \in 0..3
  BY DEF TypeOK, BurstType, CommandRecords

(* A burst that has a successor leaves room for its number,                  *)
LEMMA NextBlockTypes ==
  ASSUME TypeOK, blk_cnt < cur.sz
  PROVE  blk_cnt + 1 \in Word2
<1>1. blk_cnt \in Word2
  BY Zenon DEF TypeOK, BurstType
<1> QED BY <1>1, LatchedTypes DEF Word2

(* and the word counters wrap or saturate at their width.                    *)
LEMMA WordCountTypes ==
  ASSUME TypeOK
  PROVE  /\ (8 - cnt) % 8 \in Word3
         /\ burst_cnt < 7 => burst_cnt + 1 \in Word3
<1>1. cnt \in Word7 /\ burst_cnt \in Word3
  BY Zenon DEF TypeOK, ControlType, BurstType
<1>2. (8 - cnt) % 8 \in Word3
  BY <1>1 DEF Word3, Word7
<1>3. burst_cnt < 7 => burst_cnt + 1 \in Word3
  BY <1>1 DEF Word3
<1> QED BY <1>2, <1>3, Zenon

(* Fetching and activating.                                                  *)
LEMMA FetchTypes ==
  ASSUME TypeOK,
         \/ GetCommand
         \/ ActivateHold \/ ActivateScalar \/ ActivateBlock \/ ActivateDrop
  PROVE  ArmTypes'
<1>a. CntTick \in Word7 /\ blk_cnt \in Word2 /\ burst_cnt \in Word3 /\ readPtr \in Word3
  BY CntTickTypes, Zenon DEF TypeOK, ControlType, BurstType
<1>b. /\ BusType /\ from_blw \in BOOLEAN /\ odt_o \in BOOLEAN
      /\ cur \in CommandRecords
  BY Zenon DEF TypeOK, BurstType, FlagType
<1>1. CASE GetCommand
  <2>1. cur' \in CommandRecords
    BY <1>b, <1>1, GeometryAssumption DEF GetCommand, CommandRecords
  <2>2. TimersTyped' /\ ControlType'
    BY <1>a, <1>1, TimersTypes, GotoTypes, CountTypes, Zenon DEF GetCommand, States
  <2>3. BurstType' /\ from_blw' \in BOOLEAN /\ odt_o' \in BOOLEAN
    BY <1>a, <1>b, <1>1, <2>1, Zenon DEF GetCommand, TypeOK, BurstType
  <2>4. CommandType' /\ ModesTyped' /\ strobe' \in [StrobeNames -> BOOLEAN]
    BY <1>b, <1>1, NoCommandTypes, SameModesTypes, StrobeTypes, Zenon DEF GetCommand
  <2> QED BY <1>1, <2>2, <2>3, <2>4, NotQuietTypes, PartsSuffice, Zenon DEF GetCommand
<1>2. ASSUME Activating, ControlType', TimersTyped', blk_cnt' \in Word2,
             next_state_after_trcd' \in {next_state_after_trcd, "ISSUE_READ", "ISSUE_WRITE"}
      PROVE  ArmTypes'
  <2>1. CommandType'
    BY <1>2, DriveTypes, LatchedTypes DEF Activating, DriveActivate, BusCommands,
       AddressPatterns
  <2>2. next_state_after_trcd' \in {"IDLE", "ISSUE_READ", "ISSUE_WRITE",
                                    "BLR_ISSUE", "BLW_ISSUE"}
    BY <1>2 DEF TypeOK, BurstType
  <2>3. BurstType' /\ from_blw' \in BOOLEAN /\ odt_o' \in BOOLEAN
    BY <1>a, <1>b, <1>2, <2>2, Zenon DEF Activating, BurstType
  <2>4. ModesTyped' /\ strobe' \in [StrobeNames -> BOOLEAN]
    BY <1>2, SameModesTypes, StrobeTypes, Zenon DEF Activating
  <2> QED BY <1>2, <2>1, <2>3, <2>4, NotQuietTypes, PartsSuffice, Zenon DEF Activating
<1>3. CASE ActivateHold
  BY <1>a, <1>2, <1>3, GotoTypes, TimersTypes, Zenon DEF ActivateHold, States
<1>4. CASE ActivateScalar
  BY <1>a, <1>2, <1>4, GotoTypes, ParameterTypes, TimersTypes, Zenon
  DEF ActivateScalar, States
<1>5. CASE ActivateBlock
  BY <1>a, <1>2, <1>5, GotoTypes, CountTypes, ZeroTypes, TimersTypes, Zenon
  DEF ActivateBlock, States
<1>6. CASE ActivateDrop
  BY <1>a, <1>2, <1>6, GotoTypes, TimersTypes, Zenon DEF ActivateDrop, States
<1> QED BY <1>1, <1>3, <1>4, <1>5, <1>6, Zenon

(* The second ACT of a block transfer.                                       *)
LEMMA BlockActivateTypes ==
  ASSUME TypeOK, NEW s, NEW issue \in {"BLR_ISSUE", "BLW_ISSUE"},
         BlockActivate(s, issue)
  PROVE  ArmTypes'
<1>a. /\ ControlType /\ BurstType
      /\ odt_o \in BOOLEAN /\ from_blw \in BOOLEAN
  BY Zenon DEF TypeOK, FlagType
<1>1. ControlType'
  BY <1>a, DwellTypes, ParameterTypes, Zenon DEF BlockActivate, States
<1>2. CommandType'
  BY DriveTypes, LatchedTypes DEF BlockActivate, DriveActivate, BusCommands,
     AddressPatterns
<1>3. next_state_after_trcd' \in {"IDLE", "ISSUE_READ", "ISSUE_WRITE",
                                  "BLR_ISSUE", "BLW_ISSUE"}
  BY <1>a DEF BlockActivate, BurstType
<1>4. BurstType' /\ from_blw' \in BOOLEAN /\ odt_o' \in BOOLEAN
  BY <1>a, <1>3, Zenon DEF BlockActivate, BurstType
<1> QED BY <1>1, <1>2, <1>4, PlainTypes, Zenon DEF BlockActivate

(* Reads.                                                                    *)
LEMMA ReadTypes ==
  ASSUME TypeOK,
         \/ WaitTrcd \/ IssueRead \/ ScalarRead \/ ScalarReadEnd
         \/ BlockReadActivate \/ BlockReadIssue \/ BlockRead \/ DefaultArm
  PROVE  ArmTypes'
<1>a. /\ BusType /\ ControlType /\ BurstType
      /\ CntTick \in Word7 /\ readPtr \in Word3
      /\ odt_o \in BOOLEAN /\ from_blw \in BOOLEAN
  BY CntTickTypes, Zenon DEF TypeOK, ControlType, BurstType, FlagType
<1>1. CASE WaitTrcd
  <2>1. next_state_after_trcd \in States
    BY <1>a DEF BurstType, States
  <2> QED BY <1>a, <1>1, <2>1, DwellTypes, CountTypes, NoCommandTypes,
             SequencingTypes, Zenon DEF WaitTrcd
<1>2. CASE IssueRead
  <2>1. CommandType'
    BY <1>2, DriveTypes, LatchedTypes DEF IssueRead, BusCommands, AddressPatterns
  <2> QED BY <1>a, <1>2, <2>1, GotoTypes, ParameterTypes, SameBurstTypes, PlainTypes,
             Zenon DEF IssueRead, States
<1>3. CASE ScalarRead
  <2>1. ControlType' /\ CommandType'
    BY <1>a, <1>3, DwellTypes, CountTypes, NoCommandTypes, Zenon DEF ScalarRead, States
  <2> QED BY <1>a, <1>3, <2>1, ZeroTypes, SameBurstTypes, PlainTypes, Zenon
          DEF ScalarRead
<1>4. CASE ScalarReadEnd
  <2>1. ControlType' /\ CommandType'
    BY <1>a, <1>4, GotoTypes, CountTypes, NoCommandTypes, Zenon
    DEF ScalarReadEnd, States
  <2>2. blk_cnt' \in Word2 /\ readPtr' \in Word3
    BY <1>a, <1>4, NextBlockTypes, WordCountTypes, Zenon DEF ScalarReadEnd, BurstType
  <2>3. BurstType' /\ from_blw' \in BOOLEAN /\ odt_o' \in BOOLEAN
    BY <1>a, <1>4, <2>2, Zenon DEF ScalarReadEnd, BurstType
  <2> QED BY <1>4, <2>1, <2>3, PlainTypes, Zenon DEF ScalarReadEnd
<1>5. CASE BlockReadActivate
  BY <1>5, BlockActivateTypes DEF BlockReadActivate
<1>6. CASE BlockReadIssue
  <2>1. CommandType'
    BY <1>6, DriveTypes, LatchedTypes
    DEF BlockReadIssue, BlockColumn, BusCommands, AddressPatterns
  <2> QED BY <1>6, <2>1, GotoTypes, ParameterTypes, SequencingTypes, Zenon
          DEF BlockReadIssue, States
<1>7. CASE BlockRead
  <2>1. ControlType' /\ CommandType'
    BY <1>a, <1>7, DwellTypes, CountTypes, NoCommandTypes, Zenon DEF BlockRead, States
  <2> QED BY <1>a, <1>7, <2>1, ZeroTypes, SameBurstTypes, PlainTypes, Zenon
          DEF BlockRead
<1>8. CASE DefaultArm
  BY <1>a, <1>8, GotoTypes, NoCommandTypes, SequencingTypes, Zenon
  DEF DefaultArm, States
<1> QED BY <1>1, <1>2, <1>3, <1>4, <1>5, <1>6, <1>7, <1>8, Zenon

(* Waiting out the write latency.                                            *)
LEMMA WriteLatencyTypes ==
  ASSUME TypeOK, NEW s, NEW blw \in BOOLEAN, NEW window \in Word7,
         WriteLatency(s, blw, window)
  PROVE  ArmTypes'
<1>a. BusType /\ ControlType /\ BurstType /\ odt_o \in BOOLEAN
  BY Zenon DEF TypeOK, FlagType
<1>1. ControlType' /\ CommandType'
  BY <1>a, DwellTypes, NoCommandTypes, Zenon DEF WriteLatency, States
<1>2. BurstType' /\ from_blw' \in BOOLEAN /\ odt_o' \in BOOLEAN
  BY <1>a, ZeroTypes, Zenon DEF WriteLatency, BurstType
<1> QED BY <1>1, <1>2, PlainTypes, Zenon DEF WriteLatency

(* Writes.                                                                   *)
LEMMA WriteTypes ==
  ASSUME TypeOK,
         \/ IssueWrite \/ ScalarWrite \/ WriteData \/ WriteEnd
         \/ BlockWriteActivate \/ BlockWriteIssue \/ BlockWrite
  PROVE  ArmTypes'
<1>a. /\ BusType /\ ControlType /\ BurstType
      /\ CntTick \in Word7 /\ readPtr \in Word3
      /\ odt_o \in BOOLEAN /\ from_blw \in BOOLEAN
  BY CntTickTypes, Zenon DEF TypeOK, ControlType, BurstType, FlagType
<1>1. CASE IssueWrite
  <2>1. CommandType'
    BY <1>1, DriveTypes, LatchedTypes DEF IssueWrite, BusCommands, AddressPatterns
  <2> QED BY <1>a, <1>1, <2>1, GotoTypes, CountTypes, SameBurstTypes, PlainTypes,
             Zenon DEF IssueWrite, States
<1>2. CASE ScalarWrite
  BY <1>2, WriteLatencyTypes, CountTypes, Zenon DEF ScalarWrite
<1>3. CASE WriteData
  <2>1. ControlType' /\ CommandType'
    BY <1>a, <1>3, DwellTypes, CountTypes, NoCommandTypes, Zenon DEF WriteData, States
  <2>2. BurstType' /\ from_blw' \in BOOLEAN /\ odt_o' \in BOOLEAN
    BY <1>a, <1>3, WordCountTypes, Zenon DEF WriteData, BurstType
  <2> QED BY <1>3, <2>1, <2>2, PlainTypes, Zenon DEF WriteData
<1>4. CASE WriteEnd
  <2>1. ControlType' /\ CommandType'
    BY <1>a, <1>4, GotoTypes, CountTypes, NoCommandTypes, Zenon DEF WriteEnd, States
  <2>2. blk_cnt' \in Word2 /\ odt_o' \in BOOLEAN
    BY <1>a, <1>4, NextBlockTypes, Zenon DEF WriteEnd, BurstType
  <2>3. BurstType' /\ from_blw' \in BOOLEAN
    BY <1>a, <1>4, <2>2, Zenon DEF WriteEnd, BurstType
  <2> QED BY <1>4, <2>1, <2>2, <2>3, PlainTypes, Zenon DEF WriteEnd
<1>5. CASE BlockWriteActivate
  BY <1>5, BlockActivateTypes DEF BlockWriteActivate
<1>6. CASE BlockWriteIssue
  <2>1. CommandType'
    BY <1>6, DriveTypes, LatchedTypes
    DEF BlockWriteIssue, BlockColumn, BusCommands, AddressPatterns
  <2> QED BY <1>a, <1>6, <2>1, GotoTypes, CountTypes, SameBurstTypes, PlainTypes,
             Zenon DEF BlockWriteIssue, States
<1>7. CASE BlockWrite
  BY <1>7, LatchedTypes, WriteWindowTypes, WriteLatencyTypes, Zenon DEF BlockWrite
<1> QED BY <1>1, <1>2, <1>3, <1>4, <1>5, <1>6, <1>7, Zenon

(* Refresh.                                                                  *)
LEMMA RefreshTypes ==
  ASSUME TypeOK,
         RefreshPrecharge \/ RefreshWaitTrp \/ Refresh \/ RefreshWaitTrfc
  PROVE  ArmTypes'
<1>a. /\ BusType /\ ControlType /\ CntTick \in Word7 /\ readPtr \in Word3
      /\ RefCntTick \in Word12 /\ ActGapTick \in Word6
      /\ odt_o \in BOOLEAN /\ have_act_any \in BOOLEAN
  BY CntTickTypes, RefCntTickTypes, ActGapTickTypes, Zenon
  DEF TypeOK, ControlType, CounterType, BurstType, FlagType
<1>1. CASE RefreshPrecharge
  BY <1>a, <1>1, DwellTypes, CountTypes, PrechargeAllTypes, SequencingTypes, Zenon
  DEF RefreshPrecharge, States
<1>2. CASE RefreshWaitTrp
  BY <1>a, <1>2, DwellTypes, CountTypes, NoCommandTypes, SequencingTypes, Zenon
  DEF RefreshWaitTrp, States
<1>3. CASE Refresh
  <2>1. CommandType'
    BY <1>a, <1>3, DriveTypes DEF Refresh, BusType, BusCommands
  <2>2. ControlType' /\ TimersTyped'
    BY <1>a, <1>3, GotoTypes, ParameterTypes, Zenon DEF Refresh, TimersTyped, States
  <2>3. /\ BurstType' /\ from_blw' \in BOOLEAN /\ odt_o' \in BOOLEAN
        /\ ModesTyped' /\ strobe' \in [StrobeNames -> BOOLEAN]
    BY <1>a, <1>3, SameBurstTypes, SameModesTypes, StrobeTypes, Zenon DEF Refresh
  <2> QED BY <1>3, <2>1, <2>2, <2>3, NotQuietTypes, PartsSuffice, Zenon DEF Refresh
<1>4. CASE RefreshWaitTrfc
  BY <1>a, <1>4, DwellTypes, CountTypes, NoCommandTypes, SequencingTypes, Zenon
  DEF RefreshWaitTrfc, States
<1> QED BY <1>1, <1>2, <1>3, <1>4, Zenon

(* A low-power arm is typed once state, bus, refCnt and its modes are.       *)
LEMMA LowPowerTypes ==
  ASSUME TypeOK, LowPowerFrame, ControlType', CommandType', refCnt' \in Word12,
         selfref_active' \in {selfref_active, TRUE, FALSE},
         pdown_active_o' \in {pdown_active_o, TRUE, FALSE}
  PROVE  ArmTypes'
<1>1. TimersTyped'
  BY ActGapTickTypes, Zenon DEF TypeOK, CounterType, FlagType, LowPowerFrame, TimersTyped
<1>2. ModesTyped'
  BY Zenon DEF TypeOK, CounterType, FlagType, LowPowerFrame, dll, ModesTyped
<1>3. BurstType' /\ from_blw' \in BOOLEAN /\ odt_o' \in BOOLEAN
  BY SameBurstTypes, Zenon DEF LowPowerFrame, TypeOK, BurstType, FlagType
<1> QED BY <1>1, <1>2, <1>3, NotQuietTypes, StrobeTypes, PartsSuffice, Zenon
        DEF LowPowerFrame

(* Self-refresh.                                                             *)
LEMMA SelfRefreshTypes ==
  ASSUME TypeOK,
         \/ SelfRefreshPrecharge \/ SelfRefreshWaitTrp \/ SelfRefreshEnter
         \/ AbortSelfRefresh \/ SelfRefreshIdle \/ ExitSelfRefresh
         \/ SelfRefreshExitWait
  PROVE  ArmTypes'
<1>a. /\ BusType /\ ControlType /\ CntTick \in Word7 /\ RefCntTick \in Word12
      /\ 0 \in Word12 /\ REF_CNT_INIT \in Word12
  BY CntTickTypes, RefCntTickTypes, ZeroTypes, ParameterTypes, Zenon
  DEF TypeOK, ControlType, CounterType
<1>1. CASE SelfRefreshPrecharge
  BY <1>a, <1>1, DwellTypes, CountTypes, PrechargeAllTypes, LowPowerTypes, Zenon
  DEF SelfRefreshPrecharge, LowPowerArm, States
<1>2. CASE SelfRefreshWaitTrp
  BY <1>a, <1>2, DwellTypes, CountTypes, NoCommandTypes, LowPowerTypes, Zenon
  DEF SelfRefreshWaitTrp, LowPowerArm, States
<1>3. CASE SelfRefreshEnter
  BY <1>a, <1>3, DwellTypes, CountTypes, NoCommandTypes, LowPowerTypes, Zenon
  DEF SelfRefreshEnter, LowPowerArm, States
<1>4. CASE AbortSelfRefresh
  BY <1>a, <1>4, GotoTypes, PrechargeAllTypes, NoCommandTypes, LowPowerTypes, Zenon
  DEF AbortSelfRefresh, AbortEntry, States
<1>5. CASE SelfRefreshIdle
  BY <1>a, <1>5, GotoTypes, NoCommandTypes, LowPowerTypes, Zenon
  DEF SelfRefreshIdle, LowPowerArm, States
<1>6. CASE ExitSelfRefresh
  BY <1>a, <1>6, GotoTypes, ParameterTypes, NoCommandTypes, LowPowerTypes, Zenon
  DEF ExitSelfRefresh, LowPowerArm, States
<1>7. CASE SelfRefreshExitWait
  BY <1>a, <1>7, DwellTypes, CountTypes, NoCommandTypes, LowPowerTypes, Zenon
  DEF SelfRefreshExitWait, ExitWait, States
<1> QED BY <1>1, <1>2, <1>3, <1>4, <1>5, <1>6, <1>7, Zenon

(* Power-down.                                                               *)
LEMMA PowerDownTypes ==
  ASSUME TypeOK,
         \/ PowerDownPrecharge \/ PowerDownWaitTrp \/ AbortPowerDown
         \/ PowerDownIdle \/ ExitPowerDown \/ PowerDownExitWait
  PROVE  ArmTypes'
<1>a. /\ BusType /\ ControlType /\ CntTick \in Word7 /\ RefCntTick \in Word12
      /\ 0 \in Word12 /\ REF_CNT_INIT \in Word12
  BY CntTickTypes, RefCntTickTypes, ZeroTypes, ParameterTypes, Zenon
  DEF TypeOK, ControlType, CounterType
<1>1. CASE PowerDownPrecharge
  BY <1>a, <1>1, DwellTypes, CountTypes, PrechargeAllTypes, LowPowerTypes, Zenon
  DEF PowerDownPrecharge, LowPowerArm, States
<1>2. CASE PowerDownWaitTrp
  BY <1>a, <1>2, DwellTypes, CountTypes, NoCommandTypes, LowPowerTypes, Zenon
  DEF PowerDownWaitTrp, LowPowerArm, States
<1>3. CASE AbortPowerDown
  BY <1>a, <1>3, GotoTypes, PrechargeAllTypes, NoCommandTypes, LowPowerTypes, Zenon
  DEF AbortPowerDown, AbortEntry, States
<1>4. CASE PowerDownIdle
  BY <1>a, <1>4, GotoTypes, NoCommandTypes, LowPowerTypes, Zenon
  DEF PowerDownIdle, LowPowerArm, States
<1>5. CASE ExitPowerDown
  BY <1>a, <1>5, GotoTypes, ParameterTypes, NoCommandTypes, LowPowerTypes, Zenon
  DEF ExitPowerDown, LowPowerArm, States
<1>6. CASE PowerDownExitWait
  BY <1>a, <1>6, DwellTypes, CountTypes, NoCommandTypes, LowPowerTypes, Zenon
  DEF PowerDownExitWait, ExitWait, States
<1> QED BY <1>1, <1>2, <1>3, <1>4, <1>5, <1>6, Zenon

(* The tDLLK wait fits its register when loaded and while it runs.           *)
LEMMA TdllkTypes ==
  /\ CNT_TDLLK \in Word16
  /\ dll_tdllk_cnt \in Word16 /\ dll_tdllk_cnt # 0 => dll_tdllk_cnt - 1 \in Word16
<1>1. Values16 \in Nat /\ Values16 > 0
  BY WordSizes
<1>2. CNT_TDLLK \in Word16
  BY <1>1, TimingAssumption DEF CNT_TDLLK, Word16
<1>3. dll_tdllk_cnt \in Word16 /\ dll_tdllk_cnt # 0 => dll_tdllk_cnt - 1 \in Word16
  BY <1>1 DEF Word16
<1> QED BY <1>2, <1>3, Zenon

(* A late arm of a DLL change is typed once state and its counter are.       *)
LEMMA DllArmTypes ==
  ASSUME TypeOK, DllArm, ControlType', dll_tdllk_cnt' \in Word16,
         dll_in_progress' \in BOOLEAN
  PROVE  ArmTypes'
<1>1. CommandType' /\ TimersTyped'
  BY NoCommandTypes, TimersTypes, Zenon DEF TypeOK, DllArm
<1>2. ModesTyped'
  BY Zenon DEF TypeOK, FlagType, DllArm, ModesTyped
<1>3. BurstType' /\ from_blw' \in BOOLEAN /\ odt_o' \in BOOLEAN
  BY SameBurstTypes, Zenon DEF DllArm, TypeOK, BurstType, FlagType
<1> QED BY <1>1, <1>2, <1>3, NotQuietTypes, StrobeTypes, PartsSuffice, Zenon
        DEF DllArm

(* The DLL change.                                                           *)
LEMMA DllTypes ==
  ASSUME TypeOK,
         DllPrecharge \/ DllWaitTrp \/ DllModeSet \/ DllWaitTmrd \/ DllWaitTdllk
  PROVE  ArmTypes'
<1>a. /\ BusType /\ ControlType /\ CntTick \in Word7
      /\ dll_tdllk_cnt \in Word16 /\ dll_in_progress \in BOOLEAN
  BY CntTickTypes, Zenon DEF TypeOK, ControlType, CounterType, FlagType
<1>1. CASE DllPrecharge
  BY <1>a, <1>1, DwellTypes, CountTypes, PrechargeAllTypes, SequencingTypes, Zenon
  DEF DllPrecharge, States
<1>2. CASE DllWaitTrp
  BY <1>a, <1>2, DwellTypes, CountTypes, NoCommandTypes, SequencingTypes, Zenon
  DEF DllWaitTrp, States
<1>3. CASE DllModeSet
  <2>1. CommandType'
    BY <1>3, DriveTypes, GeometryAssumption DEF DllModeSet, BusCommands,
       AddressPatterns
  <2> QED BY <1>a, <1>3, <2>1, DwellTypes, CountTypes, SequencingTypes, Zenon
          DEF DllModeSet, States
<1>4. CASE DllWaitTmrd
  BY <1>a, <1>4, DwellTypes, CountTypes, TdllkTypes, DllArmTypes, Zenon
  DEF DllWaitTmrd, States
<1>5. CASE DllWaitTdllk
  <2>1. ControlType' /\ DllArm /\ dll_in_progress' \in BOOLEAN
    BY <1>a, <1>5, GotoTypes, Zenon DEF DllWaitTdllk, States
  <2>2. dll_tdllk_cnt' \in Word16
    <3>1. CASE dll_tdllk_cnt # 0
      BY <1>a, <1>5, <3>1, TdllkTypes DEF DllWaitTdllk
    <3>2. CASE dll_tdllk_cnt = 0
      BY <1>a, <1>5, <3>2, Zenon DEF DllWaitTdllk
    <3> QED BY <3>1, <3>2, Zenon
  <2> QED BY <2>1, <2>2, DllArmTypes, Zenon
<1> QED BY <1>1, <1>2, <1>3, <1>4, <1>5, Zenon

-----------------------------------------------------------------------------
(***************************************************************************)
(* Type correctness.                                                       *)
(***************************************************************************)
(* At power-up.                                                              *)
LEMMA InitTypes == Init => TypeOK
<1> SUFFICES ASSUME Init PROVE TypeOK
  OBVIOUS
<1>1. ControlType
  BY CountTypes, Zenon DEF Init, ControlType, States
<1>2. CounterType
  BY ZeroTypes, ParameterTypes, Zenon DEF Init, CounterType
<1>3. BurstType
  <2>1. cur \in CommandRecords
    BY GeometryAssumption DEF Init, CommandRecords, Commands
  <2> QED BY <2>1, ZeroTypes, Zenon DEF Init, BurstType
<1>4. BusType
  BY GeometryAssumption, Zenon DEF Init, BusType, BusCommands, AddressPatterns
<1>5. FlagType
  <2>1. strobe \in [StrobeNames -> BOOLEAN]
    BY DEF Init
  <2> QED BY <2>1, Zenon DEF Init, FlagType
<1> QED BY <1>1, <1>2, <1>3, <1>4, <1>5, Zenon DEF TypeOK

(* After a reset, from whatever was there.                                   *)
LEMMA ResetTypes ==
  ASSUME TypeOK, Reset
  PROVE  TypeOK'
<1>1. ControlType'
  BY GotoTypes, CountTypes, Zenon DEF Reset, States
<1>2. CounterType'
  BY ZeroTypes, ParameterTypes, Zenon
  DEF TypeOK, CounterType, Reset, dll, quiet
<1>3. BurstType'
  <2>1. cur' \in CommandRecords
    BY GeometryAssumption DEF Reset, CommandRecords, Commands
  <2> QED BY <2>1, ZeroTypes, Zenon DEF Reset, BurstType
<1>4. BusType'
  BY GeometryAssumption, Zenon DEF Reset, Drive, BusType, BusCommands, AddressPatterns
<1>5. FlagType'
  BY StrobeTypes, Zenon DEF TypeOK, FlagType, Reset, dll, quiet
<1> QED BY <1>1, <1>2, <1>3, <1>4, <1>5, Zenon DEF TypeOK

(* On every clock.                                                           *)
LEMMA ClockTypes ==
  ASSUME TypeOK, Clock
  PROVE  TypeOK'
<1>1. ArmTypes'
  BY IdleArmTypes, FetchTypes, ReadTypes, WriteTypes, RefreshTypes,
     SelfRefreshTypes, PowerDownTypes, DllTypes, Zenon
  DEF Clock, CommandArms, MaintenanceArms
<1> QED BY <1>1, ArmsSuffice, Zenon DEF Clock

(* Doing nothing.                                                            *)
LEMMA StutterTypes ==
  ASSUME TypeOK, UNCHANGED vars
  PROVE  TypeOK'
<1>1. UNCHANGED <<ready, st, cnt, refCnt, act_gap_cnt, have_act_any, strobe,
                  readPtr, selfref_active, pdown_active_o>>
  BY Zenon DEF vars
<1>2. UNCHANGED <<burst, pins, dll, quiet, delayed>>
  BY Zenon DEF vars
<1>3. UNCHANGED <<cur, next_state_after_trcd, blk_cnt, burst_cnt, from_blw>>
  BY <1>2, Zenon DEF burst
<1>4. UNCHANGED <<bus, ba_o, a_o, odt_o>>
  BY <1>2, Zenon DEF pins
<1>5. UNCHANGED <<dll_in_progress, dll_tdllk_cnt, idle_quiet_cnt, auto_selfref_req,
                  selfref_active_o, dll_busy_o, rank_sel_o>>
  BY <1>2, Zenon DEF dll, quiet, delayed
<1>6. ControlType'
  BY <1>1, Zenon DEF TypeOK, ControlType
<1>7. CounterType'
  BY <1>1, <1>5, Zenon DEF TypeOK, CounterType
<1>8. BurstType'
  BY <1>1, <1>3, Zenon DEF TypeOK, BurstType
<1>9. BusType'
  BY <1>4, <1>5, Zenon DEF TypeOK, BusType
<1>10. FlagType'
  BY <1>1, <1>3, <1>4, <1>5, Zenon DEF TypeOK, FlagType
<1> QED BY <1>6, <1>7, <1>8, <1>9, <1>10, Zenon DEF TypeOK

(* Every register keeps its type and width whatever the host asks for, for   *)
(* all parameters: no dwell count, latched command or burst number overflows *)
(* its register and no bus pattern outside the alphabet is driven.           *)
THEOREM TypeCorrect == Spec => []TypeOK
<1>1. TypeOK /\ [Next]_vars => TypeOK'
  BY ClockTypes, ResetTypes, StutterTypes, Zenon DEF Next
<1> QED BY InitTypes, <1>1, PTL DEF Spec

-----------------------------------------------------------------------------
(***************************************************************************)
(* The pins in low power and in a write burst: QuietInv is inductive.  Its *)
(* flags say which states an arm may be in; so every arm is either         *)
(* ordinary (it starts and ends outside the states the flags speak of) or  *)
(* one of the few that raise, keep or drop a flag.                         *)
(***************************************************************************)
\* The states some flag speaks of.
FlaggedStates == WriteStates \cup {"SREF_ENTER", "SREF_IDLE", "PD_IDLE"}

\* What an ordinary clock does.
Ordinary ==
  /\ st \notin FlaggedStates /\ st' \notin WriteStates
  /\ odt_o' = odt_o \/ odt_o' = FALSE
  /\ selfref_active' = selfref_active \/ selfref_active' = FALSE
  /\ pdown_active_o' = pdown_active_o \/ pdown_active_o' = FALSE
  /\ ~strobe'["ts"]

(* With no strobe raised the data bus is not driven.                         *)
LEMMA NoStrobe ==
  ASSUME Raise({})
  PROVE  /\ ~strobe'["ts"]
         /\ \A x \in StrobeNames : ~strobe'[x]
  BY DEF Raise, StrobeNames

(* Ordinary clocks keep the invariant, because no flag is up.                *)
LEMMA OrdinaryKeeps ==
  ASSUME QuietInv, Ordinary, DelayedOutputs
  PROVE  QuietInv'
<1>1. ~odt_o /\ ~selfref_active /\ ~pdown_active_o
  BY Zenon DEF QuietInv, Ordinary, FlaggedStates
<1>2. ~odt_o' /\ ~selfref_active' /\ ~pdown_active_o'
  BY <1>1 DEF Ordinary
<1>3. ~selfref_active_o'
  BY <1>1 DEF DelayedOutputs
<1>4. st' \notin WriteStates /\ ~strobe'["ts"]
  BY Zenon DEF Ordinary
<1> QED BY <1>2, <1>3, <1>4, Zenon DEF QuietInv, WriteWindow, LowPowerQuiet

(* IDLE: every branch goes to a state without flags.                         *)
LEMMA IdleOrdinary ==
  ASSUME IdleArms
  PROVE  Ordinary
<1>1. ASSUME Idle, Raise({}) \/ Raise({"getCmd"}),
             st' \in {"SREF_PRE", "DLL_PRE", "PD_PRE", "RPRE", "GETCMD", "IDLE"}
      PROVE  Ordinary
  <2>1. ~strobe'["ts"]
    BY <1>1 DEF Raise, StrobeNames
  <2>2. st \notin FlaggedStates /\ st' \notin WriteStates
    BY <1>1 DEF Idle, FlaggedStates, WriteStates
  <2> QED BY <1>1, <2>1, <2>2, Zenon DEF Idle, Ordinary
<1> QED BY <1>1, Zenon DEF IdleArms, StartSelfRefresh, StartDll, StartPowerDown,
           StartRefresh, StartCommand, StayIdle, Goto

(* The arms that read, refresh or change the DLL.                            *)
LEMMA SequencingOrdinary ==
  ASSUME TypeOK,
         \/ WaitTrcd \/ BlockReadIssue \/ DefaultArm
         \/ RefreshPrecharge \/ RefreshWaitTrp \/ RefreshWaitTrfc
         \/ DllPrecharge \/ DllWaitTrp \/ DllModeSet
  PROVE  Ordinary
<1>1. Sequencing
  BY Zenon DEF WaitTrcd, BlockReadIssue, DefaultArm, RefreshPrecharge,
     RefreshWaitTrp, RefreshWaitTrfc, DllPrecharge, DllWaitTrp, DllModeSet
<1>2. next_state_after_trcd \notin WriteStates
  BY DEF TypeOK, BurstType, WriteStates
<1>3. st \notin FlaggedStates /\ st' \notin WriteStates
  BY <1>2 DEF FlaggedStates, WriteStates, Dwell, Goto, WaitTrcd, BlockReadIssue,
     DefaultArm, RefreshPrecharge, RefreshWaitTrp, RefreshWaitTrfc, DllPrecharge,
     DllWaitTrp, DllModeSet
<1> QED BY <1>1, <1>3, NoStrobe, Zenon DEF Sequencing, Plain, SameModes, Ordinary

(* Fetching and activating.                                                  *)
LEMMA FetchOrdinary ==
  ASSUME \/ GetCommand
         \/ ActivateHold \/ ActivateScalar \/ ActivateBlock \/ ActivateDrop
         \/ BlockReadActivate \/ BlockWriteActivate
  PROVE  Ordinary
<1>1. SameModes /\ Raise({}) /\ UNCHANGED odt_o
  BY Zenon DEF GetCommand, ActivateHold, ActivateScalar, ActivateBlock, ActivateDrop,
     Activating, BlockReadActivate, BlockWriteActivate, BlockActivate, Plain
<1>2. st \notin FlaggedStates /\ st' \notin WriteStates
  BY DEF FlaggedStates, WriteStates, Dwell, Goto, GetCommand, ActivateHold,
     ActivateScalar, ActivateBlock, ActivateDrop, Activating, BlockReadActivate,
     BlockWriteActivate, BlockActivate
<1> QED BY <1>1, <1>2, NoStrobe, Zenon DEF SameModes, Ordinary

(* Reading: only capture and return strobes are raised.                      *)
LEMMA ReadOrdinary ==
  ASSUME IssueRead \/ ScalarRead \/ ScalarReadEnd \/ BlockRead
  PROVE  Ordinary
<1>1. SameModes /\ (odt_o' = odt_o \/ odt_o' = FALSE)
  BY Zenon DEF IssueRead, ScalarRead, ScalarReadEnd, BlockRead, Plain
<1>2. ~strobe'["ts"]
  <2>1. Raise({}) \/ Raise({"put"}) \/ Raise({"listen"}) \/ Raise({"listen", "put"})
    BY Zenon DEF IssueRead, ScalarRead, ScalarReadEnd, BlockRead
  <2> QED BY <2>1 DEF Raise, StrobeNames
<1>3. st \notin FlaggedStates /\ st' \notin WriteStates
  BY DEF FlaggedStates, WriteStates, Dwell, Goto, IssueRead, ScalarRead,
     ScalarReadEnd, BlockRead
<1> QED BY <1>1, <1>2, <1>3, Zenon DEF SameModes, Ordinary

(* The refresh itself and the end of a DLL change.                           *)
LEMMA RefreshOrdinary ==
  ASSUME Refresh \/ DllWaitTmrd \/ DllWaitTdllk
  PROVE  Ordinary
<1>1. /\ Raise({}) /\ UNCHANGED odt_o
      /\ UNCHANGED <<selfref_active, pdown_active_o>>
  BY Zenon DEF Refresh, DllWaitTmrd, DllWaitTdllk, DllArm, SameModes
<1>2. st \notin FlaggedStates /\ st' \notin WriteStates
  BY DEF FlaggedStates, WriteStates, Dwell, Goto, Refresh, DllWaitTmrd, DllWaitTdllk
<1> QED BY <1>1, <1>2, NoStrobe, Zenon DEF Ordinary

(* Low-power entry before CKE falls, its abort, and the wait after exit.     *)
LEMMA LowPowerOrdinary ==
  ASSUME \/ SelfRefreshPrecharge \/ SelfRefreshWaitTrp \/ SelfRefreshExitWait
         \/ PowerDownPrecharge \/ AbortPowerDown \/ PowerDownExitWait
  PROVE  Ordinary
<1>1. /\ Raise({}) /\ UNCHANGED <<odt_o, selfref_active>>
      /\ pdown_active_o' = pdown_active_o \/ pdown_active_o' = FALSE
  BY Zenon DEF SelfRefreshPrecharge, SelfRefreshWaitTrp, SelfRefreshExitWait,
     PowerDownPrecharge, AbortPowerDown, PowerDownExitWait, ExitWait, AbortEntry,
     LowPowerArm, LowPowerFrame
<1>2. st \notin FlaggedStates /\ st' \notin WriteStates
  BY DEF FlaggedStates, WriteStates, Dwell, Goto, SelfRefreshPrecharge,
     SelfRefreshWaitTrp, SelfRefreshExitWait, PowerDownPrecharge, AbortPowerDown,
     PowerDownExitWait, ExitWait, AbortEntry
<1> QED BY <1>1, <1>2, NoStrobe, Zenon DEF Ordinary

-----------------------------------------------------------------------------
(* A clock of a write burst: no low-power flag is up, termination follows    *)
(* the state, and the data bus is driven only while nothing is commanded.    *)
LEMMA WritingKeeps ==
  ASSUME QuietInv, DelayedOutputs, SameModes,
         st \in WriteStates \cup {"ISSUE_WRITE", "BLW_ISSUE"},
         \/ st' \in WriteStates /\ odt_o'
         \/ st' \notin WriteStates /\ ~odt_o',
         strobe'["ts"] => bus' = "DES" /\ odt_o'
  PROVE  QuietInv'
<1>1. ~selfref_active /\ ~pdown_active_o
  BY Zenon DEF QuietInv, WriteStates
<1>2. ~selfref_active' /\ ~pdown_active_o'
  BY <1>1 DEF SameModes
<1>3. ~selfref_active_o'
  BY <1>1 DEF DelayedOutputs
<1> QED BY <1>2, <1>3, Zenon DEF QuietInv, WriteWindow, LowPowerQuiet

(* The write arms.                                                           *)
LEMMA WriteKeeps ==
  ASSUME TypeOK, QuietInv, DelayedOutputs,
         \/ IssueWrite \/ BlockWriteIssue \/ ScalarWrite \/ BlockWrite
         \/ WriteData \/ WriteEnd
  PROVE  QuietInv'
<1>a. odt_o \in BOOLEAN
  BY Zenon DEF TypeOK, FlagType
<1>1. CASE IssueWrite \/ BlockWriteIssue
  <2>1. st \in {"ISSUE_WRITE", "BLW_ISSUE"} /\ st' \in WriteStates
    BY <1>1 DEF IssueWrite, BlockWriteIssue, Goto, WriteStates
  <2>2. SameModes /\ odt_o' = TRUE /\ Raise({})
    BY <1>1, Zenon DEF IssueWrite, BlockWriteIssue, Plain
  <2> QED BY <2>1, <2>2, NoStrobe, WritingKeeps, Zenon
<1>2. CASE ScalarWrite \/ BlockWrite \/ WriteData
  <2>1. st \in WriteStates /\ st' \in WriteStates
    BY <1>2 DEF ScalarWrite, BlockWrite, WriteLatency, WriteData, Dwell, Goto,
       WriteStates
  <2>2. SameModes /\ UNCHANGED odt_o /\ bus' = "DES"
    BY <1>2, Zenon DEF ScalarWrite, BlockWrite, WriteLatency, WriteData, Plain, Deselect
  <2>3. odt_o = TRUE
    BY <1>a, <2>1, Zenon DEF QuietInv
  <2>4. odt_o' = TRUE
    BY <2>2, <2>3, Zenon
  <2> QED BY <2>1, <2>2, <2>4, WritingKeeps, Zenon
<1>3. CASE WriteEnd
  <2>1. SameModes /\ Raise({}) /\ st = "SCWREND"
    BY <1>3, Zenon DEF WriteEnd, Plain
  <2>2. odt_o = TRUE
    BY <1>a, <2>1, Zenon DEF QuietInv, WriteStates
  <2>3. st \in WriteStates
    BY <2>1 DEF WriteStates
  <2>4. CASE cnt # 0
    <3>1. st' \in WriteStates
      BY <1>3, <2>4 DEF WriteEnd, Goto, WriteStates
    <3>2. odt_o' = TRUE
      BY <1>3, <2>2, <2>4, Zenon DEF WriteEnd
    <3> QED BY <2>1, <2>3, <3>1, <3>2, NoStrobe, WritingKeeps, Zenon
  <2>5. CASE cnt = 0
    <3>1. st' \notin WriteStates
      BY <1>3, <2>5 DEF WriteEnd, Goto, WriteStates
    <3>2. odt_o' = FALSE
      BY <1>3, <2>5, Zenon DEF WriteEnd
    <3> QED BY <2>1, <2>3, <3>1, <3>2, NoStrobe, WritingKeeps, Zenon
  <2> QED BY <2>4, <2>5, Zenon
<1> QED BY <1>1, <1>2, <1>3, Zenon

-----------------------------------------------------------------------------
(* A clock with a low-power flag up or going up: the pins stay quiet and the *)
(* flag goes with its states.                                                *)
LEMMA QuietKeeps ==
  ASSUME QuietInv, LowPowerFrame, st \notin WriteStates, st' \notin WriteStates,
         bus' \in {"DES", "NOP"},
         selfref_active' => st' \in {"SREF_ENTER", "SREF_IDLE"},
         pdown_active_o' => st' = "PD_IDLE"
  PROVE  QuietInv'
<1>1. ~odt_o /\ Raise({}) /\ UNCHANGED odt_o
  BY Zenon DEF QuietInv, LowPowerFrame
<1>2. ~odt_o'
  BY <1>1
<1> QED BY <1>1, <1>2, NoStrobe, Zenon DEF QuietInv, WriteWindow, LowPowerQuiet

(* Self-refresh while its flag may be up.                                    *)
LEMMA SelfRefreshKeeps ==
  ASSUME QuietInv, DelayedOutputs,
         \/ SelfRefreshEnter \/ AbortSelfRefresh
         \/ SelfRefreshIdle \/ ExitSelfRefresh
  PROVE  QuietInv'
<1>1. CASE AbortSelfRefresh /\ st # "SREF_ENTER"
  <2>1. /\ Raise({}) /\ UNCHANGED <<odt_o, pdown_active_o>>
        /\ selfref_active' = FALSE
    BY <1>1, Zenon DEF AbortSelfRefresh, AbortEntry, LowPowerFrame
  <2>2. st \notin FlaggedStates /\ st' \notin WriteStates
    BY <1>1 DEF AbortSelfRefresh, AbortEntry, Goto, FlaggedStates, WriteStates
  <2>3. Ordinary
    BY <2>1, <2>2, NoStrobe, Zenon DEF Ordinary
  <2> QED BY <2>3, OrdinaryKeeps
<1>2. CASE ~(AbortSelfRefresh /\ st # "SREF_ENTER")
  <2>1. LowPowerFrame /\ UNCHANGED pdown_active_o
    BY Zenon DEF SelfRefreshEnter, AbortSelfRefresh, SelfRefreshIdle, ExitSelfRefresh,
       AbortEntry, LowPowerArm
  <2>2. st \in {"SREF_ENTER", "SREF_IDLE"} /\ st' \notin WriteStates
    BY <1>2 DEF SelfRefreshEnter, AbortSelfRefresh, SelfRefreshIdle, ExitSelfRefresh,
       AbortEntry, Dwell, Goto, WriteStates
  <2>3. bus' = "NOP"
    BY <1>2, <2>2 DEF SelfRefreshEnter, AbortSelfRefresh, SelfRefreshIdle,
       ExitSelfRefresh, DriveNop
  <2>4. st \notin WriteStates
    BY <2>2 DEF WriteStates
  <2>5. ~pdown_active_o'
    <3>1. st # "PD_IDLE"
      BY <2>2
    <3>2. ~pdown_active_o
      BY <3>1, Zenon DEF QuietInv
    <3> QED BY <2>1, <3>2
  <2>6. selfref_active' => st' \in {"SREF_ENTER", "SREF_IDLE"}
    <3>1. CASE SelfRefreshEnter \/ SelfRefreshIdle
      BY <3>1 DEF SelfRefreshEnter, SelfRefreshIdle, Dwell, Goto
    <3>2. CASE AbortSelfRefresh \/ ExitSelfRefresh
      BY <3>2, Zenon DEF AbortSelfRefresh, ExitSelfRefresh
    <3> QED BY <3>1, <3>2, Zenon
  <2> QED BY <2>1, <2>2, <2>3, <2>4, <2>5, <2>6, QuietKeeps, Zenon
<1> QED BY <1>1, <1>2, Zenon

(* Power-down while its flag may be up.                                      *)
LEMMA PowerDownKeeps ==
  ASSUME QuietInv, PowerDownWaitTrp \/ PowerDownIdle \/ ExitPowerDown
  PROVE  QuietInv'
<1>1. LowPowerFrame /\ UNCHANGED selfref_active
  BY Zenon DEF PowerDownWaitTrp, PowerDownIdle, ExitPowerDown, LowPowerArm
<1>2. st \in {"PD_TRP", "PD_IDLE"} /\ st' \notin WriteStates
  BY DEF PowerDownWaitTrp, PowerDownIdle, ExitPowerDown, Dwell, Goto, WriteStates
<1>3. bus' \in {"DES", "NOP"}
  BY DEF PowerDownWaitTrp, PowerDownIdle, ExitPowerDown, Deselect, DriveNop
<1>4. st \notin WriteStates /\ st \notin {"SREF_ENTER", "SREF_IDLE"}
  BY <1>2 DEF WriteStates
<1>5. ~selfref_active'
  <2>1. ~selfref_active
    BY <1>4, Zenon DEF QuietInv
  <2> QED BY <1>1, <2>1
<1>6. pdown_active_o' => st' = "PD_IDLE"
  <2>1. CASE PowerDownWaitTrp /\ cnt = 0
    BY <2>1, Zenon DEF PowerDownWaitTrp, Dwell, Goto
  <2>2. CASE PowerDownWaitTrp /\ cnt # 0
    <3>1. UNCHANGED pdown_active_o /\ st # "PD_IDLE"
      BY <2>2 DEF PowerDownWaitTrp, Dwell
    <3>2. ~pdown_active_o
      BY <3>1, Zenon DEF QuietInv
    <3> QED BY <3>1, <3>2
  <2>3. CASE PowerDownIdle
    BY <2>3, Zenon DEF PowerDownIdle, Goto
  <2>4. CASE ExitPowerDown
    BY <2>4, Zenon DEF ExitPowerDown
  <2> QED BY <2>1, <2>2, <2>3, <2>4, Zenon
<1> QED BY <1>1, <1>2, <1>3, <1>4, <1>5, <1>6, QuietKeeps, Zenon

-----------------------------------------------------------------------------
(***************************************************************************)
(* The invariant.                                                          *)
(***************************************************************************)
(* At power-up nothing is driven.                                            *)
LEMMA QuietInit == Init => QuietInv
<1> SUFFICES ASSUME Init PROVE QuietInv
  OBVIOUS
<1>1. ~strobe["ts"] /\ \A x \in StrobeNames : ~strobe[x]
  BY DEF Init, StrobeNames
<1>2. st \notin WriteStates
  BY DEF Init, WriteStates
<1> QED BY <1>1, <1>2, Zenon DEF Init, QuietInv, WriteWindow, LowPowerQuiet

(* Nor after a reset, wherever it strikes.                                   *)
LEMMA QuietReset == Reset => QuietInv'
<1> SUFFICES ASSUME Reset PROVE QuietInv'
  OBVIOUS
<1>1. st' \notin WriteStates
  BY DEF Reset, Goto, WriteStates
<1>2. Raise({})
  BY Zenon DEF Reset
<1> QED BY <1>1, <1>2, NoStrobe, Zenon
        DEF Reset, QuietInv, WriteWindow, LowPowerQuiet

(* Every clock keeps it.                                                     *)
LEMMA QuietClock ==
  ASSUME TypeOK, QuietInv, Clock
  PROVE  QuietInv'
<1>1. DelayedOutputs
  BY Zenon DEF Clock
<1>2. CASE IdleArms
  BY <1>1, <1>2, IdleOrdinary, OrdinaryKeeps, Zenon
<1>3. CASE CommandArms
  BY <1>1, <1>3, FetchOrdinary, SequencingOrdinary, ReadOrdinary, WriteKeeps,
     OrdinaryKeeps, Zenon DEF CommandArms
<1>4. CASE MaintenanceArms
  BY <1>1, <1>4, SequencingOrdinary, RefreshOrdinary, LowPowerOrdinary,
     SelfRefreshKeeps, PowerDownKeeps, OrdinaryKeeps, Zenon DEF MaintenanceArms
<1> QED BY <1>2, <1>3, <1>4, Zenon DEF Clock

(* Termination and the low-power flags go with the state of the machine.     *)
THEOREM QuietInvariant == Spec => []QuietInv
<1>1. QuietInv /\ UNCHANGED vars => QuietInv'
  BY DEF vars, burst, pins, delayed, QuietInv, WriteWindow, LowPowerQuiet
<1>2. TypeOK /\ QuietInv /\ [Next]_vars => QuietInv'
  BY <1>1, QuietClock, QuietReset, Zenon DEF Next
<1> QED BY QuietInit, <1>2, TypeCorrect, PTL DEF Spec

(* While CKE is low the device sees no command, no termination and no data   *)
(* traffic, for every timing and however requests, aborts and resets fall.   *)
THEOREM LowPowerIsQuiet == Spec => []LowPowerQuiet
<1>1. QuietInv => LowPowerQuiet
  BY Zenon DEF QuietInv
<1> QED BY <1>1, QuietInvariant, PTL

(* The controller drives the data bus only while nothing is commanded and    *)
(* the device's termination is on, in every burst of every write.            *)
THEOREM WriteWindowIsClean == Spec => []WriteWindow
<1>1. QuietInv => WriteWindow
  BY Zenon DEF QuietInv
<1> QED BY <1>1, QuietInvariant, PTL

-----------------------------------------------------------------------------
(***************************************************************************)
(* The engine's walk: what a clock does to the state, the dwell counter    *)
(* and the command on the pins, whatever else the arm does.                *)
(***************************************************************************)
PreStates == {"RPRE", "SREF_PRE", "PD_PRE", "DLL_PRE"}
TrpStates == {"RNOP", "SREF_TRP", "PD_TRP", "DLL_TRP"}

\* A dwelling state that drives b.
Moves(s, n, c, b) == Dwell(s, n, c) /\ bus' = b

IdleMove ==
  /\ st = "IDLE" /\ bus' = "DES"
  /\ \/ st' \in PreStates /\ cnt' = CNT_RPRE
     \/ Goto("GETCMD", CNT_GETCMD)
     \/ st' = "IDLE"

FetchMove ==
  /\ st = "GETCMD" /\ bus' = "DES"
  /\ \/ cnt = 0 /\ Goto("ACTIVATE", CNT_ACTIVATE)
     \/ Goto("GETCMD", CntTick) /\ UNCHANGED cur

ActivateMove ==
  /\ st = "ACTIVATE" /\ bus' = "ACT"
  /\ \/ cnt # 0 /\ Goto("ACTIVATE", CntTick)
     \/ cnt = 0 /\ cur.cmd \in {"SCR", "SCW"} /\ Goto("WAIT_TRCD", TRCD_WAIT)
     \/ cnt = 0 /\ cur.cmd = "BLR" /\ Goto("BLR_ACT", CNT_ACTIVATE)
     \/ cnt = 0 /\ cur.cmd = "BLW" /\ Goto("BLW_ACT", CNT_ACTIVATE)
     \/ cnt = 0 /\ cur.cmd \in {"BLR", "BLW"} /\ Goto("ACTIVATE", CntTick)
     \/ cnt = 0 /\ cur.cmd \notin {"SCR", "SCW", "BLW"} /\ Goto("IDLE", CntTick)

OpenMove ==
  \/ Moves("BLR_ACT", "WAIT_TRCD", TRCD_WAIT, "ACT")
  \/ Moves("BLW_ACT", "WAIT_TRCD", TRCD_WAIT, "ACT")
  \/ Moves("WAIT_TRCD", next_state_after_trcd, 0, "DES")

ReadMove ==
  \/ st = "ISSUE_READ" /\ Goto("SCREAD", CNT_SCREAD) /\ bus' = "RD"
  \/ st = "BLR_ISSUE" /\ Goto("BLR_READ", CNT_SCREAD) /\ bus' = "RD"
  \/ Moves("SCREAD", "SCREND", 8, "DES")
  \/ Moves("BLR_READ", "SCRNLSN", CNT_SCRNLSN, "DES")
  \/ st = "SCREND" /\ cnt # 0 /\ Goto("SCREND", CntTick) /\ bus' = bus
  \/ st = "SCREND" /\ cnt = 0 /\ Goto("IDLE", 0) /\ bus' = bus
  \/ st = "SCREND" /\ cnt = 0 /\ cur.cmd = "BLR" /\ Goto("BLR_ISSUE", 0) /\ bus' = bus
  \/ st = "SCRNLSN" /\ st' = "IDLE" /\ bus' = bus

WriteMove ==
  \/ st = "ISSUE_WRITE" /\ Goto("SCWRITE", CNT_SCWRITE) /\ bus' = "WR"
  \/ st = "BLW_ISSUE" /\ Goto("BLW_WRITE", CNT_SCWRITE) /\ bus' = "WR"
  \/ Moves("SCWRITE", "SCWRDATA", CNT_SCWRDATA_SCW, "DES")
  \/ Moves("BLW_WRITE", "SCWRDATA", cnt_scwrdata_sz(cur.sz), "DES")
  \/ Moves("SCWRDATA", "SCWREND", CNT_SCWREND, "DES")
  \/ st = "SCWREND" /\ cnt # 0 /\ Goto("SCWREND", CntTick) /\ bus' = bus
  \/ st = "SCWREND" /\ cnt = 0 /\ Goto("IDLE", 0) /\ bus' = bus
  \/ st = "SCWREND" /\ cnt = 0 /\ from_blw /\ Goto("BLW_ISSUE", 0) /\ bus' = bus

RefreshMove ==
  \/ Moves("RPRE", "RNOP", CNT_RNOP, "PRE")
  \/ Moves("RNOP", "RREF", CNT_RREF, "DES")
  \/ st = "RREF" /\ cnt = 1 /\ Goto("RIDL", CNT_RIDL) /\ bus' = "REF"
  \/ st = "RREF" /\ cnt # 1 /\ Goto("RREF", CntTick) /\ bus' = "REF"
  \/ Moves("RIDL", "IDLE", 0, "DES")

SelfRefreshMove ==
  \/ Moves("SREF_PRE", "SREF_TRP", CNT_RNOP, "PRE")
  \/ Moves("SREF_TRP", "SREF_ENTER", 1, "DES")
  \/ Moves("SREF_ENTER", "SREF_IDLE", 0, "NOP")
  \/ st = "SREF_PRE" /\ st' = "IDLE" /\ bus' = "PRE"
  \/ st = "SREF_TRP" /\ st' = "IDLE" /\ bus' = "DES"
  \/ st = "SREF_ENTER" /\ st' = "IDLE" /\ bus' = "NOP"
  \/ st = "SREF_IDLE" /\ st' = "SREF_IDLE" /\ bus' = "NOP"
  \/ st = "SREF_IDLE" /\ Goto("SREF_EXIT_WAIT", CNT_SELFREF_TXSR) /\ bus' = "NOP"
  \/ Moves("SREF_EXIT_WAIT", "IDLE", 0, "NOP")

PowerDownMove ==
  \/ Moves("PD_PRE", "PD_TRP", CNT_RNOP, "PRE")
  \/ Moves("PD_TRP", "PD_IDLE", 0, "DES")
  \/ st = "PD_PRE" /\ st' = "IDLE" /\ bus' = "PRE"
  \/ st = "PD_TRP" /\ st' = "IDLE" /\ bus' = "DES"
  \/ st = "PD_IDLE" /\ st' = "PD_IDLE" /\ bus' = "NOP"
  \/ st = "PD_IDLE" /\ Goto("PD_EXIT_WAIT", CNT_PDOWN_TXP) /\ bus' = "NOP"
  \/ Moves("PD_EXIT_WAIT", "IDLE", 0, "NOP")

DllMove ==
  \/ Moves("DLL_PRE", "DLL_TRP", CNT_RNOP, "PRE")
  \/ Moves("DLL_TRP", "DLL_MRS", 1, "DES")
  \/ Moves("DLL_MRS", "DLL_TMRD", CNT_TMRD, "MRS")
  \/ Moves("DLL_TMRD", "DLL_TDLLK", 0, "DES")
  \/ st = "DLL_TDLLK" /\ bus' = "DES" /\ st' \in {"DLL_TDLLK", "IDLE"}

Move ==
  \/ IdleMove \/ FetchMove \/ ActivateMove \/ OpenMove \/ ReadMove \/ WriteMove
  \/ RefreshMove \/ SelfRefreshMove \/ PowerDownMove \/ DllMove

\* Every arm but GETCMD keeps the latched command.
KeepsCommand == st # "GETCMD" => UNCHANGED cur

(* The branches of IDLE.                                                     *)
LEMMA IdleMoves == IdleArms => IdleMove /\ KeepsCommand
<1>1. ASSUME Idle, \/ \E s \in PreStates : Goto(s, CNT_RPRE)
                   \/ Goto("GETCMD", CNT_GETCMD)
                   \/ st' = "IDLE"
      PROVE  IdleMove /\ KeepsCommand
  <2>1. st = "IDLE" /\ bus' = "DES" /\ UNCHANGED cur
    BY <1>1 DEF Idle, Deselect, burst
  <2>2. (\E s \in PreStates : Goto(s, CNT_RPRE)) => st' \in PreStates /\ cnt' = CNT_RPRE
    BY Zenon DEF Goto
  <2> QED BY <1>1, <2>1, <2>2, Zenon DEF IdleMove, KeepsCommand
<1>2. /\ "SREF_PRE" \in PreStates /\ "DLL_PRE" \in PreStates
      /\ "PD_PRE" \in PreStates /\ "RPRE" \in PreStates
  BY DEF PreStates
<1>3. Goto("IDLE", CntTick) => st' = "IDLE"
  BY Zenon DEF Goto
<1> QED BY <1>1, <1>2, <1>3, Zenon DEF IdleArms, StartSelfRefresh, StartDll,
           StartPowerDown, StartRefresh, StartCommand, StayIdle

(* Fetching and activating.                                                  *)
LEMMA FetchMoves == GetCommand => FetchMove /\ KeepsCommand
  BY Zenon DEF GetCommand, Deselect, FetchMove, KeepsCommand

LEMMA ActivateMoves ==
  ASSUME ActivateHold \/ ActivateScalar \/ ActivateBlock \/ ActivateDrop
  PROVE  ActivateMove /\ KeepsCommand
<1>1. st = "ACTIVATE" /\ bus' = "ACT" /\ UNCHANGED cur
  BY Zenon DEF ActivateHold, ActivateScalar, ActivateBlock, ActivateDrop, Activating,
     DriveActivate, Drive
<1>2. CASE ActivateHold \/ ActivateScalar
  BY <1>1, <1>2, Zenon DEF ActivateHold, ActivateScalar, ActivateMove, KeepsCommand
<1>3. CASE ActivateBlock
  <2>1. cnt = 0 /\ cur.cmd \in {"BLR", "BLW"}
    BY <1>3 DEF ActivateBlock, BlockMayStart
  <2>2. \/ Goto(IF cur.cmd = "BLR" THEN "BLR_ACT" ELSE "BLW_ACT", CNT_ACTIVATE)
        \/ Goto("ACTIVATE", CntTick)
    BY <1>3, Zenon DEF ActivateBlock
  <2>3. CASE cur.cmd = "BLR"
    BY <1>1, <2>1, <2>2, <2>3, Zenon DEF ActivateMove, KeepsCommand
  <2>4. CASE cur.cmd = "BLW"
    <3>1. cur.cmd # "BLR"
      BY <2>4
    <3> QED BY <1>1, <2>1, <2>2, <2>4, <3>1, Zenon DEF ActivateMove, KeepsCommand
  <2> QED BY <2>1, <2>3, <2>4
<1>4. CASE ActivateDrop
  <2>1. cnt = 0 /\ cur.cmd \notin {"SCR", "SCW", "BLW"} /\ Goto("IDLE", CntTick)
    BY <1>4 DEF ActivateDrop, BlockMayStart
  <2> QED BY <1>1, <2>1, Zenon DEF ActivateMove, KeepsCommand
<1> QED BY <1>2, <1>3, <1>4, Zenon

LEMMA OpenMoves ==
  ASSUME BlockReadActivate \/ BlockWriteActivate \/ WaitTrcd
  PROVE  OpenMove /\ KeepsCommand
  BY Zenon DEF BlockReadActivate, BlockWriteActivate, BlockActivate, WaitTrcd,
     DriveActivate, Drive, Deselect, Sequencing, burst, Moves, OpenMove, KeepsCommand

(* Reading.                                                                  *)
LEMMA ReadMoves ==
  ASSUME IssueRead \/ ScalarRead \/ ScalarReadEnd \/ BlockReadIssue \/ BlockRead
         \/ DefaultArm
  PROVE  ReadMove /\ KeepsCommand
<1>1. CASE ScalarReadEnd
  BY <1>1, Zenon DEF ScalarReadEnd, HoldBus, Goto, ReadMove, KeepsCommand
<1>2. CASE ~ScalarReadEnd
  BY <1>2, Zenon DEF IssueRead, ScalarRead, BlockReadIssue, BlockRead, DefaultArm,
     Drive, Deselect, HoldBus, Sequencing, burst, Goto, Moves, ReadMove, KeepsCommand
<1> QED BY <1>1, <1>2

(* Writing.                                                                  *)
LEMMA WriteMoves ==
  ASSUME IssueWrite \/ ScalarWrite \/ WriteData \/ WriteEnd \/ BlockWriteIssue
         \/ BlockWrite
  PROVE  WriteMove /\ KeepsCommand
<1>1. CASE WriteEnd
  BY <1>1, Zenon DEF WriteEnd, HoldBus, WriteMove, KeepsCommand
<1>2. CASE ~WriteEnd
  BY <1>2, Zenon DEF IssueWrite, ScalarWrite, WriteData, BlockWriteIssue, BlockWrite,
     WriteLatency, Drive, Deselect, burst, Moves, WriteMove, KeepsCommand
<1> QED BY <1>1, <1>2

(* Refresh.                                                                  *)
LEMMA RefreshMoves ==
  ASSUME RefreshPrecharge \/ RefreshWaitTrp \/ Refresh \/ RefreshWaitTrfc
  PROVE  RefreshMove /\ KeepsCommand
  BY Zenon DEF RefreshPrecharge, RefreshWaitTrp, Refresh, RefreshWaitTrfc,
     PrechargeAll, Drive, Deselect, Sequencing, burst, Moves, RefreshMove, KeepsCommand

(* Self-refresh.                                                             *)
LEMMA SelfRefreshMoves ==
  ASSUME \/ SelfRefreshPrecharge \/ SelfRefreshWaitTrp \/ SelfRefreshEnter
         \/ AbortSelfRefresh \/ SelfRefreshIdle \/ ExitSelfRefresh
         \/ SelfRefreshExitWait
  PROVE  SelfRefreshMove /\ KeepsCommand
<1>1. UNCHANGED cur
  BY Zenon DEF SelfRefreshPrecharge, SelfRefreshWaitTrp, SelfRefreshEnter,
     AbortSelfRefresh, SelfRefreshIdle, ExitSelfRefresh, SelfRefreshExitWait,
     ExitWait, AbortEntry, LowPowerArm, LowPowerFrame, burst
<1>2. SelfRefreshMove
  BY Zenon DEF SelfRefreshPrecharge, SelfRefreshWaitTrp, SelfRefreshEnter,
     AbortSelfRefresh, SelfRefreshIdle, ExitSelfRefresh, SelfRefreshExitWait,
     ExitWait, AbortEntry, PrechargeAll, Drive, Deselect, DriveNop, Goto, Moves,
     SelfRefreshMove
<1> QED BY <1>1, <1>2, Zenon DEF KeepsCommand

(* Power-down.                                                               *)
LEMMA PowerDownMoves ==
  ASSUME \/ PowerDownPrecharge \/ PowerDownWaitTrp \/ AbortPowerDown
         \/ PowerDownIdle \/ ExitPowerDown \/ PowerDownExitWait
  PROVE  PowerDownMove /\ KeepsCommand
<1>1. UNCHANGED cur
  BY Zenon DEF PowerDownPrecharge, PowerDownWaitTrp, AbortPowerDown, PowerDownIdle,
     ExitPowerDown, PowerDownExitWait, ExitWait, AbortEntry, LowPowerArm,
     LowPowerFrame, burst
<1>2. PowerDownMove
  BY Zenon DEF PowerDownPrecharge, PowerDownWaitTrp, AbortPowerDown, PowerDownIdle,
     ExitPowerDown, PowerDownExitWait, ExitWait, AbortEntry, PrechargeAll, Drive,
     Deselect, DriveNop, Goto, Moves, PowerDownMove
<1> QED BY <1>1, <1>2, Zenon DEF KeepsCommand

(* DLL change.                                                               *)
LEMMA DllMoves ==
  ASSUME DllPrecharge \/ DllWaitTrp \/ DllModeSet \/ DllWaitTmrd \/ DllWaitTdllk
  PROVE  DllMove /\ KeepsCommand
  BY Zenon DEF DllPrecharge, DllWaitTrp, DllModeSet, DllWaitTmrd, DllWaitTdllk, DllArm,
     PrechargeAll, Drive, Deselect, Sequencing, burst, Goto, Moves, DllMove,
     KeepsCommand

(* Every clock is a move.                                                    *)
LEMMA ClockMoves == Clock => Move /\ KeepsCommand
<1>1. CASE CommandArms
  BY <1>1, FetchMoves, ActivateMoves, OpenMoves, ReadMoves, WriteMoves, Zenon
     DEF CommandArms, Move
<1>2. CASE MaintenanceArms
  BY <1>2, RefreshMoves, SelfRefreshMoves, PowerDownMoves, DllMoves, Zenon
     DEF MaintenanceArms, Move
<1>3. CASE IdleArms
  BY <1>3, IdleMoves, Zenon DEF Move
<1> QED BY <1>1, <1>2, <1>3, Zenon DEF Clock

(* What the steps compute with.                                              *)
LEMMA StateTypes ==
  ASSUME TypeOK
  PROVE  st \in States /\ cnt \in 0..127 /\ act_gap_cnt \in 0..63
         /\ dll_tdllk_cnt \in Nat /\ cur.cmd \in Commands /\ cur.sz \in 0..3
         /\ next_state_after_trcd \in
              {"IDLE", "ISSUE_READ", "ISSUE_WRITE", "BLR_ISSUE", "BLW_ISSUE"}
<1>1. st \in States /\ cnt \in 0..127
  BY DEF TypeOK, ControlType, Word7
<1>2. act_gap_cnt \in 0..63
  BY DEF TypeOK, CounterType, Word6, ACT_GAP_MAX
<1>3. dll_tdllk_cnt \in Nat
  BY WordSizes DEF TypeOK, CounterType, Word16
<1>4. /\ cur.cmd \in Commands /\ cur.sz \in 0..3
      /\ next_state_after_trcd \in
           {"IDLE", "ISSUE_READ", "ISSUE_WRITE", "BLR_ISSUE", "BLW_ISSUE"}
  BY DEF TypeOK, BurstType, CommandRecords
<1> QED BY <1>1, <1>2, <1>3, <1>4

(* A clock in a state is one of the arms of that state.                      *)
LEMMA ArmOf ==
  ASSUME Clock
  PROVE  /\ st = "IDLE" => IdleArms
         /\ st = "ACTIVATE" =>
              ActivateHold \/ ActivateScalar \/ ActivateBlock \/ ActivateDrop
         /\ st = "BLR_ACT" => BlockReadActivate
         /\ st = "BLW_ACT" => BlockWriteActivate
         /\ st = "WAIT_TRCD" => WaitTrcd
         /\ st = "BLR_READ" => BlockRead
         /\ st = "BLW_ISSUE" => BlockWriteIssue
         /\ st = "SCREAD" => ScalarRead
         /\ st = "SCREND" => ScalarReadEnd
         /\ st = "SCWRITE" => ScalarWrite
         /\ st = "BLW_WRITE" => BlockWrite
         /\ st = "SCWRDATA" => WriteData
         /\ st = "SCWREND" => WriteEnd
         /\ st = "GETCMD" => GetCommand
         /\ st = "SREF_ENTER" => SelfRefreshEnter \/ AbortSelfRefresh
         /\ st = "SREF_IDLE" => SelfRefreshIdle \/ ExitSelfRefresh
         /\ st = "PD_TRP" => PowerDownWaitTrp \/ AbortPowerDown
         /\ st = "PD_IDLE" => PowerDownIdle \/ ExitPowerDown
         /\ st = "DLL_TMRD" => DllWaitTmrd
         /\ st = "DLL_TDLLK" => DllWaitTdllk
<1>1. CASE IdleArms
  BY <1>1 DEF IdleArms, Idle, StartSelfRefresh, StartDll, StartPowerDown, StartRefresh,
     StartCommand, StayIdle
<1>2. CASE CommandArms
  BY <1>2 DEF CommandArms, GetCommand, ActivateHold, ActivateScalar, ActivateBlock,
     ActivateDrop, Activating, WaitTrcd, IssueRead, ScalarRead, ScalarReadEnd,
     IssueWrite, ScalarWrite, WriteData, WriteEnd, WriteLatency, BlockReadActivate,
     BlockWriteActivate, BlockActivate, BlockReadIssue, BlockRead, DefaultArm,
     BlockWriteIssue, BlockWrite, Dwell
<1>3. CASE MaintenanceArms
  BY <1>3 DEF MaintenanceArms, RefreshPrecharge, RefreshWaitTrp, Refresh, RefreshWaitTrfc,
     SelfRefreshPrecharge, SelfRefreshWaitTrp, SelfRefreshEnter, AbortSelfRefresh,
     SelfRefreshIdle, ExitSelfRefresh, SelfRefreshExitWait, PowerDownPrecharge,
     PowerDownWaitTrp, AbortPowerDown, PowerDownIdle, ExitPowerDown,
     PowerDownExitWait, ExitWait, DllPrecharge, DllWaitTrp, DllModeSet, DllWaitTmrd,
     DllWaitTdllk, Dwell
<1> QED BY <1>1, <1>2, <1>3, Zenon DEF Clock

-----------------------------------------------------------------------------
(***************************************************************************)
(* The command a state works for.                                          *)
(***************************************************************************)
\* The command a state works for, and where its row's wait leads.
CommandsIn ==
  [ISSUE_READ |-> {"SCR"}, SCREAD |-> {"SCR"}, SCREND |-> {"SCR"},
   ISSUE_WRITE |-> {"SCW"}, SCWRITE |-> {"SCW"},
   SCWRDATA |-> {"SCW", "BLW"}, SCWREND |-> {"SCW", "BLW"},
   BLR_ACT |-> {"BLR"}, BLR_ISSUE |-> {"BLR"}, BLR_READ |-> {"BLR"}, SCRNLSN |-> {"BLR"},
   BLW_ACT |-> {"BLW"}, BLW_ISSUE |-> {"BLW"}, BLW_WRITE |-> {"BLW"}]

FirstColumn ==
  [SCR |-> "ISSUE_READ", SCW |-> "ISSUE_WRITE", BLR |-> "BLR_ISSUE", BLW |-> "BLW_ISSUE"]

CommandInv ==
  /\ st \in DOMAIN CommandsIn => cur.cmd \in CommandsIn[st]
  /\ st = "WAIT_TRCD" =>
       /\ cur.cmd \in DOMAIN FirstColumn
       /\ next_state_after_trcd = FirstColumn[cur.cmd]
  /\ st \in {"SCWRDATA", "SCWREND"} => (from_blw <=> cur.cmd = "BLW")

(* WAIT_TRCD knows the first column state of its command, and a write burst  *)
(* whether it belongs to a block.                                            *)
LEMMA BurstMoves ==
  ASSUME Clock
  PROVE  /\ st = "ACTIVATE" /\ st' = "WAIT_TRCD" =>
              next_state_after_trcd' =
                IF cur.cmd = "SCR" THEN "ISSUE_READ" ELSE "ISSUE_WRITE"
         /\ st = "BLR_ACT" /\ st' = "WAIT_TRCD" => next_state_after_trcd' = "BLR_ISSUE"
         /\ st = "BLW_ACT" /\ st' = "WAIT_TRCD" => next_state_after_trcd' = "BLW_ISSUE"
         /\ st = "WAIT_TRCD" => UNCHANGED next_state_after_trcd
         /\ st = "SCWRITE" => from_blw' = FALSE
         /\ st = "BLW_WRITE" => from_blw' = TRUE
         /\ st \in {"SCWRDATA", "SCWREND"} => UNCHANGED from_blw
<1>1. ASSUME st = "ACTIVATE", st' = "WAIT_TRCD"
      PROVE  next_state_after_trcd' =
               IF cur.cmd = "SCR" THEN "ISSUE_READ" ELSE "ISSUE_WRITE"
  <2>1. ~ActivateHold /\ ~ActivateBlock /\ ~ActivateDrop
    BY <1>1 DEF ActivateHold, ActivateBlock, ActivateDrop, Goto
  <2>2. ActivateScalar
    BY <1>1, <2>1, ArmOf, Zenon
  <2> QED BY <2>2, Zenon DEF ActivateScalar
<1>2. ASSUME st = "BLR_ACT" \/ st = "BLW_ACT", st' = "WAIT_TRCD"
      PROVE  next_state_after_trcd' = IF st = "BLR_ACT" THEN "BLR_ISSUE" ELSE "BLW_ISSUE"
  <2>1. CASE st = "BLR_ACT"
    BY <1>2, <2>1, ArmOf DEF BlockReadActivate, BlockActivate, Dwell, Goto
  <2>2. CASE st = "BLW_ACT"
    BY <1>2, <2>2, ArmOf DEF BlockWriteActivate, BlockActivate, Dwell, Goto
  <2> QED BY <1>2, <2>1, <2>2
<1>3. st = "WAIT_TRCD" => UNCHANGED next_state_after_trcd
  BY ArmOf, Zenon DEF WaitTrcd, Sequencing, burst
<1>4. (st = "SCWRITE" => from_blw' = FALSE) /\ (st = "BLW_WRITE" => from_blw' = TRUE)
  BY ArmOf, Zenon DEF ScalarWrite, BlockWrite, WriteLatency
<1>5. st \in {"SCWRDATA", "SCWREND"} => UNCHANGED from_blw
  <2>1. st \in {"SCWRDATA", "SCWREND"} => WriteData \/ WriteEnd
    BY ArmOf
  <2> QED BY <2>1, Zenon DEF WriteData, WriteEnd
<1> QED BY <1>1, <1>2, <1>3, <1>4, <1>5

(* A clock keeps the command with its states.                                *)
LEMMA CommandKept ==
  ASSUME TypeOK, CommandInv, Clock
  PROVE  CommandInv'
<1>1. Move /\ KeepsCommand
  BY ClockMoves
<1>2. /\ st \in States /\ cur.cmd \in Commands /\ from_blw \in BOOLEAN
      /\ next_state_after_trcd \in
           {"IDLE", "ISSUE_READ", "ISSUE_WRITE", "BLR_ISSUE", "BLW_ISSUE"}
  BY StateTypes DEF TypeOK, FlagType
<1>3. CASE st = "GETCMD"
  <2>1. st' \in {"GETCMD", "ACTIVATE"}
    BY <1>1, <1>3 DEF Move, IdleMove, FetchMove, ActivateMove, OpenMove, ReadMove,
       WriteMove, RefreshMove, SelfRefreshMove, PowerDownMove, DllMove, Moves, Dwell, Goto
  <2> QED BY <2>1 DEF CommandInv, CommandsIn
<1>4. CASE st # "GETCMD"
  <2>1. cur' = cur
    BY <1>1, <1>4, Zenon DEF KeepsCommand
  <2>2. CASE ActivateMove \/ OpenMove
    BY <1>2, <2>1, <2>2, BurstMoves DEF CommandInv, CommandsIn, FirstColumn, ActivateMove,
       OpenMove, Moves, Dwell, Goto, Commands
  <2>3. CASE ReadMove
    BY <1>2, <2>1, <2>3 DEF CommandInv, CommandsIn, ReadMove, Moves, Dwell, Goto
  <2>6. CASE WriteMove
    <3>1. st' \in DOMAIN CommandsIn => cur'.cmd \in CommandsIn[st']
      <4>1. from_blw /\ st = "SCWREND" => cur.cmd = "BLW"
        BY Zenon DEF CommandInv
      <4> QED BY <1>2, <2>1, <2>6, <4>1 DEF CommandInv, CommandsIn, WriteMove, Moves, Dwell, Goto
    <3>2. st' # "WAIT_TRCD"
      BY <2>6 DEF WriteMove, Moves, Dwell, Goto
    <3>3. st' \in {"SCWRDATA", "SCWREND"} => (from_blw' <=> cur'.cmd = "BLW")
      <4>1. st' \in {"SCWRDATA", "SCWREND"} =>
              \/ st = "SCWRITE" /\ cur.cmd = "SCW"
              \/ st = "BLW_WRITE" /\ cur.cmd = "BLW"
              \/ st \in {"SCWRDATA", "SCWREND"}
        BY <2>6 DEF CommandInv, CommandsIn, WriteMove, Moves, Dwell, Goto
      <4>2. cur.cmd = "SCW" => cur.cmd # "BLW"
        OBVIOUS
      <4> QED BY <2>1, <4>1, <4>2, BurstMoves, Zenon DEF CommandInv
    <3> QED BY <3>1, <3>2, <3>3, Zenon DEF CommandInv
  <2>4. CASE IdleMove \/ FetchMove
    BY <1>4, <2>4 DEF CommandInv, CommandsIn, IdleMove, FetchMove, Goto, PreStates
  <2>5. CASE RefreshMove \/ SelfRefreshMove \/ PowerDownMove \/ DllMove
    BY <2>5 DEF CommandInv, CommandsIn, RefreshMove, SelfRefreshMove, PowerDownMove,
       DllMove, Moves, Dwell, Goto
  <2> QED BY <1>1, <2>2, <2>3, <2>4, <2>5, <2>6, Zenon DEF Move
<1> QED BY <1>3, <1>4

(* The invariant holds at power-up, after a reset, and along every step.     *)
LEMMA CommandInvariant == Spec => []CommandInv
<1>1. Init => CommandInv
  BY DEF Init, CommandInv, CommandsIn
<1>2. Reset => CommandInv'
  BY DEF Reset, Goto, CommandInv, CommandsIn
<1>3. CommandInv /\ UNCHANGED vars => CommandInv'
  BY DEF vars, burst, CommandInv
<1>4. TypeOK /\ CommandInv /\ [Next]_vars => CommandInv'
  BY <1>2, <1>3, CommandKept, Zenon DEF Next
<1> QED BY <1>1, <1>4, TypeCorrect, PTL DEF Spec

(* What an arm does to the number of the word and of the burst.              *)
LEMMA BurstCounts ==
  ASSUME TypeOK, Clock
  PROVE  /\ st \in {"SCWRITE", "BLW_WRITE"} /\ cnt = 0 => burst_cnt' = 0
         /\ st = "SCWRDATA" => burst_cnt' = IF burst_cnt < 7 THEN burst_cnt + 1 ELSE burst_cnt
         /\ st = "ACTIVATE" /\ st' = "BLW_ACT" => blk_cnt' = 0
         /\ st \in {"BLW_ACT", "WAIT_TRCD", "BLW_WRITE", "BLW_ISSUE", "SCWRDATA"}
              => blk_cnt' = blk_cnt
         /\ st = "SCWREND" /\ cnt # 0 => blk_cnt' = blk_cnt
         /\ st = "SCWREND" /\ cnt = 0 /\ from_blw /\ blk_cnt < cur.sz =>
              st' = "BLW_ISSUE" /\ blk_cnt' = blk_cnt + 1
         /\ st = "SCWREND" /\ cnt = 0 /\ ~(from_blw /\ blk_cnt < cur.sz) =>
              st' = "IDLE" /\ blk_cnt' = blk_cnt
         /\ st = "SCREND" /\ cnt = 0 /\ cur.cmd # "BLR" => st' = "IDLE"
<1>1. st \in {"SCWRITE", "BLW_WRITE"} /\ cnt = 0 => burst_cnt' = 0
  BY ArmOf, Zenon DEF ScalarWrite, BlockWrite, WriteLatency
<1>2. st = "SCWRDATA" => /\ burst_cnt' = IF burst_cnt < 7 THEN burst_cnt + 1 ELSE burst_cnt
                         /\ blk_cnt' = blk_cnt
  BY ArmOf, Zenon DEF WriteData
<1>3. st = "ACTIVATE" /\ st' = "BLW_ACT" => blk_cnt' = 0
  <2>1. st' = "BLW_ACT" => ~ActivateHold /\ ~ActivateScalar /\ ~ActivateDrop
    BY DEF ActivateHold, ActivateScalar, ActivateDrop, Goto
  <2>2. st' = "BLW_ACT" /\ ActivateBlock => blk_cnt' = 0
    BY DEF ActivateBlock, Goto
  <2> QED BY <2>1, <2>2, ArmOf, Zenon
<1>4. st \in {"BLW_ACT", "WAIT_TRCD", "BLW_WRITE"} => blk_cnt' = blk_cnt
  BY ArmOf, Zenon DEF BlockWriteActivate, BlockActivate, WaitTrcd, Sequencing, burst, BlockWrite,
     WriteLatency
<1>5. st = "BLW_ISSUE" => blk_cnt' = blk_cnt
  BY ArmOf, Zenon DEF BlockWriteIssue, burst
<1>6. /\ st = "SCWREND" /\ cnt # 0 => blk_cnt' = blk_cnt
      /\ st = "SCWREND" /\ cnt = 0 /\ from_blw /\ blk_cnt < cur.sz =>
           st' = "BLW_ISSUE" /\ blk_cnt' = blk_cnt + 1
      /\ st = "SCWREND" /\ cnt = 0 /\ ~(from_blw /\ blk_cnt < cur.sz) =>
           st' = "IDLE" /\ blk_cnt' = blk_cnt
  BY ArmOf, Zenon DEF WriteEnd, Goto
<1>7. st = "SCREND" /\ cnt = 0 /\ cur.cmd # "BLR" => st' = "IDLE"
  BY ArmOf, Zenon DEF ScalarReadEnd, Goto
<1> QED BY <1>1, <1>2, <1>3, <1>4, <1>5, <1>6, <1>7

-----------------------------------------------------------------------------
(***************************************************************************)
(* The strobes of the FIFOs.                                               *)
(***************************************************************************)
(* The states in which a FIFO or the capture is strobed,                     *)
LoudStates ==
  {"IDLE", "SCREAD", "SCREND", "SCWRITE", "BLW_WRITE", "SCWRDATA", "BLR_READ"}

(* and when.                                                                 *)
LEMMA Strobes ==
  ASSUME TypeOK, Clock
  PROVE  /\ strobe'["getCmd"] <=> st = "IDLE" /\ st' = "GETCMD"
         /\ strobe'["getData"] <=> \/ st \in {"SCWRITE", "BLW_WRITE"} /\ cnt = 0
                                   \/ st = "SCWRDATA" /\ burst_cnt < 7
         /\ strobe'["put"] <=> \/ st = "SCREAD" /\ cnt = 0
                               \/ st = "SCREND" /\ cnt # 0
         /\ st = "SCREAD" /\ cnt = 0 => readPtr' = 0
         /\ st = "SCREND" => readPtr' = (8 - cnt) % 8
<1>1. ASSUME NEW S, Raise(S)
      PROVE  /\ strobe'["getCmd"] <=> "getCmd" \in S
             /\ strobe'["getData"] <=> "getData" \in S
             /\ strobe'["put"] <=> "put" \in S
  BY <1>1 DEF Raise, StrobeNames
<1>2. CASE st \notin LoudStates
  <2>1. ~IdleArms
    BY <1>2 DEF LoudStates, IdleArms, Idle, StartSelfRefresh, StartDll, StartPowerDown,
       StartRefresh, StartCommand, StayIdle
  <2>2. CommandArms => Raise({})
    <3>1. /\ ~ScalarRead /\ ~ScalarReadEnd /\ ~ScalarWrite /\ ~BlockWrite /\ ~WriteData
          /\ ~BlockRead
      BY <1>2 DEF LoudStates, ScalarRead, ScalarReadEnd, ScalarWrite, BlockWrite,
         WriteLatency, WriteData, BlockRead, Dwell
    <3> QED BY <3>1, Zenon DEF CommandArms, GetCommand, ActivateHold, ActivateScalar,
            ActivateBlock, ActivateDrop, Activating, WaitTrcd, IssueRead, IssueWrite,
            WriteEnd, BlockReadActivate, BlockWriteActivate, BlockActivate, BlockReadIssue,
            DefaultArm, BlockWriteIssue, Sequencing
  <2>3. MaintenanceArms => Raise({})
    BY Zenon DEF MaintenanceArms, RefreshPrecharge, RefreshWaitTrp, Refresh,
       RefreshWaitTrfc, SelfRefreshPrecharge, SelfRefreshWaitTrp, SelfRefreshEnter,
       AbortSelfRefresh, SelfRefreshIdle, ExitSelfRefresh, SelfRefreshExitWait,
       PowerDownPrecharge, PowerDownWaitTrp, AbortPowerDown, PowerDownIdle, ExitPowerDown,
       PowerDownExitWait, ExitWait, AbortEntry, LowPowerArm, LowPowerFrame, DllPrecharge,
       DllWaitTrp, DllModeSet, DllWaitTmrd, DllWaitTdllk, DllArm, Sequencing
  <2>4. Raise({})
    BY <2>1, <2>2, <2>3, Zenon DEF Clock
  <2>5. ~strobe'["getCmd"] /\ ~strobe'["getData"] /\ ~strobe'["put"]
    BY <1>1, <2>4
  <2>6. st \notin {"IDLE", "SCREAD", "SCREND", "SCWRITE", "BLW_WRITE", "SCWRDATA"}
    BY <1>2 DEF LoudStates
  <2> QED BY <2>5, <2>6
<1>3. CASE st = "IDLE"
  <2>1. IdleArms
    BY <1>3, ArmOf
  <2>2. \/ Raise({"getCmd"}) /\ st' = "GETCMD"
        \/ Raise({}) /\ st' # "GETCMD"
    BY <2>1 DEF IdleArms, StartSelfRefresh, StartDll, StartPowerDown, StartRefresh,
       StartCommand, StayIdle, Goto
  <2>3. /\ strobe'["getCmd"] <=> st' = "GETCMD"
        /\ ~strobe'["getData"] /\ ~strobe'["put"]
    BY <1>1, <2>2
  <2> QED BY <1>3, <2>3
<1>4. CASE st \in {"SCWRITE", "BLW_WRITE"}
  <2>1. Raise(IF cnt = 0 THEN {"ts", "getData"} ELSE {})
    BY <1>4, ArmOf DEF ScalarWrite, BlockWrite, WriteLatency
  <2>2. /\ strobe'["getData"] <=> cnt = 0
        /\ ~strobe'["getCmd"] /\ ~strobe'["put"]
    BY <1>1, <2>1
  <2> QED BY <1>4, <2>2
<1>5. CASE st = "SCWRDATA"
  <2>1. Raise((IF cnt # 0 THEN {"ts"} ELSE {})
                \cup (IF burst_cnt < 7 THEN {"getData"} ELSE {}))
    BY <1>5, ArmOf, Zenon DEF WriteData
  <2>2. /\ strobe'["getData"] <=> burst_cnt < 7
        /\ ~strobe'["getCmd"] /\ ~strobe'["put"]
    BY <1>1, <2>1
  <2> QED BY <1>5, <2>2
<1>6. CASE st = "SCREAD"
  <2>1. /\ Raise(IF cnt = 0 THEN {"listen", "put"} ELSE {})
        /\ cnt = 0 => readPtr' = 0
    BY <1>6, ArmOf DEF ScalarRead
  <2>2. /\ strobe'["put"] <=> cnt = 0
        /\ ~strobe'["getCmd"] /\ ~strobe'["getData"]
    BY <1>1, <2>1
  <2> QED BY <1>6, <2>1, <2>2
<1>7. CASE st = "SCREND"
  <2>1. Raise(IF cnt # 0 THEN {"put"} ELSE {}) /\ readPtr' = (8 - cnt) % 8
    BY <1>7, ArmOf, Zenon DEF ScalarReadEnd
  <2>2. /\ strobe'["put"] <=> cnt # 0
        /\ ~strobe'["getCmd"] /\ ~strobe'["getData"]
    BY <1>1, <2>1
  <2> QED BY <1>7, <2>1, <2>2
<1>8. CASE st = "BLR_READ"
  <2>1. Raise({"listen"}) \/ Raise({})
    BY <1>8, ArmOf, Zenon DEF BlockRead
  <2>2. ~strobe'["put"] /\ ~strobe'["getCmd"] /\ ~strobe'["getData"]
    BY <1>1, <2>1
  <2> QED BY <1>8, <2>2
<1> QED BY <1>2, <1>3, <1>4, <1>5, <1>6, <1>7, <1>8, Zenon DEF LoudStates
=============================================================================
