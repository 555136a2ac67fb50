--------------------------- MODULE ProtocolEngine ---------------------------
(***************************************************************************)
(* The command sequencer of ddr2_protocol_engine.v, clock by clock.        *)
(*                                                                         *)
(* One step is one rising edge of clk: every register named below takes    *)
(* its next value at once.  The arms of the Verilog case statement are one *)
(* action each; what the code does on every clock before the case (refresh *)
(* counter, ACT gap, idle counter, strobe defaults, delayed outputs) is    *)
(* part of each of them through the operators of the second section.       *)
(*                                                                         *)
(* The pins are modelled by the command they encode, the bank, and the     *)
(* pattern on the address bus.  Outputs are registers, so the command an   *)
(* arm drives is on the pins during the following cycle.                   *)
(***************************************************************************)
EXTENDS Naturals

CONSTANTS
  Banks,                  \* bank numbers a host address can select
  Ranks,                  \* values of RANK_SEL
  Sizes,                  \* values of SZ, a subset of 0..3
  FillCounts,             \* values of fillcount_returnFIFO_i
  REF_CNT_INIT_CFG,       \* refresh counter reload value
  REF_THRESH_CFG,         \* a refresh is due below this count
  AUTO_SREF_IDLE_CYCLES,  \* quiet cycles before automatic self-refresh
  SELFREF_TXSR_CYCLES,    \* wait after self-refresh exit
  PDOWN_TXP_CYCLES,       \* wait after power-down exit
  TDLLK_WAIT_CYCLES,      \* wait after a DLL mode change
  TRCD_MIN,               \* DDR2_TIMING_TRCD_MIN
  READ_LAT,               \* READ_LAT_OVERRIDE
  CNT_RIDL                \* dwell after REF; 99 in the code, a parameter here
                          \* so that TLC can scale the refresh period

ASSUME GeometryAssumption ==
  /\ 0 \in Banks /\ Banks \subseteq Nat
  /\ 0 \in Ranks /\ Ranks \subseteq Nat
  /\ Sizes # {} /\ Sizes \subseteq 0..3
  /\ FillCounts # {} /\ FillCounts \subseteq Nat

ASSUME TimingAssumption ==
  /\ REF_CNT_INIT_CFG \in Nat
  /\ REF_THRESH_CFG \in Nat
  /\ AUTO_SREF_IDLE_CYCLES \in Nat
  /\ SELFREF_TXSR_CYCLES \in Nat
  /\ PDOWN_TXP_CYCLES \in Nat
  /\ TDLLK_WAIT_CYCLES \in Nat
  /\ TRCD_MIN \in Nat
  /\ READ_LAT \in Nat /\ READ_LAT >= 2
  /\ CNT_RIDL \in 0..127

(***************************************************************************)
(* Localparams, cut to the width of the register they are loaded into.     *)
(* A state loaded with count c lasts c + 1 cycles.                         *)
(***************************************************************************)
\* The Faulty definitions of this module are plausible bugs, such as a missing
\* load or an off-by-one, that the properties of the engine must be able to
\* see.  No specification uses them.
FaultyCNT_GETCMD == 1
StaleCNT_GETCMD == 0         \* the FIFO's output is not there yet
FaultyTRCD_WAIT == (IF TRCD_MIN > 2 THEN TRCD_MIN - 2 ELSE 0) % 64
FaultyCNT_SCREAD == 0
FaultyCNT_RREF == 2          \* REF would be on the pins for two cycles
TrappingCNT_RREF == 0        \* RREF leaves only at cnt = 1

\* How many values a register of 12 or 16 bits has.
Values12 == 64 * 64
Values16 == 256 * 256

CNT_GETCMD == 2
CNT_ACTIVATE == 1
TRCD_WAIT == (IF TRCD_MIN > 1 THEN TRCD_MIN - 1 ELSE 0) % 64
CNT_SCREAD == (READ_LAT - 2) % 64
CNT_SCWRITE == 12
CNT_SCWRDATA_SCW == 7
CNT_SCWREND == 17
CNT_SCRNLSN == 5
CNT_RPRE == 1
CNT_RNOP == 7
CNT_RREF == 1
CNT_TMRD == 3
CNT_SELFREF_TXSR == SELFREF_TXSR_CYCLES % 128
CNT_PDOWN_TXP == PDOWN_TXP_CYCLES % 128
CNT_TDLLK == TDLLK_WAIT_CYCLES % Values16
AUTO_SREF_IDLE_THRESH == AUTO_SREF_IDLE_CYCLES % Values12
REF_CNT_INIT == REF_CNT_INIT_CFG % Values12
REF_THRESH == REF_THRESH_CFG % Values12
ACT_GAP_MIN == 6
ACT_GAP_MAX == 63                            \* saturation of act_gap_cnt

\* Cycles of SCWRDATA per burst of a block write, by size.
cnt_scwrdata_sz(sz) == 8 * (sz + 1) - 1

\* Return-FIFO level below which a block read may start, by size.
return_thresh(sz) == 56 - 8 * sz

Commands == {"NOP", "SCR", "SCW", "BLR", "BLW"}   \* reserved codes act as NOP

States ==
  {"IDLE", "GETCMD", "ACTIVATE", "WAIT_TRCD", "ISSUE_READ", "SCREAD",
   "SCRNLSN", "SCREND", "ISSUE_WRITE", "SCWRITE", "SCWRDATA", "SCWREND",
   "BLR_ACT", "BLR_ISSUE", "BLR_READ", "BLW_ACT", "BLW_ISSUE", "BLW_WRITE",
   "RPRE", "RNOP", "RREF", "RIDL",
   "SREF_PRE", "SREF_TRP", "SREF_ENTER", "SREF_IDLE", "SREF_EXIT_WAIT",
   "PD_PRE", "PD_TRP", "PD_IDLE", "PD_EXIT_WAIT",
   "DLL_PRE", "DLL_TRP", "DLL_MRS", "DLL_TMRD", "DLL_TDLLK"}

BusCommands == {"DES", "NOP", "ACT", "RD", "WR", "PRE", "REF", "MRS"}

\* Patterns on the A bus: a row, {3'b0, col, bit 0}, PRE_ALL_A (only A10 set),
\* a mode-register value.  A10 is set by PREALL and by none of the columns.
AddressPatterns == {"ZERO", "ROW", "COL0", "COL1", "PREALL", "MODE"}

VARIABLES
  ready,                 \* ready_init_i
  st, cnt,               \* the FSM state and its dwell counter
  refCnt, act_gap_cnt, have_act_any,
  cur,                   \* cmd_reg, sz_reg, bank_reg, rank_sel_reg
  next_state_after_trcd, blk_cnt, burst_cnt, from_blw,
  bus, ba_o, a_o,        \* csbar/rasbar/casbar/webar decoded, BA, A
  odt_o,
  strobe,                \* get_cmdFIFO_o, get_dataFIFO_o, put_returnFIFO_o,
                         \* listen_ringBuff_o, ts_i_o
  readPtr,               \* readPtr_ringBuff_o; while a word is put,
                         \* addr_returnFIFO_o is the command address + readPtr
  selfref_active, selfref_active_o, pdown_active_o,
  dll_in_progress, dll_tdllk_cnt, dll_busy_o,
  idle_quiet_cnt, auto_selfref_req,
  rank_sel_o

burst == <<cur, next_state_after_trcd, blk_cnt, burst_cnt, from_blw>>
pins == <<bus, ba_o, a_o, odt_o>>
quiet == <<idle_quiet_cnt, auto_selfref_req>>
dll == <<dll_in_progress, dll_tdllk_cnt>>
delayed == <<selfref_active_o, dll_busy_o, rank_sel_o>>

vars == <<ready, st, cnt, refCnt, act_gap_cnt, have_act_any, burst, pins,
          strobe, readPtr, selfref_active, pdown_active_o, dll, quiet, delayed>>

CommandRecords == [cmd : Commands, sz : 0..3, bank : Banks, rank : Ranks]
StrobeNames == {"getCmd", "getData", "put", "listen", "ts"}

\* The values of a register of 2, 3, 6, 7, 12 and 16 bits.
Word2 == 0..3
Word3 == 0..7
Word6 == 0..ACT_GAP_MAX
Word7 == 0..127
Word12 == 0..(Values12 - 1)
Word16 == 0..(Values16 - 1)

ControlType == st \in States /\ cnt \in Word7

CounterType ==
  /\ refCnt \in Word12
  /\ act_gap_cnt \in Word6
  /\ idle_quiet_cnt \in Word12
  /\ dll_tdllk_cnt \in Word16

BurstType ==
  /\ cur \in CommandRecords
  /\ next_state_after_trcd \in {"IDLE", "ISSUE_READ", "ISSUE_WRITE",
                                "BLR_ISSUE", "BLW_ISSUE"}
  /\ blk_cnt \in Word2
  /\ burst_cnt \in Word3
  /\ readPtr \in Word3

BusType ==
  /\ bus \in BusCommands
  /\ ba_o \in Banks
  /\ a_o \in AddressPatterns
  /\ rank_sel_o \in Ranks

FlagType ==
  /\ ready \in BOOLEAN
  /\ have_act_any \in BOOLEAN
  /\ from_blw \in BOOLEAN
  /\ odt_o \in BOOLEAN
  /\ strobe \in [StrobeNames -> BOOLEAN]
  /\ selfref_active \in BOOLEAN
  /\ selfref_active_o \in BOOLEAN
  /\ pdown_active_o \in BOOLEAN
  /\ dll_in_progress \in BOOLEAN
  /\ dll_busy_o \in BOOLEAN
  /\ auto_selfref_req \in BOOLEAN

TypeOK == ControlType /\ CounterType /\ BurstType /\ BusType /\ FlagType

-----------------------------------------------------------------------------
(***************************************************************************)
(* What every clock does.                                                  *)
(***************************************************************************)
Raise(S) == strobe' = [x \in StrobeNames |-> x \in S]

need_refresh == ready /\ refCnt < REF_THRESH

FaultyCntTick == cnt - 1

CntTick == IF cnt > 0 THEN cnt - 1 ELSE 0

\* Counts only in IDLE, not while commands are processed.
FaultyRefCntTick ==
  IF ready /\ st = "IDLE" /\ ~selfref_active /\ ~pdown_active_o /\ refCnt > 0 THEN refCnt - 1 ELSE refCnt

RefCntTick ==
  IF ready /\ ~selfref_active /\ ~pdown_active_o /\ refCnt > 0
    THEN refCnt - 1 ELSE refCnt

\* Counts only while ACT is being driven.
FaultyActGapTick ==
  IF have_act_any /\ st = "ACTIVATE" /\ act_gap_cnt # ACT_GAP_MAX
    THEN act_gap_cnt + 1 ELSE act_gap_cnt

ActGapTick ==
  IF have_act_any /\ act_gap_cnt # ACT_GAP_MAX
    THEN act_gap_cnt + 1 ELSE act_gap_cnt

FaultyActGapMet == TRUE

\* The ACT-spacing gate of GETCMD and ACTIVATE.
ActGapMet == ~have_act_any \/ act_gap_cnt >= ACT_GAP_MIN

LowPowerOff == ~selfref_active /\ ~pdown_active_o

\* Automatic self-refresh bookkeeping; only IDLE can be a quiet cycle.
QuietCycle(nonempty) == ready /\ ~need_refresh /\ LowPowerOff /\ ~nonempty

QuietTick(nonempty) ==
  idle_quiet_cnt' =
    IF ~QuietCycle(nonempty) THEN 0
    ELSE IF idle_quiet_cnt < AUTO_SREF_IDLE_THRESH THEN idle_quiet_cnt + 1
    ELSE idle_quiet_cnt

AutoRequestTick(nonempty) ==
  auto_selfref_req' =
    /\ QuietCycle(nonempty)
    /\ idle_quiet_cnt < AUTO_SREF_IDLE_THRESH => auto_selfref_req

NotQuiet == idle_quiet_cnt' = 0 /\ auto_selfref_req' = FALSE

\* Outputs that copy an internal register one clock late.
DelayedOutputs ==
  /\ selfref_active_o' = selfref_active
  /\ dll_busy_o' = dll_in_progress
  /\ rank_sel_o' = cur.rank

TimersTick ==
  /\ refCnt' = RefCntTick
  /\ act_gap_cnt' = ActGapTick
  /\ UNCHANGED have_act_any

SameModes == UNCHANGED <<selfref_active, pdown_active_o, dll>>

\* Drive a command; the bank and address registers hold when none is given.
Drive(c, ba, a) == bus' = c /\ ba_o' = ba /\ a_o' = a
Deselect == bus' = "DES" /\ UNCHANGED <<ba_o, a_o>>
DriveNop == bus' = "NOP" /\ UNCHANGED <<ba_o, a_o>>
HoldBus == UNCHANGED <<bus, ba_o, a_o>>

Goto(s, c) == st' = s /\ cnt' = c

\* Stay in s while the counter runs, then go to state n with count c.
Dwell(s, n, c) ==
  /\ st = s
  /\ IF cnt = 0 THEN Goto(n, c) ELSE Goto(s, CntTick)

\* An arm outside IDLE that touches neither a timer nor a mode register.
Plain == TimersTick /\ SameModes /\ NotQuiet

\* ... and no data path and no burst bookkeeping either.
Sequencing == Plain /\ Raise({}) /\ UNCHANGED <<burst, readPtr, odt_o>>

-----------------------------------------------------------------------------
(***************************************************************************)
(* IDLE: one action per branch of the priority chain.  Request inputs are  *)
(* free, so a branch only asks that an earlier one is not taken without    *)
(* its request (WantsSelfRefresh(FALSE): the automatic request).           *)
(***************************************************************************)
Idle ==
  /\ st = "IDLE"
  /\ Deselect /\ odt_o' = FALSE
  /\ TimersTick
  /\ UNCHANGED <<burst, readPtr, selfref_active, pdown_active_o, dll_tdllk_cnt>>

WantsSelfRefresh(sr) == ready /\ (sr \/ auto_selfref_req) /\ LowPowerOff

AcceptsDll(dr, nonempty) ==
  ready /\ dr /\ ~dll_in_progress /\ LowPowerOff /\ ~need_refresh /\ ~nonempty

AcceptsPowerDown(pr) == ready /\ pr /\ LowPowerOff /\ ~need_refresh

WantsRefresh == need_refresh /\ LowPowerOff

FetchesCommand(nonempty) == nonempty /\ ready /\ LowPowerOff

StartSelfRefresh ==
  \E sr, nonempty \in BOOLEAN :
    /\ Idle
    /\ WantsSelfRefresh(sr)
    /\ Goto("SREF_PRE", CNT_RPRE)
    /\ auto_selfref_req' = FALSE
    /\ QuietTick(nonempty)
    /\ Raise({})
    /\ UNCHANGED dll_in_progress

StartDll ==
  \E nonempty \in BOOLEAN :
    /\ Idle
    /\ ~WantsSelfRefresh(FALSE)
    /\ AcceptsDll(TRUE, nonempty)
    /\ dll_in_progress' = TRUE
    /\ Goto("DLL_PRE", CNT_RPRE)
    /\ QuietTick(nonempty) /\ AutoRequestTick(nonempty)
    /\ Raise({})

StartPowerDown ==
  \E nonempty \in BOOLEAN :
    /\ Idle
    /\ ~WantsSelfRefresh(FALSE)
    /\ AcceptsPowerDown(TRUE)
    /\ Goto("PD_PRE", CNT_RPRE)
    /\ QuietTick(nonempty) /\ AutoRequestTick(nonempty)
    /\ Raise({})
    /\ UNCHANGED dll_in_progress

\* No PRECHARGE ALL before the refresh.
FaultyStartRefresh ==
  \E nonempty \in BOOLEAN :
    /\ Idle
    /\ ~WantsSelfRefresh(FALSE)
    /\ WantsRefresh
    /\ Goto("RREF", CNT_RREF)
    /\ QuietTick(nonempty) /\ AutoRequestTick(nonempty)
    /\ Raise({})
    /\ UNCHANGED dll_in_progress

StartRefresh ==
  \E nonempty \in BOOLEAN :
    /\ Idle
    /\ ~WantsSelfRefresh(FALSE)
    /\ WantsRefresh
    /\ Goto("RPRE", CNT_RPRE)
    /\ QuietTick(nonempty) /\ AutoRequestTick(nonempty)
    /\ Raise({})
    /\ UNCHANGED dll_in_progress

\* Commands ahead of a refresh that is due.
FaultyStartCommand ==
  /\ Idle
  /\ ~WantsSelfRefresh(FALSE)
  /\ FetchesCommand(TRUE)
  /\ Raise({"getCmd"})
  /\ Goto("GETCMD", CNT_GETCMD)
  /\ QuietTick(TRUE) /\ AutoRequestTick(TRUE)
  /\ UNCHANGED dll_in_progress

StartCommand ==
  /\ Idle
  /\ ~WantsSelfRefresh(FALSE) /\ ~WantsRefresh
  /\ FetchesCommand(TRUE)
  /\ Raise({"getCmd"})
  /\ Goto("GETCMD", CNT_GETCMD)
  /\ QuietTick(TRUE) /\ AutoRequestTick(TRUE)
  /\ UNCHANGED dll_in_progress

StayIdle ==
  \E nonempty \in BOOLEAN :
    /\ Idle
    /\ ~WantsSelfRefresh(FALSE) /\ ~WantsRefresh /\ ~FetchesCommand(nonempty)
    /\ Goto("IDLE", CntTick)
    /\ QuietTick(nonempty) /\ AutoRequestTick(nonempty)
    /\ Raise({})
    /\ UNCHANGED dll_in_progress

-----------------------------------------------------------------------------
(***************************************************************************)
(* Host commands: fetch, activate, scalar read.                            *)
(***************************************************************************)
\* The ACT gap restarts where an ACT is about to be driven.
RestartActGap ==
  /\ act_gap_cnt' = 0
  /\ have_act_any' = TRUE
  /\ refCnt' = RefCntTick

\* The entry at the head of the command FIFO is latched with RANK_SEL as it is
\* now; until the gap is met the state holds.
GetCommand ==
  /\ st = "GETCMD"
  /\ Deselect
  /\ IF cnt = 0 /\ ActGapMet
       THEN /\ cur' \in [cmd : Commands, sz : Sizes, bank : Banks, rank : Ranks]
            /\ Goto("ACTIVATE", CNT_ACTIVATE)
            /\ RestartActGap
       ELSE /\ Goto("GETCMD", CntTick)
            /\ TimersTick
            /\ UNCHANGED cur
  /\ UNCHANGED <<next_state_after_trcd, blk_cnt, burst_cnt, from_blw,
                 readPtr, odt_o>>
  /\ SameModes /\ NotQuiet /\ Raise({})

DriveActivate == Drive("ACT", cur.bank, "ROW")

\* What ACTIVATE shares between its branches.
Activating ==
  /\ st = "ACTIVATE"
  /\ DriveActivate
  /\ SameModes /\ NotQuiet /\ Raise({})
  /\ UNCHANGED <<cur, burst_cnt, from_blw, readPtr, odt_o>>

ActivateHold ==
  /\ Activating
  /\ cnt # 0
  /\ Goto("ACTIVATE", CntTick)
  /\ TimersTick
  /\ UNCHANGED <<next_state_after_trcd, blk_cnt>>

\* SCR, SCW: wait tRCD, then read or write.
ActivateScalar ==
  /\ Activating
  /\ cnt = 0 /\ cur.cmd \in {"SCR", "SCW"}
  /\ Goto("WAIT_TRCD", TRCD_WAIT)
  /\ next_state_after_trcd' =
       IF cur.cmd = "SCR" THEN "ISSUE_READ" ELSE "ISSUE_WRITE"
  /\ TimersTick
  /\ UNCHANGED blk_cnt

\* A block read starts only with room in the return FIFO; a block write always.
\* Either drives a second ACT once the ACT gap is met, and ACT until then.
BlockMayStart(fill) ==
  cur.cmd = "BLW" \/ (cur.cmd = "BLR" /\ fill < return_thresh(cur.sz))

ActivateBlock ==
  \E fill \in FillCounts :
    /\ Activating
    /\ cnt = 0 /\ BlockMayStart(fill)
    /\ IF ActGapMet
         THEN /\ Goto(IF cur.cmd = "BLR" THEN "BLR_ACT" ELSE "BLW_ACT", CNT_ACTIVATE)
              /\ blk_cnt' = 0
              /\ RestartActGap
         ELSE /\ Goto("ACTIVATE", CntTick)
              /\ TimersTick
              /\ UNCHANGED blk_cnt
    /\ UNCHANGED next_state_after_trcd

\* A block read without room, a NOP and a reserved code end here, row open.
ActivateDrop ==
  \E fill \in FillCounts :
    /\ Activating
    /\ cnt = 0 /\ cur.cmd \notin {"SCR", "SCW"} /\ ~BlockMayStart(fill)
    /\ Goto("IDLE", CntTick)
    /\ TimersTick
    /\ UNCHANGED <<next_state_after_trcd, blk_cnt>>

WaitTrcd == Dwell("WAIT_TRCD", next_state_after_trcd, 0) /\ Deselect /\ Sequencing

IssueRead ==
  /\ st = "ISSUE_READ"
  /\ Drive("RD", cur.bank, "COL1") /\ odt_o' = FALSE
  /\ Goto("SCREAD", CNT_SCREAD)
  /\ Plain /\ Raise({}) /\ UNCHANGED <<burst, readPtr>>

\* Two words short.
FaultyScalarRead ==
  /\ Dwell("SCREAD", "SCREND", 6)
  /\ Deselect
  /\ IF cnt = 0 THEN Raise({"listen", "put"}) /\ readPtr' = 0
                ELSE Raise({}) /\ UNCHANGED readPtr
  /\ Plain /\ UNCHANGED <<burst, odt_o>>

\* The last cycle starts the capture and puts the first word.
ScalarRead ==
  /\ Dwell("SCREAD", "SCREND", 8)
  /\ Deselect
  /\ IF cnt = 0 THEN Raise({"listen", "put"}) /\ readPtr' = 0
                ELSE Raise({}) /\ UNCHANGED readPtr
  /\ Plain /\ UNCHANGED <<burst, odt_o>>

\* A word in the last cycle too.
FaultyScalarReadEnd ==
  /\ st = "SCREND"
  /\ HoldBus
  /\ Raise({"put"})
  /\ readPtr' = (8 - cnt) % 8
  /\ IF cnt # 0
       THEN Goto("SCREND", CntTick) /\ UNCHANGED blk_cnt
       ELSE Goto("IDLE", 0) /\ UNCHANGED blk_cnt
  /\ Plain /\ UNCHANGED <<cur, next_state_after_trcd, burst_cnt, from_blw, odt_o>>

\* One word per cycle while the counter runs; 3'(8 - cnt) is the word number.
ScalarReadEnd ==
  /\ st = "SCREND"
  /\ HoldBus
  /\ Raise(IF cnt # 0 THEN {"put"} ELSE {})
  /\ readPtr' = (8 - cnt) % 8
  /\ IF cnt # 0
       THEN Goto("SCREND", CntTick) /\ UNCHANGED blk_cnt
       ELSE IF cur.cmd = "BLR" /\ blk_cnt < cur.sz
              THEN Goto("BLR_ISSUE", 0) /\ blk_cnt' = blk_cnt + 1
              ELSE Goto("IDLE", 0) /\ UNCHANGED blk_cnt
  /\ Plain /\ UNCHANGED <<cur, next_state_after_trcd, burst_cnt, from_blw, odt_o>>

-----------------------------------------------------------------------------
(***************************************************************************)
(* Writes.  get_dataFIFO is raised once per word of an 8-word burst.       *)
(***************************************************************************)
\* ODT left off.
FaultyIssueWrite ==
  /\ st = "ISSUE_WRITE"
  /\ Drive("WR", cur.bank, "COL1")
  /\ Goto("SCWRITE", CNT_SCWRITE)
  /\ Plain /\ Raise({}) /\ UNCHANGED <<burst, readPtr, odt_o>>

IssueWrite ==
  /\ st = "ISSUE_WRITE"
  /\ Drive("WR", cur.bank, "COL1") /\ odt_o' = TRUE
  /\ Goto("SCWRITE", CNT_SCWRITE)
  /\ Plain /\ Raise({}) /\ UNCHANGED <<burst, readPtr>>

\* SCWRITE and BLW_WRITE: wait out the write latency, then open the data window.
WriteLatency(s, blw, window) ==
  /\ Dwell(s, "SCWRDATA", window)
  /\ Deselect
  /\ from_blw' = blw
  /\ IF cnt = 0 THEN Raise({"ts", "getData"}) /\ burst_cnt' = 0
                ELSE Raise({}) /\ UNCHANGED burst_cnt
  /\ Plain /\ UNCHANGED <<cur, next_state_after_trcd, blk_cnt, readPtr, odt_o>>

ScalarWrite == WriteLatency("SCWRITE", FALSE, CNT_SCWRDATA_SCW)

\* Pops one word too few.
FaultyWriteData ==
  /\ Dwell("SCWRDATA", "SCWREND", CNT_SCWREND)
  /\ Deselect
  /\ Raise((IF cnt # 0 THEN {"ts"} ELSE {})
             \cup (IF burst_cnt < 6 THEN {"getData"} ELSE {}))
  /\ burst_cnt' = IF burst_cnt < 6 THEN burst_cnt + 1 ELSE burst_cnt
  /\ Plain
  /\ UNCHANGED <<cur, next_state_after_trcd, blk_cnt, from_blw, readPtr, odt_o>>

WriteData ==
  /\ Dwell("SCWRDATA", "SCWREND", CNT_SCWREND)
  /\ Deselect
  /\ Raise((IF cnt # 0 THEN {"ts"} ELSE {})
             \cup (IF burst_cnt < 7 THEN {"getData"} ELSE {}))
  /\ burst_cnt' = IF burst_cnt < 7 THEN burst_cnt + 1 ELSE burst_cnt
  /\ Plain
  /\ UNCHANGED <<cur, next_state_after_trcd, blk_cnt, from_blw, readPtr, odt_o>>

WriteEnd ==
  /\ st = "SCWREND"
  /\ HoldBus
  /\ IF cnt # 0
       THEN Goto("SCWREND", CntTick) /\ UNCHANGED <<blk_cnt, odt_o>>
       ELSE /\ odt_o' = FALSE
            /\ IF from_blw /\ blk_cnt < cur.sz
                 THEN Goto("BLW_ISSUE", 0) /\ blk_cnt' = blk_cnt + 1
                 ELSE Goto("IDLE", 0) /\ UNCHANGED blk_cnt
  /\ Plain /\ Raise({})
  /\ UNCHANGED <<cur, next_state_after_trcd, burst_cnt, from_blw, readPtr>>

-----------------------------------------------------------------------------
(***************************************************************************)
(* Block transfers.                                                        *)
(***************************************************************************)
\* BLR_ACT and BLW_ACT.
BlockActivate(s, issue) ==
  /\ Dwell(s, "WAIT_TRCD", TRCD_WAIT)
  /\ DriveActivate
  /\ next_state_after_trcd' = IF cnt = 0 THEN issue ELSE next_state_after_trcd
  /\ Plain /\ Raise({})
  /\ UNCHANGED <<cur, blk_cnt, burst_cnt, from_blw, readPtr, odt_o>>

BlockReadActivate == BlockActivate("BLR_ACT", "BLR_ISSUE")
BlockWriteActivate == BlockActivate("BLW_ACT", "BLW_ISSUE")

BlockColumn == IF blk_cnt = cur.sz THEN "COL1" ELSE "COL0"

BlockReadIssue ==
  /\ st = "BLR_ISSUE"
  /\ Drive("RD", cur.bank, BlockColumn)
  /\ Goto("BLR_READ", CNT_SCREAD)
  /\ Sequencing

BlockRead ==
  /\ Dwell("BLR_READ", "SCRNLSN", CNT_SCRNLSN)
  /\ Deselect
  /\ IF cnt = 0 THEN Raise({"listen"}) /\ readPtr' = 0
                ELSE Raise({}) /\ UNCHANGED readPtr
  /\ Plain /\ UNCHANGED <<burst, odt_o>>

\* SCRNLSN has no arm of its own: the default arm returns to IDLE.
DefaultArm ==
  /\ st = "SCRNLSN"
  /\ Goto("IDLE", CntTick)
  /\ HoldBus
  /\ Sequencing

BlockWriteIssue ==
  /\ st = "BLW_ISSUE"
  /\ Drive("WR", cur.bank, BlockColumn) /\ odt_o' = TRUE
  /\ Goto("BLW_WRITE", CNT_SCWRITE)
  /\ Plain /\ Raise({}) /\ UNCHANGED <<burst, readPtr>>

BlockWrite == WriteLatency("BLW_WRITE", TRUE, cnt_scwrdata_sz(cur.sz))

-----------------------------------------------------------------------------
(***************************************************************************)
(* Refresh: PRECHARGE ALL, tRP, one REF cycle, tRFC.                       *)
(***************************************************************************)
PrechargeAll == Drive("PRE", ba_o, "PREALL")

RefreshPrecharge == Dwell("RPRE", "RNOP", CNT_RNOP) /\ PrechargeAll /\ Sequencing

RefreshWaitTrp == Dwell("RNOP", "RREF", CNT_RREF) /\ Deselect /\ Sequencing

\* Leaves at cnt = 1, so REF is on the pins for one cycle; reloads refCnt.
Refresh ==
  /\ st = "RREF"
  /\ Drive("REF", ba_o, a_o)
  /\ IF cnt = 1
       THEN Goto("RIDL", CNT_RIDL) /\ refCnt' = REF_CNT_INIT
       ELSE Goto("RREF", CntTick) /\ refCnt' = RefCntTick
  /\ act_gap_cnt' = ActGapTick
  /\ SameModes /\ NotQuiet /\ Raise({})
  /\ UNCHANGED <<have_act_any, burst, readPtr, odt_o>>

RefreshWaitTrfc == Dwell("RIDL", "IDLE", 0) /\ Deselect /\ Sequencing

-----------------------------------------------------------------------------
(***************************************************************************)
(* Self-refresh and precharge power-down.  An exit request during entry    *)
(* aborts it and reloads the refresh counter.                              *)
(***************************************************************************)
\* Registers no low-power arm writes.
LowPowerFrame ==
  /\ act_gap_cnt' = ActGapTick
  /\ NotQuiet /\ Raise({})
  /\ UNCHANGED <<have_act_any, burst, readPtr, odt_o, dll>>

LowPowerArm == LowPowerFrame /\ refCnt' = RefCntTick

AbortEntry ==
  /\ Goto("IDLE", CntTick)
  /\ refCnt' = REF_CNT_INIT
  /\ LowPowerFrame

\* CKE falls while the banks are being precharged.
FaultySelfRefreshPrecharge ==
  /\ Dwell("SREF_PRE", "SREF_TRP", CNT_RNOP)
  /\ PrechargeAll /\ LowPowerArm
  /\ selfref_active' = TRUE
  /\ UNCHANGED pdown_active_o

SelfRefreshPrecharge ==
  /\ Dwell("SREF_PRE", "SREF_TRP", CNT_RNOP)
  /\ PrechargeAll /\ LowPowerArm
  /\ UNCHANGED <<selfref_active, pdown_active_o>>

SelfRefreshWaitTrp ==
  /\ Dwell("SREF_TRP", "SREF_ENTER", 1)
  /\ Deselect /\ LowPowerArm
  /\ UNCHANGED <<selfref_active, pdown_active_o>>

SelfRefreshEnter ==
  /\ Dwell("SREF_ENTER", "SREF_IDLE", 0)
  /\ DriveNop /\ LowPowerArm
  /\ selfref_active' = TRUE
  /\ UNCHANGED pdown_active_o

\* selfref_exit_i high in one of the three entry states.
AbortSelfRefresh ==
  /\ \/ st = "SREF_PRE" /\ PrechargeAll
     \/ st = "SREF_TRP" /\ Deselect
     \/ st = "SREF_ENTER" /\ DriveNop
  /\ AbortEntry
  /\ selfref_active' = FALSE
  /\ UNCHANGED pdown_active_o

SelfRefreshIdle ==
  /\ st = "SREF_IDLE"
  /\ Goto("SREF_IDLE", CntTick)
  /\ DriveNop /\ LowPowerArm
  /\ UNCHANGED <<selfref_active, pdown_active_o>>

\* The tXSR wait is not loaded.
FaultyExitSelfRefresh ==
  /\ st = "SREF_IDLE"
  /\ Goto("SREF_EXIT_WAIT", CntTick)
  /\ DriveNop /\ LowPowerArm
  /\ selfref_active' = FALSE
  /\ UNCHANGED pdown_active_o

ExitSelfRefresh ==
  /\ st = "SREF_IDLE"
  /\ Goto("SREF_EXIT_WAIT", CNT_SELFREF_TXSR)
  /\ DriveNop /\ LowPowerArm
  /\ selfref_active' = FALSE
  /\ UNCHANGED pdown_active_o

\* SREF_EXIT_WAIT and PD_EXIT_WAIT: afterwards a refresh is urgent.
ExitWait(s) ==
  /\ Dwell(s, "IDLE", 0)
  /\ DriveNop /\ LowPowerFrame
  /\ refCnt' = IF cnt = 0 THEN 0 ELSE RefCntTick
  /\ UNCHANGED <<selfref_active, pdown_active_o>>

SelfRefreshExitWait == ExitWait("SREF_EXIT_WAIT")

PowerDownPrecharge ==
  /\ Dwell("PD_PRE", "PD_TRP", CNT_RNOP)
  /\ PrechargeAll /\ LowPowerArm
  /\ UNCHANGED <<selfref_active, pdown_active_o>>

PowerDownWaitTrp ==
  /\ Dwell("PD_TRP", "PD_IDLE", 0)
  /\ Deselect /\ LowPowerArm
  /\ pdown_active_o' = IF cnt = 0 THEN TRUE ELSE pdown_active_o
  /\ UNCHANGED selfref_active

\* pdown_exit_i high in one of the two entry states.
AbortPowerDown ==
  /\ \/ st = "PD_PRE" /\ PrechargeAll
     \/ st = "PD_TRP" /\ Deselect
  /\ AbortEntry
  /\ pdown_active_o' = FALSE
  /\ UNCHANGED selfref_active

PowerDownIdle ==
  /\ st = "PD_IDLE"
  /\ Goto("PD_IDLE", CntTick)
  /\ DriveNop /\ LowPowerArm
  /\ UNCHANGED <<selfref_active, pdown_active_o>>

\* The tXP wait is not loaded.
FaultyExitPowerDown ==
  /\ st = "PD_IDLE"
  /\ Goto("PD_EXIT_WAIT", CntTick)
  /\ DriveNop /\ LowPowerArm
  /\ pdown_active_o' = FALSE
  /\ UNCHANGED selfref_active

ExitPowerDown ==
  /\ st = "PD_IDLE"
  /\ Goto("PD_EXIT_WAIT", CNT_PDOWN_TXP)
  /\ DriveNop /\ LowPowerArm
  /\ pdown_active_o' = FALSE
  /\ UNCHANGED selfref_active

PowerDownExitWait == ExitWait("PD_EXIT_WAIT")

-----------------------------------------------------------------------------
(***************************************************************************)
(* Runtime DLL change: PRECHARGE ALL, tRP, MRS, tMRD, tDLLK.               *)
(***************************************************************************)
DllPrecharge == Dwell("DLL_PRE", "DLL_TRP", CNT_RNOP) /\ PrechargeAll /\ Sequencing

DllWaitTrp == Dwell("DLL_TRP", "DLL_MRS", 1) /\ Deselect /\ Sequencing

DllModeSet == Dwell("DLL_MRS", "DLL_TMRD", CNT_TMRD) /\ Drive("MRS", 0, "MODE") /\ Sequencing

DllArm ==
  /\ Deselect
  /\ TimersTick /\ NotQuiet /\ Raise({})
  /\ UNCHANGED <<burst, readPtr, odt_o, selfref_active, pdown_active_o>>

\* The tDLLK wait is not loaded.
FaultyDllWaitTmrd ==
  /\ Dwell("DLL_TMRD", "DLL_TDLLK", 0)
  /\ DllArm
  /\ UNCHANGED <<dll_in_progress, dll_tdllk_cnt>>

DllWaitTmrd ==
  /\ Dwell("DLL_TMRD", "DLL_TDLLK", 0)
  /\ dll_tdllk_cnt' = IF cnt = 0 THEN CNT_TDLLK ELSE dll_tdllk_cnt
  /\ DllArm
  /\ UNCHANGED dll_in_progress

DllWaitTdllk ==
  /\ st = "DLL_TDLLK"
  /\ IF dll_tdllk_cnt # 0
       THEN /\ dll_tdllk_cnt' = dll_tdllk_cnt - 1
            /\ Goto("DLL_TDLLK", CntTick)
            /\ UNCHANGED dll_in_progress
       ELSE /\ dll_in_progress' = FALSE
            /\ Goto("IDLE", CntTick)
            /\ UNCHANGED dll_tdllk_cnt
  /\ DllArm

-----------------------------------------------------------------------------
\* The reset branch leaves the DLL and automatic self-refresh registers alone,
\* so after power-up they hold whatever the build gives them (idle_quiet_cnt is
\* cleared by the first clock, when the init engine cannot be ready yet).
Init ==
  /\ ready = FALSE
  /\ st = "IDLE" /\ cnt = 0
  /\ refCnt = REF_CNT_INIT
  /\ act_gap_cnt = 0 /\ have_act_any = FALSE
  /\ cur = [cmd |-> "NOP", sz |-> 0, bank |-> 0, rank |-> 0]
  /\ next_state_after_trcd = "IDLE"
  /\ blk_cnt = 0 /\ burst_cnt = 0 /\ from_blw = FALSE
  /\ bus = "DES" /\ ba_o = 0 /\ a_o = "ZERO" /\ odt_o = FALSE
  /\ strobe = [x \in StrobeNames |-> FALSE]
  /\ readPtr = 0
  /\ selfref_active = FALSE /\ selfref_active_o = FALSE
  /\ pdown_active_o = FALSE
  /\ dll_in_progress \in BOOLEAN /\ dll_busy_o \in BOOLEAN
  /\ dll_tdllk_cnt = 0
  /\ idle_quiet_cnt = 0 /\ auto_selfref_req \in BOOLEAN
  /\ rank_sel_o = 0

\* RESET pulsed while running; the init engine drops ready.
Reset ==
  /\ ready' = FALSE
  /\ Goto("IDLE", 0)
  /\ refCnt' = REF_CNT_INIT
  /\ act_gap_cnt' = 0 /\ have_act_any' = FALSE
  /\ cur' = [cmd |-> "NOP", sz |-> 0, bank |-> 0, rank |-> 0]
  /\ next_state_after_trcd' = "IDLE"
  /\ blk_cnt' = 0 /\ burst_cnt' = 0 /\ from_blw' = FALSE
  /\ Drive("DES", 0, "ZERO") /\ odt_o' = FALSE
  /\ Raise({}) /\ readPtr' = 0
  /\ selfref_active' = FALSE /\ selfref_active_o' = FALSE
  /\ pdown_active_o' = FALSE
  /\ rank_sel_o' = 0
  /\ UNCHANGED <<dll, dll_busy_o, quiet>>

\* Once the init engine is ready it stays so until a reset.
ReadyStays == ready' \in {ready, TRUE}

CommandArms ==
  \/ GetCommand
  \/ ActivateHold \/ ActivateScalar \/ ActivateBlock \/ ActivateDrop
  \/ WaitTrcd
  \/ IssueRead \/ ScalarRead \/ ScalarReadEnd
  \/ IssueWrite \/ ScalarWrite \/ WriteData \/ WriteEnd
  \/ BlockReadActivate \/ BlockReadIssue \/ BlockRead \/ DefaultArm
  \/ BlockWriteActivate \/ BlockWriteIssue \/ BlockWrite

IdleArms ==
  \/ StartSelfRefresh \/ StartDll \/ StartPowerDown \/ StartRefresh
  \/ StartCommand \/ StayIdle

MaintenanceArms ==
  \/ RefreshPrecharge \/ RefreshWaitTrp \/ Refresh \/ RefreshWaitTrfc
  \/ SelfRefreshPrecharge \/ SelfRefreshWaitTrp \/ SelfRefreshEnter
  \/ AbortSelfRefresh \/ SelfRefreshIdle \/ ExitSelfRefresh
  \/ SelfRefreshExitWait
  \/ PowerDownPrecharge \/ PowerDownWaitTrp \/ AbortPowerDown
  \/ PowerDownIdle \/ ExitPowerDown \/ PowerDownExitWait
  \/ DllPrecharge \/ DllWaitTrp \/ DllModeSet \/ DllWaitTmrd \/ DllWaitTdllk

Clock ==
  /\ IdleArms \/ CommandArms \/ MaintenanceArms
  /\ DelayedOutputs
  /\ ReadyStays

Next == Clock \/ Reset

Spec == Init /\ [][Next]_vars

-----------------------------------------------------------------------------
(* While CKE is low for self-refresh or power-down the device is left alone: *)
(* no command on the pins, no termination, no FIFO traffic -- from the clock *)
(* that lowers CKE to the one that raises it, aborted entries included.      *)
LowPowerQuiet ==
  selfref_active_o \/ pdown_active_o =>
    /\ bus \in {"DES", "NOP"}
    /\ ~odt_o
    /\ \A x \in StrobeNames : ~strobe[x]

(* While the controller drives the data bus no command is issued and the     *)
(* device's termination is on, in every burst of a block write too.          *)
WriteWindow == strobe["ts"] => bus = "DES" /\ odt_o

\* What makes the two inductive: termination is on exactly in the states of a
\* write burst, and each low-power flag belongs to the states that hold it.
WriteStates == {"SCWRITE", "BLW_WRITE", "SCWRDATA", "SCWREND"}

QuietInv ==
  /\ WriteWindow
  /\ LowPowerQuiet
  /\ odt_o => st \in WriteStates
  /\ st \in WriteStates => odt_o
  /\ selfref_active => st \in {"SREF_ENTER", "SREF_IDLE"}
  /\ pdown_active_o => st = "PD_IDLE"
=============================================================================
