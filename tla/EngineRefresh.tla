--------------------------- MODULE EngineRefresh ----------------------------
(***************************************************************************)
(* The refresh interval the engine keeps, measured as                      *)
(* ddr2_refresh_monitor.v does (cycles with CKE high since the last REF),  *)
(* and what the engine must eventually do, under three kinds of host.      *)
(* RESET stays low: the monitor is reset with the engine, so no interval   *)
(* spans a RESET.                                                          *)
(***************************************************************************)
EXTENDS ProtocolEngine

CONSTANT TREFI_MAX        \* DDR2_TIMING_TREFI_MAX_CLK

ASSUME IntervalAssumption == TREFI_MAX \in Nat

VARIABLES
  sinceRefresh,           \* saturates above TREFI_MAX
  seenRefresh

interval == <<sinceRefresh, seenRefresh>>
refreshVars == <<vars, interval>>

CkeHigh == ~selfref_active_o /\ ~pdown_active_o

Measure ==
  /\ seenRefresh' = (seenRefresh \/ bus = "REF")
  /\ sinceRefresh' =
       IF bus = "REF" \/ ~seenRefresh THEN 0
       ELSE IF CkeHigh /\ sinceRefresh <= TREFI_MAX THEN sinceRefresh + 1
       ELSE sinceRefresh

RefreshInit == Init /\ seenRefresh = FALSE /\ sinceRefresh = 0

Step(host) == Clock /\ host /\ Measure

\* Raises an exit request only once its low-power mode has been entered, and
\* leaves a refresh that is due time to happen before it asks for self-refresh.
PoliteHost ==
  /\ st \in {"SREF_PRE", "SREF_TRP", "SREF_ENTER", "PD_PRE", "PD_TRP"} => st' # "IDLE"
  /\ st = "IDLE" /\ need_refresh /\ ~auto_selfref_req => st' # "SREF_PRE"

\* The clock runs, and a step that leaves the present wait for the environment
\* is not put off for ever: the init engine finishes, and the polite host ends
\* every low-power period.
Responsive == ready' /\ (st \in {"SREF_IDLE", "PD_IDLE"} => st' # st)

PoliteSpec ==
  /\ RefreshInit /\ [][Step(PoliteHost)]_refreshVars
  /\ WF_refreshVars(Step(PoliteHost) /\ Responsive)

-----------------------------------------------------------------------------
(* The settings under which the interval can be kept.  A refresh becomes due *)
(* in IDLE; whatever IDLE starts before that must end in time for IDLE, the  *)
(* precharge and the refresh itself.  Times are in clocks with CKE high.     *)
\* From IDLE to REF: IDLE, PRECHARGE ALL, tRP, the clock that issues it.
Home == 12

\* The oldest interval at which a refresh becomes due in IDLE.
Due == REF_CNT_INIT - REF_THRESH + 1

\* A burst of a block write from its WR on, and the bursts after the first n.
Burst(sz) == 32 + 8 * (sz + 1)
Bursts(sz, n) == IF n < sz THEN (sz - n) * Burst(sz) ELSE 0

\* From the first column state to IDLE.
ColumnTime(cmd, sz) ==
  [NOP |-> 0, SCR |-> CNT_SCREAD + 11, SCW |-> 40,
   BLR |-> CNT_SCREAD + 3, BLW |-> Burst(sz) + Bursts(sz, 0)][cmd]

\* From the end of ACTIVATE's gap: the second ACT of a block, tRCD, the columns.
OpenTime(cmd, sz) == TRCD_WAIT + 3 + ColumnTime(cmd, sz)

\* Both gaps, and the dwells of GETCMD and ACTIVATE.
FetchTime(cmd, sz) == 17 + OpenTime(cmd, sz)

\* Entry, exit wait; the time asleep does not count.
SelfRefreshTime == CNT_SELFREF_TXSR + 14
PowerDownTime == CNT_PDOWN_TXP + 11
DllTime == CNT_TDLLK + 17

\* Whatever IDLE starts before a refresh is due leaves time for it.
SettingsFit ==
  /\ REF_THRESH \in 1..REF_CNT_INIT
  /\ \A cmd \in Commands, sz \in Sizes : Due + FetchTime(cmd, sz) + Home <= TREFI_MAX
  /\ \A t \in {SelfRefreshTime, PowerDownTime, DllTime} : Due + t + Home <= TREFI_MAX
  /\ CNT_RIDL + 1 + Home <= TREFI_MAX

-----------------------------------------------------------------------------
(* Two refreshes are never more than TREFI_MAX clocks with CKE high apart,   *)
(* whatever commands, mode changes and low-power periods lie between.        *)
RefreshIntervalBounded == sinceRefresh <= TREFI_MAX

(* A refresh that is due is eventually issued, however many commands and     *)
(* power-down or DLL requests compete with it in IDLE.                       *)
RefreshServed == need_refresh ~> (bus = "REF")

(* No arm holds the sequencer for ever: IDLE, where refreshes and commands   *)
(* are arbitrated, is reached again and again.                               *)
IdleAgain == []<>(st = "IDLE")

(* A fetched command is not lost on the way: its ACTIVATE appears, through   *)
(* the gap gate of GETCMD.                                                   *)
FetchedIsActivated == strobe["getCmd"] ~> (bus = "ACT")
=============================================================================
