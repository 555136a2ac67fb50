----------------------------- MODULE InitEngine -----------------------------
(***************************************************************************)
(* ddr2_init_engine.v: the power-up sequence, clock by clock.  A command   *)
(* state lasts one clock, a wait state until cntr is 0; each loads the     *)
(* count of the wait that follows, but only if cntr is already 0 -- which  *)
(* it is in no command state.                                              *)
(***************************************************************************)
EXTENDS Naturals, Sequences

CONSTANTS
  CNT_PWRUP,              \* 100000, or 100 with SIM_SHORT_INIT
  TXSR_CYCLES, TRP_CYCLES, TMRD_CYCLES, TRFC_CYCLES, TMRD_DLL_CYCLES,
  FINAL_CYCLES,
  OCD_CALIB_EN, OCD_WAIT_CYCLES, ZQ_CALIB_EN, ZQ_WAIT_CYCLES

MaxCntr == 512 * 256 - 1   \* cntr is 17 bits wide

ASSUME CountsAssumption ==
  /\ {CNT_PWRUP, TXSR_CYCLES, TRP_CYCLES, TMRD_CYCLES, TRFC_CYCLES,
      TMRD_DLL_CYCLES, FINAL_CYCLES, OCD_WAIT_CYCLES, ZQ_WAIT_CYCLES}
       \subseteq 0..MaxCntr
  /\ OCD_CALIB_EN \in BOOLEAN /\ ZQ_CALIB_EN \in BOOLEAN

\* The Faulty definitions of this module are plausible bugs that the properties
\* of InitTiming must be able to see; no specification uses them.
FaultyOcdWait == OCD_CALIB_EN /\ OCD_WAIT_CYCLES = 0

OcdWait == OCD_CALIB_EN /\ OCD_WAIT_CYCLES # 0
ZqWait == ZQ_CALIB_EN /\ ZQ_WAIT_CYCLES # 0

\* Commands by the mode register and value they carry: MRS_RST resets the DLL.
CommandOf ==
  [S_PRE |-> "PRE", S_EMRS2 |-> "EMRS2", S_EMRS3 |-> "EMRS3",
   S_EMRS1 |-> "EMRS1_INIT", S_MRS |-> "MRS_RST", S_REF1 |-> "REF",
   S_REF2 |-> "REF", S_MRS2 |-> "MRS_FINAL", S_EMRS1_2 |-> "EMRS1_FINAL",
   S_FINAL_PRE |-> "PRE"]

CommandStates == DOMAIN CommandOf

WaitStates ==
  {"S_PWRUP", "S_CKE", "S_TRP", "S_EMRS2_W", "S_EMRS3_W", "S_EMRS1_W",
   "S_MRS_W", "S_REF1_W", "S_REF2_W", "S_MRS2_W", "S_EMRS1_2W",
   "S_OCD_WAIT", "S_ZQ_WAIT", "S_FINAL_W"}

\* state_next, once a state ends.
Successor ==
  [S_PWRUP |-> "S_CKE", S_CKE |-> "S_PRE",
   S_PRE |-> "S_TRP", S_TRP |-> "S_EMRS2",
   S_EMRS2 |-> "S_EMRS2_W", S_EMRS2_W |-> "S_EMRS3",
   S_EMRS3 |-> "S_EMRS3_W", S_EMRS3_W |-> "S_EMRS1",
   S_EMRS1 |-> "S_EMRS1_W", S_EMRS1_W |-> "S_MRS",
   S_MRS |-> "S_MRS_W", S_MRS_W |-> "S_REF1",
   S_REF1 |-> "S_REF1_W", S_REF1_W |-> "S_REF2",
   S_REF2 |-> "S_REF2_W", S_REF2_W |-> "S_MRS2",
   S_MRS2 |-> "S_MRS2_W", S_MRS2_W |-> "S_EMRS1_2",
   S_EMRS1_2 |-> "S_EMRS1_2W",
   S_EMRS1_2W |-> IF OcdWait THEN "S_OCD_WAIT" ELSE "S_FINAL_PRE",
   S_OCD_WAIT |-> "S_FINAL_PRE",
   S_FINAL_PRE |-> IF ZqWait THEN "S_ZQ_WAIT" ELSE "S_FINAL_W",
   S_ZQ_WAIT |-> "S_FINAL_W", S_FINAL_W |-> "S_READY"]

\* The count a state loads when cntr is 0 (S_FINAL_W loads none).
Load ==
  [S_PWRUP |-> TXSR_CYCLES, S_CKE |-> 1,
   S_PRE |-> TRP_CYCLES, S_TRP |-> TMRD_CYCLES,
   S_EMRS2 |-> TMRD_CYCLES, S_EMRS2_W |-> TMRD_CYCLES,
   S_EMRS3 |-> TMRD_CYCLES, S_EMRS3_W |-> TMRD_CYCLES,
   S_EMRS1 |-> TMRD_CYCLES, S_EMRS1_W |-> TMRD_CYCLES,
   S_MRS |-> TMRD_CYCLES, S_MRS_W |-> TRFC_CYCLES,
   S_REF1 |-> TRFC_CYCLES, S_REF1_W |-> TRFC_CYCLES,
   S_REF2 |-> TRFC_CYCLES, S_REF2_W |-> TMRD_DLL_CYCLES,
   S_MRS2 |-> TMRD_CYCLES, S_MRS2_W |-> TMRD_CYCLES,
   S_EMRS1_2 |-> TMRD_CYCLES,
   S_EMRS1_2W |-> IF OcdWait THEN OCD_WAIT_CYCLES ELSE FINAL_CYCLES,
   S_OCD_WAIT |-> FINAL_CYCLES,
   S_FINAL_PRE |-> IF ZqWait THEN ZQ_WAIT_CYCLES ELSE FINAL_CYCLES,
   S_ZQ_WAIT |-> FINAL_CYCLES, S_FINAL_W |-> 0]

VARIABLES
  state, cntr,
  ready, cke, odt, ts_con,
  bus                     \* csbar/rasbar/casbar/webar, BA and A decoded

vars == <<state, cntr, ready, cke, odt, ts_con, bus>>

States == {"S_IDLE", "S_READY"} \cup CommandStates \cup WaitStates

TypeOK ==
  /\ state \in States
  /\ cntr \in 0..MaxCntr
  /\ {ready, cke, odt, ts_con} \subseteq BOOLEAN
  /\ bus \in {"DES"} \cup {CommandOf[s] : s \in CommandStates}

FaultyCntrAfter(load) == cntr - 1

FrozenCntrAfter(load) == IF cntr = 0 THEN load ELSE cntr

CntrAfter(load) == IF cntr = 0 THEN load ELSE cntr - 1

Idle(init) ==
  /\ state = "S_IDLE"
  /\ ready' = FALSE /\ cke' = FALSE /\ bus' = "DES"
  /\ IF init THEN state' = "S_PWRUP" /\ cntr' = CNT_PWRUP
             ELSE state' = "S_IDLE" /\ cntr' = CntrAfter(0)
  /\ UNCHANGED <<odt, ts_con>>

\* The wait is not loaded.
FaultyCommand ==
  /\ state \in CommandStates
  /\ cke' = TRUE /\ bus' = CommandOf[state]
  /\ state' = Successor[state] /\ cntr' = 0
  /\ odt' = (odt \/ state = "S_FINAL_PRE")
  /\ UNCHANGED <<ready, ts_con>>

Command ==
  /\ state \in CommandStates
  /\ cke' = TRUE /\ bus' = CommandOf[state]
  /\ state' = Successor[state] /\ cntr' = CntrAfter(Load[state])
  /\ odt' = (odt \/ state = "S_FINAL_PRE")
  /\ UNCHANGED <<ready, ts_con>>

\* CKE rises with the first command.
FaultyWait ==
  /\ state \in WaitStates
  /\ bus' = "DES"
  /\ cntr' = CntrAfter(Load[state])
  /\ state' = IF cntr = 0 THEN Successor[state] ELSE state
  /\ odt' = (odt \/ state = "S_FINAL_W")
  /\ ts_con' = (ts_con /\ state # "S_FINAL_W")
  /\ UNCHANGED <<ready, cke>>

Wait ==
  /\ state \in WaitStates
  /\ cke' = (state # "S_PWRUP") /\ bus' = "DES"
  /\ cntr' = CntrAfter(Load[state])
  /\ state' = IF cntr = 0 THEN Successor[state] ELSE state
  /\ odt' = (odt \/ state = "S_FINAL_W")
  /\ ts_con' = (ts_con /\ state # "S_FINAL_W")
  /\ UNCHANGED ready

Ready ==
  /\ state = "S_READY"
  /\ ready' = TRUE /\ cke' = TRUE /\ bus' = "DES"
  /\ odt' = TRUE /\ ts_con' = FALSE
  /\ cntr' = CntrAfter(0)
  /\ UNCHANGED state

\* The sequence goes on where it was.
FaultyReset ==
  /\ cntr' = 0
  /\ ready' = FALSE /\ cke' = FALSE /\ bus' = "DES"
  /\ odt' = FALSE /\ ts_con' = TRUE
  /\ UNCHANGED state

Reset ==
  /\ state' = "S_IDLE" /\ cntr' = 0
  /\ ready' = FALSE /\ cke' = FALSE /\ bus' = "DES"
  /\ odt' = FALSE /\ ts_con' = TRUE

Init ==
  /\ state = "S_IDLE" /\ cntr = 0
  /\ ready = FALSE /\ cke = FALSE /\ bus = "DES"
  /\ odt = FALSE /\ ts_con = TRUE

Clock == (\E init \in BOOLEAN : Idle(init)) \/ Command \/ Wait \/ Ready

Next == Clock \/ Reset

Spec == Init /\ [][Next]_vars
=============================================================================
