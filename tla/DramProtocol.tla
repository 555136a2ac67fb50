---------------------------- MODULE DramProtocol ----------------------------
(***************************************************************************)
(* What one DDR2 rank may be asked to do: the order of commands, without   *)
(* time.  This is the abstract promise of the protocol engine towards the  *)
(* device; it models no code.  A deselected cycle counts as no command.    *)
(***************************************************************************)
CONSTANT Banks

VARIABLES
  command,     \* the command this rank sees in this cycle
  bank,        \* the bank address in this cycle
  open,        \* the banks with an open row
  lowPower     \* CKE is low

dramVars == <<command, bank, open, lowPower>>

Commands == {"NONE", "ACT", "RD", "WR", "PRE", "REF", "MRS"}

Init ==
  /\ command = "NONE"
  /\ bank \in Banks
  /\ open = {}
  /\ lowPower = FALSE

NoCommand ==
  /\ command' = "NONE"
  /\ UNCHANGED <<open, lowPower>>

Activate ==
  /\ ~lowPower
  /\ command' = "ACT"
  /\ open' = open \cup {bank'}
  /\ UNCHANGED lowPower

\* READ and WRITE go to an open row and leave it open (no auto-precharge).
Column ==
  /\ ~lowPower
  /\ bank' \in open
  /\ command' \in {"RD", "WR"}
  /\ UNCHANGED <<open, lowPower>>

PrechargeAll ==
  /\ ~lowPower
  /\ command' = "PRE"
  /\ open' = {}
  /\ UNCHANGED lowPower

\* REFRESH and MODE REGISTER SET need every bank closed.
Maintain ==
  /\ ~lowPower
  /\ open = {}
  /\ command' \in {"REF", "MRS"}
  /\ UNCHANGED <<open, lowPower>>

\* So does letting CKE fall; while it is low nothing is commanded.
EnterLowPower ==
  /\ open = {}
  /\ command' = "NONE"
  /\ lowPower' = TRUE
  /\ UNCHANGED open

LeaveLowPower ==
  /\ command' = "NONE"
  /\ lowPower' = FALSE
  /\ UNCHANGED open

\* RESET: the init engine takes the device through its power-up sequence.
PowerUp ==
  /\ command' = "NONE"
  /\ open' = {}
  /\ lowPower' = FALSE

Next ==
  /\ bank' \in Banks
  /\ \/ NoCommand \/ Activate \/ Column \/ PrechargeAll \/ Maintain
     \/ EnterLowPower \/ LeaveLowPower \/ PowerUp

Spec == Init /\ [][Next]_dramVars
=============================================================================
