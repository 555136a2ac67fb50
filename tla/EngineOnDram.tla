---------------------------- MODULE EngineOnDram ----------------------------
(***************************************************************************)
(* The protocol engine driving the ranks of a DDR2 bus.  The rank selected *)
(* by rank_sel_o sees the command on the pins, every other rank is         *)
(* deselected (ddr2_controller.v fans CS# out one-hot after READY), and    *)
(* CKE is common.  openBanks is what the devices make of the commands; it  *)
(* is updated with the pins, so it describes the device after the command  *)
(* now on them.                                                            *)
(***************************************************************************)
EXTENDS ProtocolEngine

VARIABLE openBanks        \* rank -> set of banks with an open row

\* PRECHARGE closes every bank when A10 is set, else the addressed bank.
Closed(rows) == IF a_o' = "PREALL" THEN {} ELSE rows \ {ba_o'}

DeviceRows(rows) ==
  CASE bus' = "ACT" -> rows \cup {ba_o'}
    [] bus' = "PRE" -> Closed(rows)
    [] OTHER -> rows

Devices ==
  openBanks' = [r \in Ranks |->
    IF r = rank_sel_o' THEN DeviceRows(openBanks[r]) ELSE openBanks[r]]

DramNext ==
  \/ Clock /\ Devices
  \/ Reset /\ openBanks' = [r \in Ranks |-> {}]

DramInit == Init /\ openBanks = [r \in Ranks |-> {}]

DramSpec == DramInit /\ [][DramNext]_<<vars, openBanks>>

\* pm_use_cke_override: CKE is low while either flag is up.
CkeLow == selfref_active_o \/ pdown_active_o

CommandOf(r) == IF bus \in {"DES", "NOP"} \/ r # rank_sel_o THEN "NONE" ELSE bus

Rank(r) == INSTANCE DramProtocol
  WITH command <- CommandOf(r), bank <- ba_o, open <- openBanks[r], lowPower <- CkeLow

(* Every rank sees a legal DDR2 command sequence: columns only on open rows, *)
(* REF, MRS and CKE-low only with all banks closed, nothing while CKE is low.*)
(* This is \A r \in Ranks : Rank(r)!Spec, its box taken out of the quantifier. *)
RankStep(r) == [Rank(r)!Next]_<<CommandOf(r), ba_o, openBanks[r], CkeLow>>

RanksAreServed ==
  /\ \A r \in Ranks : Rank(r)!Init
  /\ [][\A r \in Ranks : RankStep(r)]_<<vars, openBanks>>

(* An ACTIVATE goes to a closed bank: rows left open are closed before their *)
(* bank is activated again.                                                  *)
ActivateClosedBank ==
  [][bus' = "ACT" /\ bus # "ACT" => ba_o' \notin openBanks[rank_sel_o']]_<<vars, openBanks>>
=============================================================================
