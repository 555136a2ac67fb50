-------------------------- MODULE InitTiming_proofs --------------------------
(***************************************************************************)
(* The power-up sequence for every setting of its waits: the order of the  *)
(* commands at the pins, the gaps between them and the time CKE settles.   *)
(*                                                                         *)
(* The state says how many commands have been issued; the count loaded in  *)
(* the state before a command is the wait that will follow the command.    *)
(***************************************************************************)
EXTENDS InitTiming, SequenceTheorems, TLAPS

\* How many commands of the sequence have been issued when a state is entered.
Issued ==
  [S_IDLE |-> 0, S_PWRUP |-> 0, S_CKE |-> 0, S_PRE |-> 0,
   S_TRP |-> 1, S_EMRS2 |-> 1, S_EMRS2_W |-> 2, S_EMRS3 |-> 2,
   S_EMRS3_W |-> 3, S_EMRS1 |-> 3, S_EMRS1_W |-> 4, S_MRS |-> 4,
   S_MRS_W |-> 5, S_REF1 |-> 5, S_REF1_W |-> 6, S_REF2 |-> 6,
   S_REF2_W |-> 7, S_MRS2 |-> 7, S_MRS2_W |-> 8, S_EMRS1_2 |-> 8,
   S_EMRS1_2W |-> 9, S_OCD_WAIT |-> 9, S_FINAL_PRE |-> 9,
   S_ZQ_WAIT |-> 10, S_FINAL_W |-> 10, S_READY |-> 10]

\* The gap owed to each command of the sequence.
Gap == <<0, TMRD_CYCLES, TMRD_CYCLES, TMRD_CYCLES, TMRD_CYCLES,
         TRFC_CYCLES, TRFC_CYCLES, TMRD_DLL_CYCLES, TMRD_CYCLES, 0>>

\* The first state after a command, where the command is on the pins.
AfterCommand == WaitStates \ {"S_PWRUP", "S_CKE", "S_OCD_WAIT"}

\* The log follows the state, a clock late while a command is on the pins.
LogFollows ==
  /\ bus = "DES" => log = SubSeq(PowerUpSequence, 1, Issued[state])
  /\ bus # "DES" =>
       /\ state \in AfterCommand
       /\ bus = PowerUpSequence[Issued[state]]
       /\ log = SubSeq(PowerUpSequence, 1, Issued[state] - 1)
  /\ ready => state = "S_READY"

\* A wait state has counted what is left of the gap; a command state holds the
\* gap its own command is owed, and the last command has had its gap.
GapCounted ==
  /\ state \in AfterCommand =>
       IF bus = "DES" THEN age + cntr + 2 >= Gap[Issued[state]]
                      ELSE cntr + 1 >= Gap[Issued[state]]
  /\ state \in CommandStates =>
       /\ cntr >= Gap[Issued[state] + 1]
       /\ Issued[state] # 0 => age + 1 >= Gap[Issued[state]]
  /\ bus # "DES" /\ Issued[state] # 1 => age >= Gap[Issued[state] - 1]

\* The same of the wait for the calibration, which has a state of its own.
OcdCounted ==
  /\ state = "S_OCD_WAIT" =>
       age + 1 >= TMRD_CYCLES /\ age + cntr >= OCD_WAIT_CYCLES
  /\ state = "S_FINAL_PRE" /\ OcdWait => age >= OCD_WAIT_CYCLES
  /\ bus # "DES" /\ Issued[state] = 10 /\ OcdWait => age >= OCD_WAIT_CYCLES

\* The count of S_CKE covers what CKE has still to settle.
CkeCounted ==
  /\ state = "S_CKE" =>
       IF cke THEN ckeAge + cntr + 1 >= TXSR_CYCLES ELSE cntr >= TXSR_CYCLES
  /\ state = "S_PRE" => cke /\ ckeAge >= TXSR_CYCLES
  /\ state = "S_TRP" /\ bus # "DES" => ckeAge >= TXSR_CYCLES

AgeType == age \in Nat /\ ckeAge \in Nat

InitInv == TypeOK /\ AgeType /\ LogFollows /\ GapCounted /\ OcdCounted /\ CkeCounted

-----------------------------------------------------------------------------
(***************************************************************************)
(* The tables of the sequence.                                             *)
(***************************************************************************)
(* The counts fit the counter.                                               *)
LEMMA Counts ==
  /\ MaxCntr \in Nat
  /\ {CNT_PWRUP, TXSR_CYCLES, TRP_CYCLES, TMRD_CYCLES, TRFC_CYCLES,
      TMRD_DLL_CYCLES, FINAL_CYCLES, OCD_WAIT_CYCLES, ZQ_WAIT_CYCLES}
       \subseteq 0..MaxCntr
  /\ 0 \in 0..MaxCntr /\ 1 \in 0..MaxCntr
<1>1. MaxCntr \in Nat /\ MaxCntr > 1
  BY DEF MaxCntr
<1> QED BY <1>1, CountsAssumption

(* A command state issues the next command of the sequence.                  *)
LEMMA CommandTable ==
  ASSUME NEW s \in CommandStates
  PROVE  /\ Successor[s] \in AfterCommand
         /\ Issued[s] \in 0..9 /\ Issued[Successor[s]] = Issued[s] + 1
         /\ CommandOf[s] = PowerUpSequence[Issued[s] + 1]
         /\ CommandOf[s] # "DES"
         /\ Issued[s] = 0 => s = "S_PRE"
         /\ Issued[s] = 9 => s = "S_FINAL_PRE"
         /\ Load[s] \in 0..MaxCntr
  BY Counts DEF CommandStates, CommandOf, Successor, Issued, WaitStates, AfterCommand,
     PowerUpSequence, Load

(* A wait state ends without one.                                            *)
LEMMA WaitTable ==
  ASSUME NEW s \in WaitStates
  PROVE  /\ Successor[s] \in States \ (AfterCommand \ {"S_FINAL_W"})
         /\ Issued[s] \in 0..10 /\ Issued[Successor[s]] = Issued[s]
         /\ Load[s] \in 0..MaxCntr
         /\ Successor[s] \in CommandStates =>
              s \in AfterCommand \cup {"S_CKE", "S_OCD_WAIT"} /\ Load[s] >= Gap[Issued[s] + 1]
  BY Counts DEF WaitStates, States, CommandStates, CommandOf, AfterCommand, Successor,
     Issued, Load, Gap

(* The log grows by the next command.                                        *)
LEMMA LogGrows ==
  ASSUME NEW k \in 0..9
  PROVE  Append(SubSeq(PowerUpSequence, 1, k), PowerUpSequence[k + 1])
           = SubSeq(PowerUpSequence, 1, k + 1)
  BY DEF PowerUpSequence

BusCommands == {"PRE", "EMRS2", "EMRS3", "EMRS1_INIT", "MRS_RST", "REF",
                "MRS_FINAL", "EMRS1_FINAL"}

(* A prefix is as long as it says.                                           *)
LEMMA PrefixLength ==
  ASSUME NEW k \in 0..10
  PROVE  Len(SubSeq(PowerUpSequence, 1, k)) = k
  BY DEF PowerUpSequence

(* Gaps are counts.                                                          *)
LEMMA GapTypes ==
  /\ \A k \in 1..10 : Gap[k] \in Nat /\ Gap[k] <= AgeCap
  /\ AgeCap \in Nat
  BY Counts DEF Gap, AgeCap

(* An age that is old enough stays so, and one short of it gets there.       *)
LEMMA OlderEnough ==
  ASSUME NEW n \in Nat, NEW g \in Nat, g <= AgeCap
  PROVE  Older(n) \in Nat /\ (n + 1 >= g => Older(n) >= g) /\ (n >= g => Older(n) >= g)
  BY GapTypes DEF Older

(* The counter in a clock that loads a count.                                *)
LEMMA CounterTypes ==
  ASSUME TypeOK, NEW load \in 0..MaxCntr
  PROVE  CntrAfter(load) \in 0..MaxCntr
  BY Counts DEF TypeOK, CntrAfter

-----------------------------------------------------------------------------
(***************************************************************************)
(* The clocks.                                                             *)
(***************************************************************************)
(* The waits, between commands, are disjoint from the command states.        *)
LEMMA Disjoint ==
  /\ CommandStates \cap WaitStates = {}
  /\ {"S_IDLE", "S_READY"} \cap (CommandStates \cup WaitStates) = {}
  /\ AfterCommand \subseteq WaitStates
  BY DEF CommandStates, CommandOf, WaitStates, AfterCommand

(* A command goes out.                                                       *)
LEMMA CommandKeeps ==
  ASSUME InitInv, Command, Watch
  PROVE  InitInv'
<1> DEFINE k == Issued[state]
<1>1. /\ state \in CommandStates /\ state' = Successor[state]
      /\ cke' = TRUE /\ bus' = CommandOf[state] /\ cntr' = CntrAfter(Load[state])
      /\ ready' = ready /\ ts_con' = ts_con
  BY DEF Command
<1>2. /\ state' \in AfterCommand /\ k \in 0..9 /\ Issued[state'] = k + 1
      /\ bus' = PowerUpSequence[k + 1] /\ bus' # "DES" /\ Load[state] \in 0..MaxCntr
      /\ k = 0 => state = "S_PRE"
      /\ k = 9 => state = "S_FINAL_PRE"
  BY <1>1, CommandTable
<1>3. bus = "DES" /\ log = SubSeq(PowerUpSequence, 1, k) /\ ~ready
  BY <1>1, Disjoint DEF InitInv, LogFollows, TypeOK
<1>4. /\ cntr \in 0..MaxCntr /\ age \in Nat /\ ckeAge \in Nat
      /\ cntr >= Gap[k + 1]
      /\ k # 0 => age + 1 >= Gap[k]
  BY <1>1 DEF InitInv, TypeOK, AgeType, GapCounted
<1>5. log' = log /\ age' = Older(age) /\ ckeAge' = IF cke THEN Older(ckeAge) ELSE 0
  BY <1>3 DEF Watch
<1> HIDE DEF k
<1>6. cntr' \in 0..MaxCntr /\ cntr' + 1 >= Gap[k + 1]
  BY <1>1, <1>2, <1>4, Counts, GapTypes DEF CntrAfter
<1>7. age' \in Nat /\ (k # 0 => age' >= Gap[k])
  BY <1>2, <1>4, <1>5, OlderEnough, GapTypes
<1>8. TypeOK'
  <2>1. state' \in States
    BY <1>2, Disjoint DEF States
  <2>2. bus' \in {CommandOf[s] : s \in CommandStates}
    BY <1>1
  <2>3. odt' \in BOOLEAN
    BY DEF Command
  <2> QED BY <1>1, <1>6, <2>1, <2>2, <2>3 DEF InitInv, TypeOK
<1>9. AgeType'
  BY <1>4, <1>5, <1>7, OlderEnough, GapTypes DEF AgeType
<1>10. LogFollows'
  BY <1>1, <1>2, <1>3, <1>5 DEF LogFollows
<1>11. GapCounted'
  BY <1>2, <1>6, <1>7, Disjoint DEF GapCounted
<1>a. state' \notin {"S_CKE", "S_OCD_WAIT", "S_PRE", "S_FINAL_PRE"}
  BY <1>2 DEF AfterCommand, WaitStates
<1>12. OcdCounted'
  <2>1. k + 1 = 10 /\ OcdWait => age >= OCD_WAIT_CYCLES
    BY <1>2 DEF InitInv, OcdCounted
  <2>2. OCD_WAIT_CYCLES \in Nat /\ OCD_WAIT_CYCLES <= AgeCap
    BY Counts DEF AgeCap
  <2> QED BY <1>a, <1>2, <1>4, <1>5, <2>1, <2>2, OlderEnough DEF OcdCounted
<1>13. CkeCounted'
  <2>1. state' = "S_TRP" => k = 0
    BY <1>2 DEF Issued
  <2>2. k = 0 => cke /\ ckeAge >= TXSR_CYCLES
    BY <1>2 DEF InitInv, CkeCounted
  <2>3. TXSR_CYCLES \in Nat /\ TXSR_CYCLES <= AgeCap
    BY Counts DEF AgeCap
  <2> QED BY <1>a, <1>4, <1>5, <2>1, <2>2, <2>3, OlderEnough DEF CkeCounted
<1> QED BY <1>8, <1>9, <1>10, <1>11, <1>12, <1>13 DEF InitInv

(* A wait counts down, and ends in the state of the next command or wait.    *)
LEMMA WaitKeeps ==
  ASSUME InitInv, Wait, Watch
  PROVE  InitInv'
<1> DEFINE k == Issued[state]
<1>1. /\ state \in WaitStates /\ bus' = "DES" /\ cke' = (state # "S_PWRUP")
      /\ cntr' = CntrAfter(Load[state]) /\ ready' = ready
      /\ state' = IF cntr = 0 THEN Successor[state] ELSE state
  BY DEF Wait
<1>2. /\ Successor[state] \in States \ (AfterCommand \ {"S_FINAL_W"})
      /\ k \in 0..10 /\ Issued[Successor[state]] = k
      /\ Load[state] \in 0..MaxCntr
      /\ Successor[state] \in CommandStates =>
           /\ state \in AfterCommand \cup {"S_CKE", "S_OCD_WAIT"}
           /\ Load[state] >= Gap[k + 1]
  BY <1>1, WaitTable
<1>3. Issued[state'] = k
  BY <1>1, <1>2
<1>4. /\ cntr \in 0..MaxCntr /\ age \in Nat /\ ckeAge \in Nat /\ ~ready
  BY <1>1, Disjoint DEF InitInv, TypeOK, AgeType, LogFollows
<1>5. /\ age' = IF bus = "DES" THEN Older(age) ELSE 0
      /\ ckeAge' = IF cke THEN Older(ckeAge) ELSE 0
  BY DEF Watch
<1>6. state \in AfterCommand => k \in 1..10
  BY DEF AfterCommand, WaitStates, Issued
<1>7. TypeOK'
  <2>1. cntr' \in 0..MaxCntr
    BY <1>1, <1>2, CounterTypes DEF InitInv
  <2>2. state' \in States
    BY <1>1, <1>2 DEF States
  <2>3. odt' \in BOOLEAN /\ ts_con' \in BOOLEAN /\ cke' \in BOOLEAN
    BY <1>1 DEF Wait
  <2> QED BY <1>1, <1>4, <2>1, <2>2, <2>3 DEF InitInv, TypeOK
<1>8. AgeType'
  BY <1>4, <1>5, OlderEnough, GapTypes DEF AgeType
<1>9. log' = SubSeq(PowerUpSequence, 1, k)
  <2>1. CASE bus = "DES"
    BY <2>1 DEF Watch, InitInv, LogFollows
  <2>2. CASE bus # "DES"
    <3>1. /\ k \in 1..10 /\ bus = PowerUpSequence[k]
          /\ log = SubSeq(PowerUpSequence, 1, k - 1) /\ log' = Append(log, bus)
      BY <1>6, <2>2 DEF Watch, InitInv, LogFollows
    <3> HIDE DEF k
    <3>2. k - 1 \in 0..9 /\ (k - 1) + 1 = k
      BY <3>1
    <3> QED BY <3>1, <3>2, LogGrows
  <2> QED BY <2>1, <2>2
<1>10. LogFollows'
  BY <1>1, <1>3, <1>4, <1>9 DEF LogFollows
<1>11. GapCounted'
  <2>1. k \in 1..10 => Gap[k] \in Nat /\ Gap[k] <= AgeCap
    BY GapTypes
  <2>2. CASE cntr # 0
    <3>1. state' = state /\ cntr' = cntr - 1 /\ state' \notin CommandStates
      BY <1>1, <2>2, Disjoint DEF CntrAfter
    <3>2. state \in AfterCommand => IF bus = "DES" THEN age + cntr + 2 >= Gap[k]
                                                 ELSE cntr + 1 >= Gap[k]
      BY DEF InitInv, GapCounted
    <3> HIDE DEF k
    <3>3. state \in AfterCommand => age' + cntr' + 2 >= Gap[k]
      BY <1>4, <1>5, <1>6, <2>1, <2>2, <3>1, <3>2, GapTypes DEF Older
    <3> QED BY <1>1, <1>3, <3>1, <3>3 DEF GapCounted
  <2>3. CASE cntr = 0
    <3>1. state' = Successor[state] /\ cntr' = Load[state]
      BY <1>1, <2>3 DEF CntrAfter
    <3>2. state' \in AfterCommand => k = 10
      BY <1>3, <3>1, <1>2 DEF Issued
    <3>3. Gap[10] = 0
      BY DEF Gap
    <3>4. state \in AfterCommand => IF bus = "DES" THEN age + cntr + 2 >= Gap[k]
                                                 ELSE cntr + 1 >= Gap[k]
      BY DEF InitInv, GapCounted
    <3>5. state = "S_OCD_WAIT" => age + 1 >= Gap[k] /\ bus = "DES"
      BY DEF InitInv, OcdCounted, LogFollows, AfterCommand, Issued, Gap
    <3>6. state = "S_CKE" => k = 0
      BY DEF Issued
    <3> HIDE DEF k
    <3>7. cntr' \in Nat /\ age' \in Nat
      <4>1. cntr' \in 0..MaxCntr /\ age' \in Nat
        BY <1>7, <1>8, Zenon DEF TypeOK, AgeType
      <4> QED BY <4>1, Counts
    <3>8. state' \in CommandStates => /\ cntr' >= Gap[k + 1]
                                      /\ k # 0 => age' + 1 >= Gap[k]
      <4>1. SUFFICES ASSUME state' \in CommandStates, k # 0
                     PROVE  age' + 1 >= Gap[k]
        BY <1>2, <3>1
      <4>2. CASE state \in AfterCommand
        BY <4>2, <1>4, <1>5, <1>6, <2>1, <2>3, <3>4, GapTypes DEF Older
      <4>3. CASE state = "S_OCD_WAIT"
        BY <4>1, <4>3, <1>2, <1>4, <1>5, <2>1, <3>5, GapTypes DEF Older
      <4> QED BY <1>2, <3>1, <3>6, <4>1, <4>2, <4>3
    <3> QED BY <1>1, <1>3, <3>2, <3>3, <3>7, <3>8 DEF GapCounted
  <2> QED BY <2>2, <2>3
<1>a. /\ bus = "DES" => age' = age + 1 \/ (age' = age /\ age >= AgeCap)
      /\ bus # "DES" => age' = 0
      /\ cke => ckeAge' = ckeAge + 1 \/ (ckeAge' = ckeAge /\ ckeAge >= AgeCap)
      /\ ~cke => ckeAge' = 0
      /\ AgeCap \in Nat
  BY <1>4, <1>5, GapTypes DEF Older
<1>b. cke \in BOOLEAN /\ cntr \in Nat
  BY <1>4, Counts DEF InitInv, TypeOK
<1>12. OcdCounted'
  <2>1. OCD_WAIT_CYCLES \in Nat /\ OCD_WAIT_CYCLES <= AgeCap
        /\ TMRD_CYCLES \in Nat /\ TMRD_CYCLES <= AgeCap
    BY Counts DEF AgeCap
  <2>2. state = "S_OCD_WAIT" =>
          /\ bus = "DES"
          /\ age + 1 >= TMRD_CYCLES /\ age + cntr >= OCD_WAIT_CYCLES
    BY <1>5 DEF InitInv, OcdCounted, LogFollows, AfterCommand
  <2>3. state = "S_EMRS1_2W" =>
          IF bus = "DES" THEN age + cntr + 2 >= TMRD_CYCLES ELSE cntr + 1 >= TMRD_CYCLES
    BY DEF InitInv, GapCounted, AfterCommand, WaitStates, Issued, Gap
  <2>4. CASE cntr # 0
    <3>1. state' = state /\ cntr' = cntr - 1
      BY <1>1, <2>4 DEF CntrAfter
    <3>2. state # "S_FINAL_PRE"
      BY <1>1 DEF WaitStates
    <3>3. state' = "S_OCD_WAIT" =>
            age' + 1 >= TMRD_CYCLES /\ age' + cntr' >= OCD_WAIT_CYCLES
      BY <1>a, <1>b, <1>4, <2>1, <2>2, <2>4, <3>1
    <3> QED BY <1>1, <3>1, <3>2, <3>3 DEF OcdCounted
  <2>5. CASE cntr = 0
    <3>1. state' = Successor[state] /\ cntr' = Load[state]
      BY <1>1, <2>5 DEF CntrAfter
    <3>2. state' = "S_OCD_WAIT" =>
            state = "S_EMRS1_2W" /\ cntr' = OCD_WAIT_CYCLES
      BY <1>1, <3>1 DEF WaitStates, Successor, Load
    <3>3. state' = "S_FINAL_PRE" /\ OcdWait => state = "S_OCD_WAIT"
      BY <1>1, <3>1 DEF WaitStates, Successor
    <3>4. state' = "S_OCD_WAIT" => age' + 1 >= TMRD_CYCLES
      BY <1>4, <1>a, <2>1, <2>3, <2>5, <3>2
    <3>5. state' = "S_OCD_WAIT" => age' + cntr' >= OCD_WAIT_CYCLES
      <4>1. age' \in Nat
        BY <1>8 DEF AgeType
      <4>2. \A x, y \in Nat : x + y >= y
        OBVIOUS
      <4> QED BY <2>1, <3>2, <4>1, <4>2
    <3>6. state' = "S_FINAL_PRE" /\ OcdWait => age' >= OCD_WAIT_CYCLES
      BY <1>4, <1>a, <2>1, <2>2, <2>5, <3>3
    <3> QED BY <1>1, <3>4, <3>5, <3>6 DEF OcdCounted
  <2> QED BY <2>4, <2>5
<1>13. CkeCounted'
  <2>1. TXSR_CYCLES \in 0..MaxCntr /\ TXSR_CYCLES \in Nat /\ TXSR_CYCLES <= AgeCap
    BY Counts DEF AgeCap
  <2>2. state = "S_CKE" => IF cke THEN ckeAge + cntr + 1 >= TXSR_CYCLES
                                  ELSE cntr >= TXSR_CYCLES
    BY DEF InitInv, CkeCounted
  <2>3. state' = "S_PRE" => state = "S_CKE" /\ cntr = 0
    BY <1>1 DEF WaitStates, Successor
  <2>4. state' = "S_CKE" =>
          \/ state = "S_CKE" /\ cntr # 0 /\ cntr' = cntr - 1
          \/ state = "S_PWRUP" /\ cntr' = TXSR_CYCLES
    BY <1>1 DEF WaitStates, Successor, Load, CntrAfter
  <2>5. state' = "S_CKE" => IF cke' THEN ckeAge' + cntr' + 1 >= TXSR_CYCLES
                                    ELSE cntr' >= TXSR_CYCLES
    <3>1. CASE state = "S_CKE" /\ cntr # 0 /\ cntr' = cntr - 1
      <4>1. cke'
        BY <1>1, <3>1
      <4>2. ckeAge' + cntr' + 1 >= TXSR_CYCLES
        BY <1>4, <1>a, <1>b, <2>1, <2>2, <3>1
      <4> QED BY <4>1, <4>2
    <3>2. CASE state = "S_PWRUP" /\ cntr' = TXSR_CYCLES
      <4>1. ~cke'
        BY <1>1, <3>2
      <4> QED BY <2>1, <3>2, <4>1
    <3> QED BY <2>4, <3>1, <3>2
  <2>6. state' = "S_PRE" => cke' /\ ckeAge' >= TXSR_CYCLES
    <3>1. state' = "S_PRE" => cke'
      BY <1>1, <2>3
    <3>2. state' = "S_PRE" => ckeAge' >= TXSR_CYCLES
      BY <1>4, <1>a, <2>1, <2>2, <2>3
    <3> QED BY <3>1, <3>2
  <2> QED BY <1>1, <2>5, <2>6 DEF CkeCounted
<1> QED BY <1>7, <1>8, <1>10, <1>11, <1>12, <1>13 DEF InitInv

(* Before the sequence and after it the log stands still.                    *)
LEMMA OthersKeep ==
  ASSUME InitInv, Watch, (\E init \in BOOLEAN : Idle(init)) \/ Ready
  PROVE  InitInv'
<1>a. state \in {"S_IDLE", "S_READY"} /\ state' \in {"S_IDLE", "S_PWRUP", "S_READY"}
      /\ Issued[state'] = Issued[state] /\ bus' = "DES"
  BY DEF Idle, Ready, Issued
<1>b. ready' => state' = "S_READY"
  BY DEF Idle, Ready
<1>c. cntr' \in 0..MaxCntr
  BY Counts, CounterTypes DEF InitInv, Idle, Ready
<1>d. {ready', cke', odt', ts_con'} \subseteq BOOLEAN
  BY DEF InitInv, TypeOK, Idle, Ready
<1>1. /\ state \in {"S_IDLE", "S_READY"} /\ state' \in {"S_IDLE", "S_PWRUP", "S_READY"}
      /\ Issued[state'] = Issued[state]
      /\ bus' = "DES" /\ (ready' => state' = "S_READY")
      /\ cntr' \in 0..MaxCntr
      /\ {ready', cke', odt', ts_con'} \subseteq BOOLEAN
  BY <1>a, <1>b, <1>c, <1>d
<1>2. bus = "DES" /\ log = SubSeq(PowerUpSequence, 1, Issued[state])
  BY <1>1, Disjoint DEF InitInv, LogFollows
<1>3. log' = log /\ age' \in Nat /\ ckeAge' \in Nat
  BY <1>2, OlderEnough, GapTypes DEF InitInv, AgeType, Watch
<1>4. state' \notin CommandStates \cup AfterCommand \cup {"S_OCD_WAIT", "S_CKE"}
  BY <1>1, Disjoint DEF AfterCommand, CommandStates, CommandOf
<1>5. TypeOK' /\ AgeType' /\ LogFollows'
  BY <1>1, <1>2, <1>3 DEF TypeOK, AgeType, LogFollows, States, WaitStates
<1>6. GapCounted' /\ OcdCounted' /\ CkeCounted'
  BY <1>1, <1>4 DEF GapCounted, OcdCounted, CkeCounted
<1> QED BY <1>5, <1>6 DEF InitInv

(* Nothing has been issued at power-up,                                      *)
LEMMA InitHolds == TimingInit => InitInv
<1> SUFFICES ASSUME TimingInit PROVE InitInv
  OBVIOUS
<1>1. /\ state = "S_IDLE" /\ cntr = 0 /\ bus = "DES" /\ log = <<>> /\ ~ready
      /\ {ready, cke, odt, ts_con} \subseteq BOOLEAN
      /\ age \in Nat /\ ckeAge \in Nat
  BY GapTypes DEF TimingInit, Init
<1>2. log = SubSeq(PowerUpSequence, 1, Issued[state])
  BY <1>1 DEF PowerUpSequence, Issued
<1>3. state \notin CommandStates \cup AfterCommand \cup {"S_OCD_WAIT", "S_CKE"}
  BY <1>1, Disjoint
<1> QED BY <1>1, <1>2, <1>3, Counts
        DEF InitInv, TypeOK, AgeType, LogFollows, GapCounted, OcdCounted, CkeCounted, States

(* and after a reset the device starts from scratch.                         *)
LEMMA ResetKeeps == WatchedReset => InitInv'
<1> SUFFICES ASSUME WatchedReset PROVE InitInv'
  OBVIOUS
<1>1. /\ state' = "S_IDLE" /\ cntr' = 0 /\ bus' = "DES" /\ log' = <<>> /\ ~ready'
      /\ {ready', cke', odt', ts_con'} \subseteq BOOLEAN
      /\ age' \in Nat /\ ckeAge' \in Nat
  BY GapTypes DEF WatchedReset, Reset, Forget
<1>2. log' = SubSeq(PowerUpSequence, 1, Issued[state'])
  BY <1>1 DEF PowerUpSequence, Issued
<1>3. state' \notin CommandStates \cup AfterCommand \cup {"S_OCD_WAIT", "S_CKE"}
  BY <1>1, Disjoint
<1> QED BY <1>1, <1>2, <1>3, Counts
        DEF InitInv, TypeOK, AgeType, LogFollows, GapCounted, OcdCounted, CkeCounted, States

(* The inductive invariant.                                                  *)
LEMMA InitInvariant == TimingSpec => []InitInv
<1>1. InitInv /\ UNCHANGED <<vars, history>> => InitInv'
  BY DEF vars, history, InitInv, TypeOK, AgeType, LogFollows, GapCounted, OcdCounted,
     CkeCounted
<1>2. InitInv /\ [WatchedClock \/ WatchedReset]_<<vars, history>> => InitInv'
  BY <1>1, CommandKeeps, WaitKeeps, OthersKeep, ResetKeeps DEF WatchedClock, Clock
<1> QED BY InitHolds, <1>2, PTL DEF TimingSpec

-----------------------------------------------------------------------------
(* The types of the power-up sequencer.                                      *)
THEOREM TypeCorrect == TimingSpec => []TypeOK
<1>1. InitInv => TypeOK
  BY DEF InitInv
<1> QED BY <1>1, InitInvariant, PTL

(* The device sees the power-up commands in order, whatever the waits and    *)
(* the resets, and READY rises only after the whole sequence.                *)
THEOREM PowerUpInOrder == TimingSpec => []SequenceInOrder
<1>1. ASSUME InitInv PROVE SequenceInOrder
  <2>1. Issued[state] \in 0..10
    BY <1>1 DEF InitInv, TypeOK, States, WaitStates, CommandStates, CommandOf, Issued
  <2>2. bus # "DES" => Issued[state] # 0
    BY <1>1 DEF InitInv, LogFollows, AfterCommand, WaitStates, Issued
  <2>3. PICK k \in 0..10 : log = SubSeq(PowerUpSequence, 1, k)
    <3>1. CASE bus = "DES"
      BY <1>1, <2>1, <3>1 DEF InitInv, LogFollows
    <3>2. CASE bus # "DES"
      <4>1. Issued[state] - 1 \in 0..10
        BY <2>1, <2>2, <3>2
      <4> QED BY <1>1, <3>2, <4>1 DEF InitInv, LogFollows
    <3> QED BY <3>1, <3>2
  <2>4. Len(SubSeq(PowerUpSequence, 1, k)) = k
    BY PrefixLength
  <2>5. log = SubSeq(PowerUpSequence, 1, Len(log))
    BY <2>3, <2>4
  <2>6. ready => log = PowerUpSequence
    <3>1. SUFFICES ASSUME ready PROVE log = PowerUpSequence
      OBVIOUS
    <3>2. state = "S_READY" /\ bus = "DES"
      BY <1>1, <3>1 DEF InitInv, LogFollows, AfterCommand, WaitStates
    <3>3. log = SubSeq(PowerUpSequence, 1, 10)
      BY <1>1, <3>2 DEF InitInv, LogFollows, Issued
    <3>4. SubSeq(PowerUpSequence, 1, 10) = PowerUpSequence
      <4>1. PowerUpSequence \in Seq(BusCommands) /\ Len(PowerUpSequence) = 10
        BY DEF PowerUpSequence, BusCommands
      <4> QED BY <4>1, SubSeqFull
    <3> QED BY <3>3, <3>4
  <2> QED BY <2>5, <2>6 DEF SequenceInOrder
<1> QED BY <1>1, InitInvariant, PTL

(* CKE has settled before the first command.                                 *)
THEOREM FirstCommandWaitsForCke == TimingSpec => []CkeSettles
<1>1. ASSUME InitInv PROVE CkeSettles
  <2>1. SUFFICES ASSUME bus # "DES", log = <<>> PROVE ckeAge >= TXSR_CYCLES
    BY DEF CkeSettles, NewCommand
  <2>2. /\ state \in AfterCommand /\ Issued[state] \in 1..10
        /\ log = SubSeq(PowerUpSequence, 1, Issued[state] - 1)
    BY <1>1, <2>1 DEF InitInv, LogFollows, AfterCommand, WaitStates, Issued
  <2>3. Issued[state] - 1 \in 0..10 /\ Len(log) = 0
    BY <2>1, <2>2
  <2>4. Issued[state] = 1
    BY <2>2, <2>3, PrefixLength
  <2>5. state = "S_TRP"
    BY <2>2, <2>4 DEF AfterCommand, WaitStates, Issued
  <2> QED BY <1>1, <2>1, <2>5 DEF InitInv, CkeCounted
<1> QED BY <1>1, InitInvariant, PTL

(* What a command on the pins finds in the log.                              *)
LEMMA CommandFindsLog ==
  ASSUME InitInv, NewCommand, log # <<>>
  PROVE  LET k == Issued[state] - 1
         IN  /\ k \in 1..9 /\ Last = PowerUpSequence[k] /\ age >= Gap[k]
             /\ k = 9 /\ OcdWait => age >= OCD_WAIT_CYCLES
<1>1. /\ bus # "DES" /\ state \in AfterCommand /\ Issued[state] \in 1..10
      /\ log = SubSeq(PowerUpSequence, 1, Issued[state] - 1)
  BY DEF NewCommand, InitInv, LogFollows, AfterCommand, WaitStates, Issued
<1>2. \A k \in 0..9 : /\ Len(SubSeq(PowerUpSequence, 1, k)) = k
                      /\ SubSeq(PowerUpSequence, 1, 0) = <<>>
                      /\ k # 0 => SubSeq(PowerUpSequence, 1, k)[k] = PowerUpSequence[k]
  BY DEF PowerUpSequence
<1>3. Issued[state] - 1 \in 1..9
  BY <1>1, <1>2
<1>4. Last = PowerUpSequence[Issued[state] - 1]
  BY <1>1, <1>2, <1>3 DEF Last
<1>5. age >= Gap[Issued[state] - 1]
  BY <1>1, <1>3 DEF InitInv, GapCounted
<1>6. Issued[state] - 1 = 9 /\ OcdWait => age >= OCD_WAIT_CYCLES
  BY <1>1 DEF InitInv, OcdCounted
<1> QED BY <1>3, <1>4, <1>5, <1>6

(* Every mode register write is given tMRD and every REFRESH tRFC.           *)
THEOREM CommandsKeepGaps == TimingSpec => []GapsKept
<1>1. ASSUME InitInv PROVE GapsKept
  <2>1. SUFFICES ASSUME NewCommand, log # <<>>
                 PROVE  /\ Last \in {"EMRS2", "EMRS3", "EMRS1_INIT", "MRS_RST", "EMRS1_FINAL"}
                             => age >= TMRD_CYCLES
                        /\ Last = "REF" => age >= TRFC_CYCLES
                        /\ Last = "MRS_FINAL" => age >= TMRD_DLL_CYCLES
    BY DEF GapsKept
  <2> DEFINE k == Issued[state] - 1
  <2>2. k \in 1..9 /\ Last = PowerUpSequence[k] /\ age >= Gap[k]
    BY <1>1, <2>1, CommandFindsLog
  <2> HIDE DEF k
  <2> QED BY <2>2 DEF PowerUpSequence, Gap
<1> QED BY <1>1, InitInvariant, PTL

(* The calibration wait is kept, when there is one.                          *)
THEOREM CalibrationSettles == TimingSpec => []OcdSettles
<1>1. ASSUME InitInv PROVE OcdSettles
  <2>1. SUFFICES ASSUME NewCommand, log # <<>>, Last = "EMRS1_FINAL", OCD_CALIB_EN
                 PROVE  age >= OCD_WAIT_CYCLES
    BY DEF OcdSettles
  <2> DEFINE k == Issued[state] - 1
  <2>2. /\ k \in 1..9 /\ Last = PowerUpSequence[k]
        /\ k = 9 /\ OcdWait => age >= OCD_WAIT_CYCLES
    BY <1>1, <2>1, CommandFindsLog
  <2>3. age \in Nat
    BY <1>1 DEF InitInv, AgeType
  <2> HIDE DEF k
  <2>4. k = 9
    BY <2>1, <2>2 DEF PowerUpSequence
  <2> QED BY <2>1, <2>2, <2>3, <2>4 DEF OcdWait
<1> QED BY <1>1, InitInvariant, PTL
=============================================================================
