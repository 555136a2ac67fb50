-------------------------- MODULE Controller_proofs --------------------------
(***************************************************************************)
(* The command path of the controller is a first-in first-out queue, for   *)
(* every depth of the FIFO, every timing and every host.                   *)
(*                                                                         *)
(* A clock of the engine has one of four shapes: it asks for a command, it *)
(* waits in GETCMD, it latches, or it has nothing to do with commands.     *)
(* Each is a step of the queue because GETCMD outlasts the latency of the  *)
(* FIFO: its counter is not zero while the pop is under way.               *)
(*                                                                         *)
(* With the host of ControllerHost: the words owed to it, the words it     *)
(* pops, and the words it puts for its writes.                             *)
(***************************************************************************)
EXTENDS ControllerHost, ProtocolEngine_proofs, SequenceTheorems, FiniteSetTheorems, FunctionTheorems

\* The four shapes.
Asks ==
  /\ st = "IDLE" /\ st' = "GETCMD" /\ cnt' = CNT_GETCMD
  /\ strobe'["getCmd"] /\ UNCHANGED cur

Waits ==
  /\ st = "GETCMD" /\ st' = "GETCMD"
  /\ ~strobe'["getCmd"] /\ UNCHANGED cur

Takes == st = "GETCMD" /\ st' = "ACTIVATE" /\ cnt = 0 /\ ~strobe'["getCmd"]

Elsewhere ==
  /\ st # "GETCMD" /\ st' # "GETCMD"
  /\ ~strobe'["getCmd"] /\ UNCHANGED cur

\* The pop is under way only in GETCMD, before its counter is 0, and only if
\* there is a command to pop.
PortInv ==
  /\ cmdQ \in Seq(CommandEntries)
  /\ cmdOut \in CommandEntries
  /\ strobe["getCmd"] => st = "GETCMD" /\ cnt # 0 /\ cmdQ # <<>>

-----------------------------------------------------------------------------
(***************************************************************************)
(* The shapes of the engine's arms.                                        *)
(***************************************************************************)
(* Raising other strobes does not pop the command FIFO.                      *)
LEMMA NoPop ==
  ASSUME NEW S, "getCmd" \notin S, Raise(S)
  PROVE  ~strobe'["getCmd"]
  BY DEF Raise, StrobeNames

(* IDLE asks in one branch.                                                  *)
LEMMA IdleShape ==
  ASSUME IdleArms
  PROVE  Asks \/ Elsewhere
<1>1. Idle
  BY Zenon DEF IdleArms, StartSelfRefresh, StartDll, StartPowerDown, StartRefresh,
     StartCommand, StayIdle
<1>2. st = "IDLE" /\ UNCHANGED cur
  BY <1>1 DEF Idle, burst
<1>3. CASE StartCommand
  <2>1. strobe'["getCmd"]
    BY <1>3 DEF StartCommand, Raise, StrobeNames
  <2>2. st' = "GETCMD" /\ cnt' = CNT_GETCMD
    BY <1>3 DEF StartCommand, Goto
  <2> QED BY <1>2, <2>1, <2>2 DEF Asks
<1>4. CASE StartSelfRefresh \/ StartDll \/ StartPowerDown \/ StartRefresh \/ StayIdle
  <2>1. Raise({})
    BY <1>4, Zenon DEF StartSelfRefresh, StartDll, StartPowerDown, StartRefresh, StayIdle
  <2>2. st' # "GETCMD"
    BY <1>4 DEF StartSelfRefresh, StartDll, StartPowerDown, StartRefresh, StayIdle, Goto
  <2> QED BY <1>2, <2>1, <2>2, NoPop DEF Elsewhere
<1> QED BY <1>3, <1>4 DEF IdleArms

(* GETCMD waits or latches.                                                  *)
LEMMA GetCommandShape ==
  ASSUME GetCommand
  PROVE  Waits \/ Takes
<1>1. ~strobe'["getCmd"]
  BY NoPop DEF GetCommand
<1> QED BY <1>1 DEF GetCommand, Goto, Waits, Takes

(* Activating a row.                                                         *)
LEMMA ActivateShape ==
  ASSUME ActivateHold \/ ActivateScalar \/ ActivateBlock \/ ActivateDrop
  PROVE  Elsewhere
<1>1. Activating
  BY Zenon DEF ActivateHold, ActivateScalar, ActivateBlock, ActivateDrop
<1>2. st = "ACTIVATE" /\ Raise({}) /\ UNCHANGED cur
  BY <1>1 DEF Activating
<1>3. st' # "GETCMD"
  BY DEF ActivateHold, ActivateScalar, ActivateBlock, ActivateDrop, Goto
<1> QED BY <1>2, <1>3, NoPop DEF Elsewhere

(* The arms that leave the burst's registers alone.                          *)
LEMMA SequencingShape ==
  ASSUME TypeOK,
         \/ WaitTrcd \/ BlockReadIssue \/ DefaultArm
         \/ RefreshPrecharge \/ RefreshWaitTrp \/ RefreshWaitTrfc
         \/ DllPrecharge \/ DllWaitTrp \/ DllModeSet
  PROVE  Elsewhere
<1>1. Sequencing
  BY Zenon DEF WaitTrcd, BlockReadIssue, DefaultArm, RefreshPrecharge,
     RefreshWaitTrp, RefreshWaitTrfc, DllPrecharge, DllWaitTrp, DllModeSet
<1>2. Raise({}) /\ UNCHANGED cur
  BY <1>1 DEF Sequencing, burst
<1>3. next_state_after_trcd # "GETCMD"
  BY DEF TypeOK, BurstType
<1>4. st # "GETCMD" /\ st' # "GETCMD"
  BY <1>3 DEF Dwell, Goto, WaitTrcd, BlockReadIssue, DefaultArm, RefreshPrecharge,
     RefreshWaitTrp, RefreshWaitTrfc, DllPrecharge, DllWaitTrp, DllModeSet
<1> QED BY <1>2, <1>4, NoPop DEF Elsewhere

(* Data phases: their strobes are those of the data FIFOs.                   *)
LEMMA DataShape ==
  ASSUME \/ IssueRead \/ ScalarRead \/ ScalarReadEnd \/ BlockRead
         \/ IssueWrite \/ ScalarWrite \/ WriteData \/ WriteEnd
         \/ BlockReadActivate \/ BlockWriteActivate
         \/ BlockWriteIssue \/ BlockWrite
  PROVE  Elsewhere
<1>1. UNCHANGED cur
  BY DEF IssueRead, ScalarRead, ScalarReadEnd, BlockRead, IssueWrite, ScalarWrite,
     WriteLatency, WriteData, WriteEnd, BlockReadActivate, BlockWriteActivate,
     BlockActivate, BlockWriteIssue, BlockWrite, burst
<1>2. ~strobe'["getCmd"]
  <2>1. \E S : Raise(S) /\ "getCmd" \notin S
    <3>1. CASE \/ IssueRead \/ IssueWrite \/ WriteEnd \/ BlockReadActivate
               \/ BlockWriteActivate \/ BlockWriteIssue
      <4>1. Raise({})
        BY <3>1, Zenon DEF IssueRead, IssueWrite, WriteEnd, BlockReadActivate,
           BlockWriteActivate, BlockActivate, BlockWriteIssue
      <4> QED BY <4>1
    <3>2. CASE ScalarRead \/ ScalarReadEnd \/ BlockRead \/ ScalarWrite \/ BlockWrite
      <4>1. \/ Raise({}) \/ Raise({"listen", "put"}) \/ Raise({"put"})
            \/ Raise({"listen"}) \/ Raise({"ts", "getData"})
        BY <3>2, Zenon DEF ScalarRead, ScalarReadEnd, BlockRead, ScalarWrite,
           BlockWrite, WriteLatency
      <4> QED BY <4>1
    <3>3. CASE WriteData
      <4> DEFINE S == (IF cnt # 0 THEN {"ts"} ELSE {})
                        \cup (IF burst_cnt < 7 THEN {"getData"} ELSE {})
      <4>1. Raise(S)
        BY <3>3 DEF WriteData
      <4>2. "getCmd" \notin S
        OBVIOUS
      <4> QED BY <4>1, <4>2
    <3> QED BY <3>1, <3>2, <3>3
  <2> QED BY <2>1, NoPop
<1>3. st # "GETCMD" /\ st' # "GETCMD"
  BY DEF Dwell, Goto, IssueRead, ScalarRead, ScalarReadEnd, BlockRead, IssueWrite,
     ScalarWrite, WriteLatency, WriteData, WriteEnd, BlockReadActivate,
     BlockWriteActivate, BlockActivate, BlockWriteIssue, BlockWrite
<1> QED BY <1>1, <1>2, <1>3 DEF Elsewhere

(* Refresh, DLL change and low power.                                        *)
LEMMA MaintenanceShape ==
  ASSUME TypeOK, MaintenanceArms
  PROVE  Elsewhere
<1>1. CASE Refresh \/ DllWaitTmrd \/ DllWaitTdllk
  <2>1. Raise({}) /\ UNCHANGED burst
    BY <1>1, Zenon DEF Refresh, DllWaitTmrd, DllWaitTdllk, DllArm
  <2>2. st # "GETCMD" /\ st' # "GETCMD"
    BY <1>1 DEF Dwell, Goto, Refresh, DllWaitTmrd, DllWaitTdllk
  <2> QED BY <2>1, <2>2, NoPop DEF Elsewhere, burst
<1>2. CASE \/ SelfRefreshPrecharge \/ SelfRefreshWaitTrp \/ SelfRefreshEnter
           \/ AbortSelfRefresh \/ SelfRefreshIdle \/ ExitSelfRefresh
           \/ SelfRefreshExitWait
           \/ PowerDownPrecharge \/ PowerDownWaitTrp \/ AbortPowerDown
           \/ PowerDownIdle \/ ExitPowerDown \/ PowerDownExitWait
  <2>1. LowPowerFrame
    BY <1>2, Zenon DEF SelfRefreshPrecharge, SelfRefreshWaitTrp, SelfRefreshEnter,
       AbortSelfRefresh, SelfRefreshIdle, ExitSelfRefresh, SelfRefreshExitWait,
       PowerDownPrecharge, PowerDownWaitTrp, AbortPowerDown, PowerDownIdle,
       ExitPowerDown, PowerDownExitWait, ExitWait, AbortEntry, LowPowerArm
  <2>2. Raise({}) /\ UNCHANGED cur
    BY <2>1 DEF LowPowerFrame, burst
  <2>3. st # "GETCMD" /\ st' # "GETCMD"
    BY <1>2 DEF Dwell, Goto, SelfRefreshPrecharge, SelfRefreshWaitTrp,
       SelfRefreshEnter, AbortSelfRefresh, SelfRefreshIdle, ExitSelfRefresh,
       SelfRefreshExitWait, PowerDownPrecharge, PowerDownWaitTrp, AbortPowerDown,
       PowerDownIdle, ExitPowerDown, PowerDownExitWait, ExitWait, AbortEntry
  <2> QED BY <2>2, <2>3, NoPop DEF Elsewhere
<1> QED BY <1>1, <1>2, SequencingShape, Zenon DEF MaintenanceArms

(* Every clock has one of the four shapes.                                   *)
LEMMA ClockShape ==
  ASSUME TypeOK, Clock
  PROVE  Asks \/ Waits \/ Takes \/ Elsewhere
<1>1. CASE IdleArms
  BY <1>1, IdleShape
<1>2. CASE CommandArms
  BY <1>2, GetCommandShape, ActivateShape, SequencingShape, DataShape, Zenon
     DEF CommandArms
<1>3. CASE MaintenanceArms
  BY <1>3, MaintenanceShape
<1> QED BY <1>1, <1>2, <1>3 DEF Clock

-----------------------------------------------------------------------------
(***************************************************************************)
(* The queue.                                                              *)
(***************************************************************************)
\* The words a put adds to the FIFO in this clock.
Accepted(command) == IF NOTFULL THEN command ELSE <<>>

(* What the FIFO does in a clock, as two cases.                              *)
LEMMA FifoClock ==
  ASSUME PortInv, NEW command \in AtMostOne(CommandEntries), CommandFifo(command)
  PROVE  /\ Accepted(command) \in AtMostOne(CommandEntries)
         /\ Accepted(command) \in Seq(CommandEntries)
         /\ Accepted(command) # <<>> => Len(cmdQ) < CMD_DEPTH
         /\ strobe["getCmd"] => /\ cmdQ' = Tail(cmdQ) \o Accepted(command)
                                /\ cmdOut' = Head(cmdQ)
         /\ ~strobe["getCmd"] => /\ cmdQ' = cmdQ \o Accepted(command)
                                 /\ cmdOut' = cmdOut
<1>1. Accepted(command) \in AtMostOne(CommandEntries)
  BY DEF Accepted, AtMostOne
<1>2. Accepted(command) \in Seq(CommandEntries)
  <2>1. CASE Accepted(command) = <<>>
    BY <2>1
  <2>2. CASE Accepted(command) # <<>>
    <3>1. PICK x \in CommandEntries : Accepted(command) = <<x>>
      BY <1>1, <2>2 DEF AtMostOne
    <3>2. <<x>> \in Seq(CommandEntries)
      OBVIOUS
    <3> QED BY <3>1, <3>2
  <2> QED BY <2>1, <2>2
<1>3. Accepted(command) # <<>> => Len(cmdQ) < CMD_DEPTH
  BY DEF Accepted, NOTFULL
<1>4. (IF Len(cmdQ) < CMD_DEPTH THEN Accepted(command) ELSE <<>>) = Accepted(command)
  BY DEF Accepted, NOTFULL
<1>5. cmdQ' = (IF strobe["getCmd"] /\ cmdQ # <<>> THEN Tail(cmdQ) ELSE cmdQ)
                \o Accepted(command)
  BY <1>4, Zenon DEF CommandFifo, Advanced, Accepted
<1>6. cmdOut' = IF strobe["getCmd"] /\ cmdQ # <<>> THEN Head(cmdQ) ELSE cmdOut
  BY Zenon DEF CommandFifo, Output
<1>7. strobe["getCmd"] => cmdQ # <<>>
  BY DEF PortInv
<1> QED BY <1>1, <1>2, <1>3, <1>5, <1>6, <1>7, Zenon

(* A queue that gains an entry or none, nothing being read, takes a step of  *)
(* the bounded queue or none.                                                *)
LEMMA Grows ==
  ASSUME NEW a \in AtMostOne(CommandEntries),
         a # <<>> => Len(pending) < CMD_DEPTH + 1,
         pending \in Seq(CommandEntries),
         pending' = pending \o a, executing' = executing
  PROVE  [Port!Next]_<<pending, executing>>
<1>1. CASE a = <<>>
  BY <1>1, ConcatEmptySeq
<1>2. CASE a # <<>>
  <2>1. PICK d \in CommandEntries : a = <<d>>
    BY <1>2 DEF AtMostOne
  <2>2. pending' = Append(pending, d)
    BY <2>1, AppendIsConcat
  <2>3. Port!Put(d)
    BY <1>2, <2>2 DEF Port!Put
  <2> QED BY <2>3 DEF Port!Next
<1> QED BY <1>1, <1>2

(* A queue of which the first entry is read, gaining an entry or none.       *)
LEMMA Shrinks ==
  ASSUME NEW a \in AtMostOne(CommandEntries),
         a # <<>> => Len(pending) < CMD_DEPTH + 1,
         NEW q \in Seq(CommandEntries), NEW e \in CommandEntries,
         pending = <<e>> \o q,
         pending' = q \o a, executing' = e
  PROVE  [Port!Next]_<<pending, executing>>
<1>1. pending # <<>> /\ Head(pending) = e /\ Tail(pending) = q
  OBVIOUS
<1>2. CASE a = <<>>
  <2>1. pending' = Tail(pending)
    BY <1>1, <1>2, ConcatEmptySeq
  <2>2. Port!Get
    BY <1>1, <2>1 DEF Port!Get
  <2> QED BY <2>2 DEF Port!Next
<1>3. CASE a # <<>>
  <2>1. PICK d \in CommandEntries : a = <<d>>
    BY <1>3 DEF AtMostOne
  <2>2. pending' = Append(Tail(pending), d)
    BY <1>1, <2>1, AppendIsConcat
  <2>3. Port!PutAndGet(d)
    BY <1>1, <1>3, <2>2 DEF Port!PutAndGet
  <2> QED BY <2>3 DEF Port!Next
<1> QED BY <1>2, <1>3

(* The command at work changes only where one is latched.                    *)
LEMMA SameExecuting ==
  ASSUME SeesCommand, UNCHANGED cur, ~Latches
  PROVE  executing' = executing
  BY DEF SeesCommand, executing

\* Entries a join the commands pending; the engine may take the first.
Joins(a) ==
  /\ ~Takes
  /\ pending \in Seq(CommandEntries)
  /\ pending' = pending \o a /\ executing' = executing

Serves(a) ==
  /\ Takes
  /\ \E q \in Seq(CommandEntries), e \in CommandEntries :
       pending = <<e>> \o q /\ pending' = q \o a /\ executing' = e

(* One clock: the invariant is kept, and the commands pending are joined or  *)
(* served.                                                                   *)
LEMMA PortClock ==
  ASSUME TypeOK, PortInv, NEW command \in AtMostOne(CommandEntries),
         Clock, EngineSeesQueues, CommandFifo(command)
  PROVE  /\ PortInv'
         /\ Accepted(command) # <<>> => Len(pending) < CMD_DEPTH + 1
         /\ Joins(Accepted(command)) \/ Serves(Accepted(command))
<1> DEFINE a == Accepted(command)
<1>1. /\ a \in AtMostOne(CommandEntries) /\ a \in Seq(CommandEntries)
      /\ a # <<>> => Len(cmdQ) < CMD_DEPTH
      /\ strobe["getCmd"] => cmdQ' = Tail(cmdQ) \o a /\ cmdOut' = Head(cmdQ)
      /\ ~strobe["getCmd"] => cmdQ' = cmdQ \o a /\ cmdOut' = cmdOut
  BY FifoClock
<1> SUFFICES /\ PortInv'
             /\ a # <<>> => Len(pending) < CMD_DEPTH + 1
             /\ Joins(a) \/ Serves(a)
  OBVIOUS
<1> HIDE DEF a
<1>2. /\ cmdQ \in Seq(CommandEntries) /\ cmdOut \in CommandEntries
      /\ Len(cmdQ) \in Nat
  BY DEF PortInv
<1>3. strobe["getCmd"] => st = "GETCMD" /\ cnt # 0 /\ cmdQ # <<>>
  BY DEF PortInv
<1>4. cmdQ' \in Seq(CommandEntries) /\ cmdOut' \in CommandEntries
  <2>1. CASE strobe["getCmd"]
    BY <1>1, <1>2, <1>3, <2>1, HeadTailProperties, ConcatProperties
  <2>2. CASE ~strobe["getCmd"]
    BY <1>1, <1>2, <2>2, ConcatProperties
  <2> QED BY <2>1, <2>2
<1>5. SeesCommand
  BY DEF EngineSeesQueues
<1>6. CASE Asks
  <2>1. ~strobe["getCmd"] /\ cmdQ # <<>>
    BY <1>3, <1>6 DEF Asks, EngineSeesQueues, SeesCommandWaiting, emptyBar_cmdFIFO
  <2>2. cmdQ' = cmdQ \o a /\ cmdQ' # <<>>
    BY <1>1, <1>2, <2>1, ConcatEqualIffEmpty
  <2>3. PortInv'
    BY <1>4, <1>6, <2>2 DEF Asks, PortInv, CNT_GETCMD
  <2>4. pending = cmdQ /\ pending' = cmdQ'
    BY <1>2, <1>4, <1>6, ConcatEmptySeq DEF Asks, pending, InFlight
  <2>5. executing' = executing
    BY <1>5, <1>6, SameExecuting DEF Asks, Latches
  <2>6. a # <<>> => Len(pending) < CMD_DEPTH + 1
    BY <1>1, <1>2, <2>4, ControllerAssumption
  <2>7. pending \in Seq(CommandEntries) /\ pending' = pending \o a
    BY <1>2, <2>2, <2>4, Zenon
  <2>8. ~Takes
    BY <1>6 DEF Asks, Takes
  <2> QED BY <2>3, <2>5, <2>6, <2>7, <2>8, Zenon DEF Joins
<1>7. CASE Waits
  <2>1. PortInv'
    BY <1>4, <1>7 DEF Waits, PortInv
  <2>2. pending' = <<cmdOut'>> \o cmdQ'
    BY <1>7 DEF Waits, pending, InFlight
  <2>3. executing' = executing
    BY <1>5, <1>7, SameExecuting DEF Waits, Latches
  <2>0. ~Takes
    BY <1>7 DEF Waits, Takes
  <2>4. CASE strobe["getCmd"]
    <3>1. pending = cmdQ
      BY <1>2, <2>4, ConcatEmptySeq DEF pending, InFlight
    <3>2. /\ Head(cmdQ) \in CommandEntries /\ Tail(cmdQ) \in Seq(CommandEntries)
          /\ cmdQ = <<Head(cmdQ)>> \o Tail(cmdQ)
      BY <1>2, <1>3, <2>4, HeadTailProperties
    <3>3. pending' = <<Head(cmdQ)>> \o (Tail(cmdQ) \o a)
      BY <1>1, <2>2, <2>4
    <3>4. <<Head(cmdQ)>> \in Seq(CommandEntries)
      BY <3>2
    <3>5. <<Head(cmdQ)>> \o (Tail(cmdQ) \o a) = (<<Head(cmdQ)>> \o Tail(cmdQ)) \o a
      BY <1>1, <3>2, <3>4, ConcatAssociative
    <3>6. pending' = pending \o a
      BY <3>1, <3>2, <3>3, <3>5, Zenon
    <3>7. a # <<>> => Len(pending) < CMD_DEPTH + 1
      BY <1>1, <1>2, <3>1, ControllerAssumption
    <3>8. pending \in Seq(CommandEntries)
      BY <1>2, <3>1
    <3> QED BY <2>0, <2>1, <2>3, <3>6, <3>7, <3>8, Zenon DEF Joins
  <2>5. CASE ~strobe["getCmd"]
    <3>1. pending = <<cmdOut>> \o cmdQ
      BY <1>7, <2>5 DEF Waits, pending, InFlight
    <3>2. pending \in Seq(CommandEntries) /\ Len(pending) = Len(cmdQ) + 1
      BY <1>2, <3>1, ConcatProperties
    <3>a. pending' = <<cmdOut>> \o (cmdQ \o a)
      BY <1>1, <2>2, <2>5, Zenon
    <3>b. <<cmdOut>> \in Seq(CommandEntries)
      BY <1>2
    <3>c. <<cmdOut>> \o (cmdQ \o a) = (<<cmdOut>> \o cmdQ) \o a
      BY <1>1, <1>2, <3>b, ConcatAssociative
    <3>3. pending' = pending \o a
      BY <3>1, <3>a, <3>c, Zenon
    <3>4. a # <<>> => Len(pending) < CMD_DEPTH + 1
      BY <1>1, <1>2, <3>2, ControllerAssumption
    <3> QED BY <2>0, <2>1, <2>3, <3>2, <3>3, <3>4, Zenon DEF Joins
  <2> QED BY <2>4, <2>5
<1>8. CASE Takes
  <2>1. ~strobe["getCmd"]
    BY <1>3, <1>8 DEF Takes
  <2>2. PortInv'
    BY <1>4, <1>8 DEF Takes, PortInv
  <2>3. pending = <<cmdOut>> \o cmdQ
    BY <1>8, <2>1 DEF Takes, pending, InFlight
  <2>4. pending' = cmdQ \o a
    BY <1>1, <1>4, <1>8, <2>1, ConcatEmptySeq DEF Takes, pending, InFlight
  <2>5. executing' = cmdOut
    <3>1. Latches
      BY <1>8 DEF Takes, Latches
    <3>2. /\ cur' = [cmd |-> cmdOut.cmd, sz |-> cmdOut.sz, bank |-> cmdOut.bank,
                     rank |-> cur'.rank]
          /\ curOp' = cmdOut.op
      BY <1>5, <3>1 DEF SeesCommand
    <3>3. executing' = [cmd |-> cmdOut.cmd, sz |-> cmdOut.sz, bank |-> cmdOut.bank,
                        op |-> cmdOut.op]
      BY <3>2 DEF executing
    <3> QED BY <1>2, <3>3 DEF CommandEntries
  <2>6. Len(pending) = Len(cmdQ) + 1
    BY <1>2, <2>3, ConcatProperties
  <2>7. a # <<>> => Len(pending) < CMD_DEPTH + 1
    BY <1>1, <1>2, <2>6, ControllerAssumption
  <2> QED BY <1>2, <1>8, <2>2, <2>3, <2>4, <2>5, <2>7, Zenon DEF Serves
<1>9. CASE Elsewhere
  <2>1. ~strobe["getCmd"]
    BY <1>3, <1>9 DEF Elsewhere
  <2>2. PortInv'
    BY <1>4, <1>9 DEF Elsewhere, PortInv
  <2>3. pending = cmdQ /\ pending' = cmdQ'
    BY <1>2, <1>4, <1>9, ConcatEmptySeq DEF Elsewhere, pending, InFlight
  <2>4. executing' = executing
    BY <1>5, <1>9, SameExecuting DEF Elsewhere, Latches
  <2>5. a # <<>> => Len(pending) < CMD_DEPTH + 1
    BY <1>1, <1>2, <2>3, ControllerAssumption
  <2>6. ~Takes
    BY <1>9 DEF Elsewhere, Takes
  <2>7. pending \in Seq(CommandEntries) /\ pending' = pending \o a
    BY <1>1, <1>2, <2>1, <2>3, Zenon
  <2> QED BY <2>2, <2>4, <2>5, <2>6, <2>7, Zenon DEF Joins
<1> QED BY <1>6, <1>7, <1>8, <1>9, ClockShape, Zenon


(* One clock: the invariant is kept, and the queue takes a step or none.     *)
LEMMA ClockStep ==
  ASSUME TypeOK, PortInv, NEW command \in AtMostOne(CommandEntries),
         Clock, EngineSeesQueues, CommandFifo(command)
  PROVE  PortInv' /\ [Port!Next]_<<pending, executing>>
<1> DEFINE a == Accepted(command)
<1>1. PortInv' /\ (a # <<>> => Len(pending) < CMD_DEPTH + 1)
  BY PortClock
<1>2. a \in AtMostOne(CommandEntries)
  BY FifoClock
<1>3. Joins(a) \/ Serves(a)
  BY PortClock
<1> HIDE DEF a
<1>4. CASE Joins(a)
  BY <1>1, <1>2, <1>4, Grows DEF Joins
<1>5. CASE Serves(a)
  BY <1>1, <1>2, <1>5, Shrinks DEF Serves
<1> QED BY <1>1, <1>3, <1>4, <1>5

-----------------------------------------------------------------------------
(* The absence of a command is an entry of the FIFO too.                     *)
LEMMA NoEntryIsEntry == NoEntry \in CommandEntries
  BY GeometryAssumption, ControllerAssumption DEF NoEntry, CommandEntries, Commands

(* At power-up there is nothing to latch.                                    *)
LEMMA PortInit == ControllerInit => PortInv /\ Port!Init
<1> SUFFICES ASSUME ControllerInit PROVE PortInv /\ Port!Init
  OBVIOUS
<1>1. /\ cmdQ = <<>> /\ cmdOut = NoEntry /\ curOp = 0 /\ st = "IDLE"
      /\ cur = [cmd |-> "NOP", sz |-> 0, bank |-> 0, rank |-> 0]
      /\ strobe = [x \in StrobeNames |-> FALSE]
  BY DEF ControllerInit, Init
<1>2. ~strobe["getCmd"]
  BY <1>1 DEF StrobeNames
<1>3. pending = <<>>
  BY <1>1 DEF pending, InFlight
<1>4. executing = NoEntry
  BY <1>1 DEF executing, NoEntry
<1> QED BY <1>1, <1>2, <1>3, <1>4, NoEntryIsEntry DEF PortInv, Port!Init

(* RESET clears FIFO, output register and command.                           *)
LEMMA ResetStep == ControllerReset => PortInv' /\ Port!Next
<1> SUFFICES ASSUME ControllerReset PROVE PortInv' /\ Port!Next
  OBVIOUS
<1>1. /\ cmdQ' = <<>> /\ cmdOut' = NoEntry /\ curOp' = 0 /\ st' = "IDLE"
      /\ cur' = [cmd |-> "NOP", sz |-> 0, bank |-> 0, rank |-> 0]
      /\ Raise({})
  BY DEF ControllerReset, Reset, Goto
<1>2. ~strobe'["getCmd"]
  BY <1>1, NoPop
<1>3. pending' = <<>>
  BY <1>1 DEF pending, InFlight
<1>4. executing' = NoEntry
  BY <1>1 DEF executing, NoEntry
<1>5. Port!Clear
  BY <1>3, <1>4, NoEntryIsEntry DEF Port!Clear
<1> QED BY <1>1, <1>2, <1>5, NoEntryIsEntry DEF PortInv, Port!Next

(* Every step of the controller, with any host.                              *)
LEMMA PortStep ==
  TypeOK /\ PortInv /\ [AnyHostNext]_<<vars, queues>>
    => PortInv' /\ [Port!Next]_<<pending, executing>>
<1> SUFFICES ASSUME TypeOK, PortInv, [AnyHostNext]_<<vars, queues>>
             PROVE  PortInv' /\ [Port!Next]_<<pending, executing>>
  OBVIOUS
<1>1. ASSUME NEW command \in AtMostOne(CommandEntries), NEW word, NEW fetching,
             ControllerClock(command, word, fetching)
      PROVE  PortInv' /\ [Port!Next]_<<pending, executing>>
  BY <1>1, ClockStep DEF ControllerClock
<1>2. CASE ControllerReset
  BY <1>2, ResetStep
<1>3. CASE UNCHANGED <<vars, queues>>
  BY <1>3 DEF vars, queues, burst, PortInv, pending, executing, InFlight
<1> QED BY <1>1, <1>2, <1>3 DEF AnyHostNext

(* The controller runs the engine.                                           *)
LEMMA RunsEngine == AnyHostSpec => Spec
<1>1. ControllerInit => Init
  BY DEF ControllerInit
<1>2. [AnyHostNext]_<<vars, queues>> => [Next]_vars
  BY Zenon DEF AnyHostNext, ControllerClock, ControllerReset, Next
<1> QED BY <1>1, <1>2, PTL DEF AnyHostSpec, Spec

(* Every accepted command is latched once and in order, for every depth of   *)
(* the FIFO, every timing, and every host: the controller's command path     *)
(* implements the bounded queue.                                             *)
THEOREM CommandPathIsQueue == AnyHostSpec => CommandsInOrder
<1>1. AnyHostSpec => []TypeOK
  BY RunsEngine, TypeCorrect, PTL
<1> QED BY <1>1, PortInit, PortStep, PTL DEF AnyHostSpec, CommandsInOrder, Port!Spec

-----------------------------------------------------------------------------
(***************************************************************************)
(* The host of ControllerHost is one of those hosts: what it puts are      *)
(* commands and numbered words.                                            *)
(***************************************************************************)
HostType ==
  /\ prepared \in CommandEntries
  /\ put \in Nat
  /\ next \in OpNumbers

(* Nothing is prepared at first.                                             *)
LEMMA HostTypeInit == HostInit => HostType
  BY HostAssumption, NoEntryIsEntry DEF HostInit, HostType

(* Choosing, putting, enqueueing and waiting keep the types.                 *)
LEMMA HostTypeNext ==
  HostType /\ [HostNext]_<<vars, queues, host>> => HostType'
<1> SUFFICES ASSUME HostType, [HostNext]_<<vars, queues, host>> PROVE HostType'
  OBVIOUS
<1>1. CASE Choose
  <2>1. PICK c \in HostCommands, b \in Banks :
          prepared' = [cmd |-> c[1], sz |-> c[2], bank |-> b, op |-> next]
    BY <1>1 DEF Choose
  <2>2. c[1] \in Commands /\ c[2] \in Sizes \cup {0}
    BY HostAssumption
  <2>3. prepared' \in CommandEntries
    BY <2>1, <2>2 DEF CommandEntries, HostType
  <2>4. put' \in Nat /\ next' \in OpNumbers
    BY <1>1, HostAssumption DEF Choose, Following
  <2> QED BY <2>3, <2>4 DEF HostType
<1>2. CASE Wait
  BY <1>2 DEF Wait, HostType
<1>3. CASE PutWord
  BY <1>3 DEF PutWord, HostType
<1>4. CASE Enqueue
  BY <1>4, NoEntryIsEntry DEF Enqueue, HostType
<1>5. CASE Hold
  BY <1>5 DEF Hold, HostType
<1>6. CASE HostReset
  BY <1>6, HostAssumption, NoEntryIsEntry DEF HostReset, HostType
<1>7. CASE UNCHANGED <<vars, queues, host>>
  BY <1>7 DEF host, HostType
<1>8. HostClock => Choose \/ Wait \/ PutWord \/ Enqueue \/ Hold
  BY Zenon DEF HostClock
<1> QED BY <1>1, <1>2, <1>3, <1>4, <1>5, <1>6, <1>7, <1>8, Zenon DEF HostNext

(* What the host offers in a clock.                                          *)
LEMMA HostOffers ==
  ASSUME HostType
  PROVE  /\ CommandPut \in AtMostOne(CommandEntries)
         /\ DataPut \in AtMostOne([op : OpNumbers, word : Nat])
<1>1. CommandPut \in AtMostOne(CommandEntries)
  BY DEF CommandPut, HostType, AtMostOne
<1>2. [op |-> prepared.op, word |-> put] \in [op : OpNumbers, word : Nat]
  BY DEF HostType, CommandEntries
<1>3. DataPut \in AtMostOne([op : OpNumbers, word : Nat])
  BY <1>2, Zenon DEF DataPut, AtMostOne
<1> QED BY <1>1, <1>3

(* Each step of the composition is a step of the controller with some host.  *)
LEMMA HostStep ==
  HostType /\ [HostNext]_<<vars, queues, host>> => [AnyHostNext]_<<vars, queues>>
<1> SUFFICES ASSUME HostType, [HostNext]_<<vars, queues, host>>
             PROVE  [AnyHostNext]_<<vars, queues>>
  OBVIOUS
<1>1. CASE HostClock
  <2>1. PICK fetching \in BOOLEAN : ControllerClock(CommandPut, DataPut, fetching)
    BY <1>1 DEF HostClock
  <2> QED BY <2>1, HostOffers DEF AnyHostNext
<1>2. CASE HostReset
  BY <1>2 DEF HostReset, AnyHostNext
<1>3. CASE UNCHANGED <<vars, queues, host>>
  BY <1>3
<1> QED BY <1>1, <1>2, <1>3 DEF HostNext

(* The commands of the modelled host are latched once and in order, for      *)
(* every depth, timing, choice of commands and policy of fetching.           *)
THEOREM HostCommandsInOrder == HostSpec => CommandsInOrder
<1>1. HostInit => ControllerInit
  BY DEF HostInit
<1>2. HostSpec => AnyHostSpec
  BY <1>1, HostTypeInit, HostTypeNext, HostStep, PTL DEF HostSpec, AnyHostSpec
<1> QED BY <1>2, CommandPathIsQueue, PTL

-----------------------------------------------------------------------------
(***************************************************************************)
(* The words the host pops.  A host that lets a clock pass between two     *)
(* fetches has at most one word under way, and DOUT still shows it when    *)
(* VALIDOUT comes.                                                         *)
(***************************************************************************)
PopInv ==
  /\ fetch_pop_r \in BOOLEAN /\ validout_r \in BOOLEAN
  /\ ~(fetch_pop_r /\ validout_r)
  /\ fetch_pop_r \/ validout_r => awaited = <<retOut>>
  /\ ~fetch_pop_r /\ ~validout_r => awaited = <<>>

(* Sequences of at most one word.                                            *)
LEMMA OneWord ==
  ASSUME NEW x
  PROVE  /\ <<x>> # <<>> /\ Head(<<x>>) = x /\ Tail(<<x>>) = <<>>
         /\ <<x>> \o <<>> = <<x>> /\ <<>> \o <<x>> = <<x>> /\ <<>> \o <<>> = <<>>
  OBVIOUS

LEMMA PopInit == HostInit => PopInv
  BY DEF HostInit, ControllerInit, PopInv

LEMMA PopReset == HostReset => PopInv'
  BY DEF HostReset, ControllerReset, PopInv

(* A clock in which a pop is announced or none is under way may pop again.   *)
LEMMA PopKept ==
  ASSUME ~Continuous, PopInv, HostClock
  PROVE  PopInv'
<1>1. PICK fetching \in BOOLEAN :
        /\ fetching => ~fetch_pop_r
        /\ ReturnFifo(fetching) /\ ValidOut(fetching) /\ Observe(fetching)
  BY Zenon DEF HostClock, Fetches, ControllerClock
<1>2. /\ fetch_pop_r' = Pops(fetching) /\ validout_r' = fetch_pop_r
      /\ retOut' = IF Pops(fetching) /\ retQ # <<>> THEN Head(retQ) ELSE retOut
      /\ awaited' = (IF validout_r /\ awaited # <<>> THEN Tail(awaited) ELSE awaited)
                      \o (IF Pops(fetching) /\ retQ # <<>> THEN <<Head(retQ)>> ELSE <<>>)
  BY <1>1, Zenon DEF ReturnFifo, ValidOut, Observe, Output
<1>3. /\ Pops(fetching) \in BOOLEAN
      /\ Pops(fetching) => retQ # <<>> /\ ~fetch_pop_r
  BY <1>1 DEF Pops
<1>4. CASE fetch_pop_r
  <2>1. ~Pops(fetching) /\ ~validout_r /\ awaited = <<retOut>>
    BY <1>3, <1>4 DEF PopInv
  <2>2. awaited' = <<retOut>> /\ retOut' = retOut
    BY <1>2, <2>1, OneWord
  <2> QED BY <1>2, <1>3, <1>4, <2>1, <2>2 DEF PopInv
<1>5. CASE ~fetch_pop_r
  <2>1. (IF validout_r /\ awaited # <<>> THEN Tail(awaited) ELSE awaited) = <<>>
    <3>1. CASE validout_r
      BY <1>5, <3>1, OneWord DEF PopInv
    <3>2. CASE ~validout_r
      BY <1>5, <3>2 DEF PopInv
    <3> QED BY <3>1, <3>2
  <2>2. CASE Pops(fetching)
    <3>1. awaited' = <<Head(retQ)>> /\ retOut' = Head(retQ)
      BY <1>2, <1>3, <2>1, <2>2, OneWord, Zenon
    <3> QED BY <1>2, <1>3, <1>5, <2>2, <3>1 DEF PopInv
  <2>3. CASE ~Pops(fetching)
    <3>1. awaited' = <<>>
      BY <1>2, <2>1, <2>3, OneWord, Zenon
    <3> QED BY <1>2, <1>3, <1>5, <2>3, <3>1 DEF PopInv
  <2> QED BY <2>2, <2>3
<1> QED BY <1>4, <1>5

(* VALIDOUT announces each popped word once, in order, while it is on DOUT,  *)
(* if the host never fetches in two clocks running: for every depth of the   *)
(* FIFOs, every timing and every choice of commands, across resets.          *)
THEOREM ValidoutAnnouncesItsWord ==
  ASSUME ~Continuous
  PROVE  HostSpec => []ValidoutPairs
<1>1. PopInv /\ [HostNext]_<<vars, queues, host>> => PopInv'
  <2>1. PopInv /\ UNCHANGED <<vars, queues, host>> => PopInv'
    BY DEF queues, host, PopInv
  <2> QED BY <2>1, PopKept, PopReset, Zenon DEF HostNext
<1>2. PopInv => ValidoutPairs
  BY OneWord DEF PopInv, ValidoutPairs
<1> QED BY <1>1, <1>2, PopInit, PTL DEF HostSpec
-----------------------------------------------------------------------------
(***************************************************************************)
(* The words the host is owed.  A scalar read that is pending, or at work  *)
(* and not yet pushing, will put nine words; in SCREND the counter says    *)
(* how many are left; a raised put strobe is one on its way.  With those   *)
(* that wait in the return FIFO they are exactly the words owed, and the   *)
(* host never lets itself be owed more than the FIFO holds.                *)
(***************************************************************************)
ReadsAt(s) == {i \in 1..Len(s) : s[i].cmd = "SCR"}
Reads(s) == Cardinality(ReadsAt(s))
IsRead(e) == IF e.cmd = "SCR" THEN 1 ELSE 0

\* Words the command at work has still to put.
Left ==
  IF st \in {"ACTIVATE", "WAIT_TRCD", "ISSUE_READ", "SCREAD"} /\ cur.cmd = "SCR" THEN 9
  ELSE IF st = "SCREND" THEN cnt ELSE 0

Putting == IF strobe["put"] THEN 1 ELSE 0
Popped(fetching) == IF Pops(fetching) THEN 1 ELSE 0

ReturnWords == [op : OpNumbers, word : Word3]

OwedInv ==
  /\ curOp \in OpNumbers
  /\ retQ \in Seq(ReturnWords)
  /\ owed \in Nat /\ owed <= RET_DEPTH
  /\ owed = Len(retQ) + Putting + 9 * Reads(pending) + Left

(* The reads of a sequence are finitely many.                                *)
LEMMA ReadsType ==
  ASSUME NEW s \in Seq(CommandEntries)
  PROVE  IsFiniteSet(ReadsAt(s)) /\ Reads(s) \in Nat
<1>1. IsFiniteSet(1..Len(s))
  BY FS_Interval
<1>2. ReadsAt(s) \in SUBSET (1..Len(s))
  BY DEF ReadsAt
<1>3. IsFiniteSet(ReadsAt(s))
  BY <1>1, <1>2, FS_Subset, Zenon
<1> QED BY <1>3, FS_CardinalityType DEF Reads

(* An empty sequence has none.                                               *)
LEMMA NoReads == Reads(<<>>) = 0
<1>1. ReadsAt(<<>>) = {}
  BY DEF ReadsAt
<1> QED BY <1>1, FS_EmptySet DEF Reads

(* An entry that joins at the end adds itself.                               *)
LEMMA ReadJoins ==
  ASSUME NEW s \in Seq(CommandEntries), NEW e \in CommandEntries
  PROVE  Reads(s \o <<e>>) = Reads(s) + IsRead(e)
<1> DEFINE t == s \o <<e>>
           n == Len(s) + 1
<1>1. Len(t) = n /\ t[n] = e /\ \A i \in 1..Len(s) : t[i] = s[i]
  OBVIOUS
<1>2. 1..n = (1..Len(s)) \cup {n} /\ n \notin 1..Len(s)
  OBVIOUS
<1>3. IsFiniteSet(ReadsAt(s)) /\ Reads(s) \in Nat
  BY ReadsType
<1> HIDE DEF t, n
<1>4. CASE e.cmd = "SCR"
  <2>1. ReadsAt(t) = ReadsAt(s) \cup {n}
    BY <1>1, <1>2, <1>4 DEF ReadsAt
  <2>2. n \notin ReadsAt(s)
    BY <1>2 DEF ReadsAt
  <2>3. Cardinality(ReadsAt(s) \cup {n}) = Cardinality(ReadsAt(s)) + 1
    BY <1>3, <2>2, FS_AddElement, Zenon
  <2> QED BY <1>4, <2>1, <2>3 DEF Reads, IsRead, t
<1>5. CASE e.cmd # "SCR"
  <2>1. ReadsAt(t) = ReadsAt(s)
    BY <1>1, <1>2, <1>5 DEF ReadsAt
  <2> QED BY <1>3, <1>5, <2>1 DEF Reads, IsRead, t
<1> QED BY <1>4, <1>5

(* An entry in front adds itself too.                                        *)
LEMMA ReadLeads ==
  ASSUME NEW q \in Seq(CommandEntries), NEW e \in CommandEntries
  PROVE  Reads(<<e>> \o q) = Reads(q) + IsRead(e)
<1> DEFINE s == <<e>> \o q
           Shifted == {i \in 2..(Len(q) + 1) : q[i - 1].cmd = "SCR"}
           f == [i \in ReadsAt(q) |-> i + 1]
<1>1. Len(s) = Len(q) + 1 /\ s[1] = e /\ \A i \in 2..(Len(q) + 1) : s[i] = q[i - 1]
  OBVIOUS
<1>2. 1..(Len(q) + 1) = {1} \cup 2..(Len(q) + 1) /\ 1 \notin 2..(Len(q) + 1)
  OBVIOUS
<1>3. IsFiniteSet(ReadsAt(q)) /\ Reads(q) \in Nat
  BY ReadsType
<1>4. ExistsBijection(ReadsAt(q), Shifted)
  <2>1. f \in [ReadsAt(q) -> Shifted]
    BY DEF ReadsAt
  <2>2. \A a, b \in ReadsAt(q) : f[a] = f[b] => a = b
    BY DEF ReadsAt
  <2>3. ASSUME NEW j \in Shifted PROVE \E i \in ReadsAt(q) : f[i] = j
    <3>1. j - 1 \in ReadsAt(q) /\ f[j - 1] = j
      BY <2>3 DEF ReadsAt
    <3> QED BY <3>1
  <2> HIDE DEF f, Shifted
  <2>4. f \in Bijection(ReadsAt(q), Shifted)
    BY <2>1, <2>2, <2>3, Fun_IsBij
  <2> QED BY <2>4, Zenon DEF ExistsBijection
<1>5. IsFiniteSet(Shifted) /\ Cardinality(Shifted) = Reads(q)
  BY <1>3, <1>4, FS_Bijection, Zenon DEF Reads
<1>6. 1 \notin Shifted
  OBVIOUS
<1>7. CASE e.cmd = "SCR"
  <2>1. ReadsAt(s) = Shifted \cup {1}
    BY <1>1, <1>2, <1>7 DEF ReadsAt
  <2> HIDE DEF Shifted
  <2>2. Cardinality(Shifted \cup {1}) = Cardinality(Shifted) + 1
    BY <1>5, <1>6, FS_AddElement, Zenon
  <2> QED BY <1>5, <1>7, <2>1, <2>2 DEF Reads, IsRead
<1>8. CASE e.cmd # "SCR"
  <2>1. ReadsAt(s) = Shifted
    BY <1>1, <1>2, <1>8 DEF ReadsAt
  <2> HIDE DEF Shifted
  <2> QED BY <1>3, <1>5, <1>8, <2>1 DEF Reads, IsRead
<1> QED BY <1>7, <1>8

(* What the engine has left it puts, one word in a clock and no other, until *)
(* it latches the next command.                                              *)
LEMMA LeftClock ==
  ASSUME TypeOK, CommandInv, Clock
  PROVE  /\ ~Takes => Left = Left' + Putting'
         /\ Takes => Left = 0 /\ Left' = 9 * IsRead(cur') /\ Putting' = 0
<1>1. Move /\ KeepsCommand
  BY ClockMoves
<1>2. strobe'["put"] <=> \/ st = "SCREAD" /\ cnt = 0
                         \/ st = "SCREND" /\ cnt # 0
  BY Strobes, Zenon
<1>3. /\ st \in States /\ cur.cmd \in Commands /\ cnt \in Nat
      /\ next_state_after_trcd \in
           {"IDLE", "ISSUE_READ", "ISSUE_WRITE", "BLR_ISSUE", "BLW_ISSUE"}
  BY StateTypes DEF TypeOK, ControlType, Word7
<1>4. CASE Takes
  <2>1. st = "GETCMD" /\ st' = "ACTIVATE"
    BY <1>4 DEF Takes
  <2>2. Left = 0 /\ Left' = (IF cur'.cmd = "SCR" THEN 9 ELSE 0) /\ Putting' = 0
    BY <1>2, <2>1 DEF Left, Putting
  <2> QED BY <1>4, <2>2 DEF IsRead
<1>5. CASE st = "GETCMD" /\ ~Takes
  <2>1. st' = "GETCMD"
    BY <1>5, ClockShape DEF Asks, Waits, Elsewhere
  <2> QED BY <1>2, <1>5, <2>1 DEF Left, Putting
<1>6. CASE st # "GETCMD"
  <2>1. cur' = cur
    BY <1>1, <1>6, Zenon DEF KeepsCommand
  <2>2. ~Takes
    BY <1>6 DEF Takes
  <2>3. CASE ActivateMove
    <3>1. Putting' = 0
      BY <1>2, <2>3 DEF ActivateMove, Putting
    <3>2. st' # "SCREND" /\ (cur.cmd = "SCR" => st' \in {"ACTIVATE", "WAIT_TRCD"})
      BY <2>3 DEF ActivateMove, Goto
    <3>3. st = "ACTIVATE"
      BY <2>3 DEF ActivateMove
    <3>4. Left' = Left /\ Left \in Nat
      BY <2>1, <3>2, <3>3 DEF Left
    <3> QED BY <2>2, <3>1, <3>4
  <2>4. CASE OpenMove
    <3>1. Putting' = 0
      BY <1>2, <2>4 DEF OpenMove, Moves, Dwell, Putting
    <3>2. st' # "SCREND" /\ st # "SCREND"
      BY <1>3, <2>4 DEF OpenMove, Moves, Dwell, Goto
    <3>3. CASE st = "WAIT_TRCD"
      <4>1. cur.cmd = "SCR" => st' \in {"WAIT_TRCD", "ISSUE_READ"}
        BY <2>4, <3>3 DEF OpenMove, Moves, Dwell, Goto, CommandInv, FirstColumn
      <4>2. Left' = Left /\ Left \in Nat
        BY <2>1, <3>2, <3>3, <4>1 DEF Left
      <4> QED BY <2>2, <3>1, <4>2
    <3>4. CASE st # "WAIT_TRCD"
      <4>1. st \in {"BLR_ACT", "BLW_ACT"}
        BY <2>4, <3>4 DEF OpenMove, Moves, Dwell
      <4>2. cur.cmd # "SCR"
        BY <4>1 DEF CommandInv, CommandsIn
      <4>3. Left' = Left /\ Left \in Nat
        BY <2>1, <3>2, <4>2 DEF Left
      <4> QED BY <2>2, <3>1, <4>3
    <3> QED BY <3>3, <3>4
  <2>5. CASE ReadMove
    <3>1. st \in {"ISSUE_READ", "SCREAD", "SCREND"} => cur.cmd = "SCR"
      BY DEF CommandInv, CommandsIn
    <3>2. st \in {"BLR_ISSUE", "BLR_READ", "SCRNLSN"} => cur.cmd # "SCR"
      BY DEF CommandInv, CommandsIn
    <3>3. CASE st = "SCREND"
      <4>1. CASE cnt = 0
        <5>1. st' = "IDLE" /\ Putting' = 0
          BY <1>2, <2>5, <3>1, <3>3, <4>1 DEF ReadMove, Moves, Dwell, Goto, Putting
        <5> QED BY <2>2, <3>3, <4>1, <5>1 DEF Left
      <4>2. CASE cnt # 0
        <5>1. st' = "SCREND" /\ cnt' = cnt - 1 /\ Putting' = 1
          BY <1>2, <1>3, <2>5, <3>3, <4>2 DEF ReadMove, Moves, Dwell, Goto, CntTick, Putting
        <5> QED BY <1>3, <2>2, <3>3, <5>1 DEF Left
      <4> QED BY <4>1, <4>2
    <3>4. CASE st = "SCREAD"
      <4>1. CASE cnt = 0
        <5>1. st' = "SCREND" /\ cnt' = 8 /\ Putting' = 1
          BY <1>2, <2>5, <3>4, <4>1 DEF ReadMove, Moves, Dwell, Goto, Putting
        <5> QED BY <2>2, <3>1, <3>4, <5>1 DEF Left
      <4>2. CASE cnt # 0
        <5>1. st' = "SCREAD" /\ Putting' = 0
          BY <1>2, <2>5, <3>4, <4>2 DEF ReadMove, Moves, Dwell, Goto, Putting
        <5> QED BY <2>1, <2>2, <3>4, <5>1 DEF Left
      <4> QED BY <4>1, <4>2
    <3>5. CASE st \notin {"SCREND", "SCREAD"}
      <4>1. Putting' = 0
        BY <1>2, <3>5 DEF Putting
      <4>2. st' # "SCREND" /\ (st = "ISSUE_READ" => st' = "SCREAD")
        BY <2>5, <3>5 DEF ReadMove, Moves, Dwell, Goto
      <4>3. st \in {"ISSUE_READ", "BLR_ISSUE", "BLR_READ", "SCRNLSN"}
        BY <2>5, <3>5 DEF ReadMove, Moves, Dwell
      <4>4. Left' = Left /\ Left \in Nat
        BY <2>1, <3>1, <3>2, <4>2, <4>3 DEF Left
      <4> QED BY <2>2, <4>1, <4>4
    <3> QED BY <3>3, <3>4, <3>5
  <2>6. CASE WriteMove
    BY <1>2, <2>2, <2>6 DEF WriteMove, Moves, Dwell, Goto, Left, Putting
  <2>7. CASE IdleMove \/ FetchMove
    BY <1>2, <1>6, <2>2, <2>7 DEF IdleMove, FetchMove, PreStates, Goto, Left, Putting
  <2>8. CASE RefreshMove \/ SelfRefreshMove \/ PowerDownMove \/ DllMove
    BY <1>2, <2>2, <2>8 DEF RefreshMove, SelfRefreshMove, PowerDownMove, DllMove,
       Moves, Dwell, Goto, Left, Putting
  <2> QED BY <1>1, <2>3, <2>4, <2>5, <2>6, <2>7, <2>8, Zenon DEF Move
<1> QED BY <1>4, <1>5, <1>6
(* The return FIFO with room for the word that is put.                       *)
LEMMA ReturnClock ==
  ASSUME retQ \in Seq(ReturnWords), curOp \in OpNumbers, readPtr \in Word3,
         strobe["put"] => Len(retQ) < RET_DEPTH,
         NEW fetching \in BOOLEAN, ReturnFifo(fetching)
  PROVE  /\ retQ' \in Seq(ReturnWords)
         /\ Len(retQ') = Len(retQ) + Putting - Popped(fetching)
         /\ Popped(fetching) = 1 => Len(retQ) > 0
<1> DEFINE rest == IF Pops(fetching) /\ retQ # <<>> THEN Tail(retQ) ELSE retQ
           word == [op |-> curOp, word |-> readPtr]
<1>1. rest \in Seq(ReturnWords) /\ Len(rest) = Len(retQ) - Popped(fetching)
  <2>1. CASE Pops(fetching)
    <3>1. retQ # <<>> /\ Popped(fetching) = 1
      BY <2>1 DEF Pops, Popped
    <3> QED BY <2>1, <3>1, HeadTailProperties
  <2>2. CASE ~Pops(fetching)
    BY <2>2 DEF Popped
  <2> QED BY <2>1, <2>2
<1>2. Popped(fetching) = 1 => Len(retQ) > 0
  BY DEF Popped, Pops
<1>3. retQ' = rest \o (IF Len(retQ) < RET_DEPTH
                        THEN (IF strobe["put"] THEN <<word>> ELSE <<>>) ELSE <<>>)
  BY Zenon DEF ReturnFifo, Advanced
<1>4. word \in ReturnWords /\ Len(retQ) \in Nat /\ Popped(fetching) \in {0, 1}
  BY DEF ReturnWords, Popped
<1> HIDE DEF rest, word
<1>5. CASE strobe["put"]
  <2>1. retQ' = Append(rest, word)
    BY <1>1, <1>3, <1>4, <1>5, AppendIsConcat
  <2> QED BY <1>1, <1>2, <1>4, <1>5, <2>1 DEF Putting
<1>6. CASE ~strobe["put"]
  <2>1. retQ' = rest
    BY <1>1, <1>3, <1>6, ConcatEmptySeq
  <2> QED BY <1>1, <1>2, <1>4, <1>6, <2>1 DEF Putting
<1> QED BY <1>5, <1>6

(* Summing up what is pending, left and put.                                 *)
LEMMA Gathered ==
  ASSUME NEW r \in Nat, NEW s, NEW l \in Nat, NEW k \in Nat, NEW p \in Nat, NEW g \in Nat,
         s = r + g, l = k + p
  PROVE  9 * s + k + p = 9 * r + l + 9 * g
  OBVIOUS

(* The words of the commands pending and at work change by those of the      *)
(* command accepted and the word put.                                        *)
LEMMA ComingClock ==
  ASSUME TypeOK, CommandInv, PortInv, HostType, curOp \in OpNumbers,
         Clock, EngineSeesQueues, CommandFifo(CommandPut)
  PROVE  /\ Reads(pending) \in Nat /\ Reads(pending') \in Nat
         /\ 9 * Reads(pending') + Left' + Putting' =
              9 * Reads(pending) + Left + (IF Enqueues THEN WordsOwed(prepared) ELSE 0)
         /\ curOp' \in OpNumbers
<1> DEFINE a == CommandPut
           gain == IF Enqueues THEN IsRead(prepared) ELSE 0
<1>1. CommandPut \in AtMostOne(CommandEntries) /\ prepared \in CommandEntries
  BY HostOffers DEF HostType
<1>2. Accepted(CommandPut) = a
  BY DEF Accepted, CommandPut, Enqueues
<1>3. Joins(a) \/ Serves(a)
  BY <1>1, <1>2, PortClock
<1>4. gain \in Nat /\ 9 * gain = (IF Enqueues THEN WordsOwed(prepared) ELSE 0)
  BY DEF IsRead, WordsOwed
<1>5. ASSUME NEW q \in Seq(CommandEntries)
      PROVE  /\ Reads(q) \in Nat /\ Reads(q \o a) \in Nat
             /\ Reads(q \o a) = Reads(q) + gain
  <2>1. CASE Enqueues
    <3>1. a = <<prepared>>
      BY <2>1 DEF CommandPut
    <3>2. Reads(q \o <<prepared>>) = Reads(q) + IsRead(prepared)
      BY <1>1, ReadJoins
    <3> QED BY <1>4, <2>1, <3>1, <3>2, ReadsType
  <2>2. CASE ~Enqueues
    <3>1. q \o a = q
      BY <2>2, ConcatEmptySeq DEF CommandPut
    <3> QED BY <2>2, <3>1, ReadsType
  <2> QED BY <2>1, <2>2
<1>6. Left \in Nat /\ Left' \in Nat /\ Putting' \in Nat
  BY ClockTypes DEF Left, Putting, TypeOK, ControlType, Word7
<1> HIDE DEF a, gain
<1>7. CASE Joins(a)
  <2>1. Reads(pending) \in Nat /\ Reads(pending') = Reads(pending) + gain
    BY <1>5, <1>7 DEF Joins
  <2>2. Left = Left' + Putting'
    BY <1>7, LeftClock DEF Joins
  <2>3. curOp' = curOp
    BY <1>7 DEF Joins, executing
  <2>4. Reads(pending') \in Nat
    BY <1>4, <2>1
  <2>5. 9 * Reads(pending') + Left' + Putting' = 9 * Reads(pending) + Left + 9 * gain
    BY <1>4, <1>6, <2>1, <2>2, Gathered
  <2> QED BY <1>4, <2>1, <2>3, <2>4, <2>5
<1>8. CASE Serves(a)
  <2>1. PICK q \in Seq(CommandEntries), e \in CommandEntries :
          pending = <<e>> \o q /\ pending' = q \o a /\ executing' = e
    BY <1>8 DEF Serves
  <2>2. /\ Left = 0 /\ Left' = 9 * IsRead(e) /\ Putting' = 0
        /\ curOp' = e.op /\ curOp' \in OpNumbers
    <3>1. cur'.cmd = e.cmd /\ curOp' = e.op
      BY <2>1 DEF executing
    <3>2. IsRead(cur') = IsRead(e)
      BY <3>1 DEF IsRead
    <3> QED BY <1>8, <3>1, <3>2, LeftClock DEF Serves, CommandEntries
  <2>3. Reads(q) \in Nat /\ Reads(pending') = Reads(q) + gain
    BY <1>5, <2>1
  <2>4. Reads(pending) = Reads(q) + IsRead(e) /\ IsRead(e) \in Nat
    BY <2>1, ReadLeads DEF IsRead
  <2> QED BY <1>4, <2>2, <2>3, <2>4
<1> QED BY <1>3, <1>7, <1>8

(* The balance.                                                              *)
LEMMA Balance ==
  ASSUME NEW o \in Nat, NEW l \in Nat, NEW p \in {0, 1}, NEW c \in Nat,
         NEW e \in Nat, NEW n \in {0, 1}, o = l + p + c, n = 1 => l > 0
  PROVE  o + e - n \in Nat /\ o + e - n = (l + p - n) + (c + e)
  OBVIOUS

(* A clock of the host.                                                      *)
LEMMA OwedClock ==
  ASSUME TypeOK, CommandInv, PortInv, HostType, OwedInv, HostClock
  PROVE  OwedInv'
<1>1. PICK fetching \in BOOLEAN :
        ControllerClock(CommandPut, DataPut, fetching) /\ Observe(fetching)
  BY Zenon DEF HostClock
<1> DEFINE e == IF Enqueues THEN WordsOwed(prepared) ELSE 0
           c == 9 * Reads(pending) + Left
           c2 == 9 * Reads(pending') + Left'
           n == Popped(fetching)
<1>2. /\ Reads(pending) \in Nat /\ Reads(pending') \in Nat
      /\ c2 + Putting' = c + e /\ curOp' \in OpNumbers
  BY <1>1, ComingClock DEF ControllerClock, OwedInv
<1>3. Left \in Nat /\ Putting \in {0, 1} /\ n \in {0, 1} /\ e \in Nat
  BY DEF Left, Putting, Popped, WordsOwed, TypeOK, ControlType, Word7
<1>4. c \in Nat /\ Len(retQ) \in Nat /\ owed \in Nat
  BY <1>2, <1>3 DEF OwedInv
<1>5. owed = Len(retQ) + Putting + c
  BY <1>2, <1>3 DEF OwedInv
<1>6. strobe["put"] => Len(retQ) < RET_DEPTH
  <2>1. owed <= RET_DEPTH /\ RET_DEPTH \in Nat
    BY ControllerAssumption DEF OwedInv
  <2> HIDE DEF c
  <2>2. strobe["put"] => owed = Len(retQ) + 1 + c
    BY <1>5 DEF Putting
  <2> QED BY <1>4, <2>1, <2>2
<1>7. /\ retQ' \in Seq(ReturnWords)
      /\ Len(retQ') = Len(retQ) + Putting - n
      /\ n = 1 => Len(retQ) > 0
  BY <1>1, <1>6, ReturnClock DEF ControllerClock, OwedInv, TypeOK, BurstType
<1>8. owed' = owed + e - n
  BY <1>1 DEF Observe, Popped
<1>9. e + owed <= RET_DEPTH
  <2>1. owed <= RET_DEPTH
    BY DEF OwedInv
  <2>2. CASE Enqueues
    <3>1. owed + WordsOwed(prepared) <= RET_DEPTH /\ e = WordsOwed(prepared)
      BY <2>2 DEF Enqueues
    <3>2. WordsOwed(prepared) \in Nat
      BY DEF WordsOwed
    <3> HIDE DEF e
    <3> QED BY <1>4, <3>1, <3>2
  <2>3. CASE ~Enqueues
    <3>1. e = 0
      BY <2>3
    <3> HIDE DEF e
    <3> QED BY <1>4, <2>1, <3>1
  <2> QED BY <2>2, <2>3
<1>10. Putting' \in {0, 1} /\ Left' \in Nat
  <2>1. TypeOK'
    BY <1>1, ClockTypes DEF ControllerClock
  <2> QED BY <2>1 DEF Putting, Left, TypeOK, ControlType, Word7
<1> HIDE DEF e, c, n
<1>11. owed + e - n \in Nat /\ owed + e - n = (Len(retQ) + Putting - n) + (c + e)
  BY <1>3, <1>4, <1>5, <1>7, Balance
<1>12. owed' \in Nat /\ owed' <= RET_DEPTH
  BY <1>3, <1>4, <1>8, <1>9, <1>11, ControllerAssumption
<1>13. owed' = Len(retQ') + Putting' + 9 * Reads(pending') + Left'
  BY <1>2, <1>7, <1>8, <1>10, <1>11
<1> QED BY <1>2, <1>7, <1>12, <1>13 DEF OwedInv
(* Nothing is owed at power-up or after a reset.                             *)
LEMMA OwedInit == HostInit => OwedInv
<1> SUFFICES ASSUME HostInit PROVE OwedInv
  OBVIOUS
<1>1. /\ st = "IDLE" /\ strobe = [x \in StrobeNames |-> FALSE]
      /\ cmdQ = <<>> /\ curOp = 0 /\ retQ = <<>> /\ owed = 0
  BY DEF HostInit, ControllerInit, Init
<1>2. Putting = 0 /\ Left = 0
  BY <1>1 DEF Putting, Left, StrobeNames
<1>3. pending = <<>>
  BY <1>1 DEF pending, InFlight
<1>4. Reads(pending) = 0
  BY <1>3, NoReads
<1> QED BY <1>1, <1>2, <1>4, ControllerAssumption DEF OwedInv

LEMMA OwedReset == HostReset => OwedInv'
<1> SUFFICES ASSUME HostReset PROVE OwedInv'
  OBVIOUS
<1>1. /\ st' = "IDLE" /\ Raise({})
      /\ cmdQ' = <<>> /\ curOp' = 0 /\ retQ' = <<>> /\ owed' = 0
  BY DEF HostReset, ControllerReset, Reset, Goto
<1>2. Putting' = 0 /\ Left' = 0
  BY <1>1 DEF Putting, Left, Raise, StrobeNames
<1>3. pending' = <<>>
  BY <1>1 DEF pending, InFlight
<1>4. Reads(pending') = 0
  BY <1>3, NoReads
<1> QED BY <1>1, <1>2, <1>4, ControllerAssumption DEF OwedInv

LEMMA OwedStutter == OwedInv /\ UNCHANGED <<vars, queues, host>> => OwedInv'
  BY DEF vars, queues, host, burst, OwedInv, Putting, Left, pending, InFlight

(* What is known of every state of the composition so far.                   *)
Known == TypeOK /\ CommandInv /\ PortInv /\ HostType

LEMMA KnownInvariant == HostSpec => []Known
<1>1. HostInit => ControllerInit
  BY DEF HostInit
<1>2. HostSpec => AnyHostSpec
  BY <1>1, HostTypeInit, HostTypeNext, HostStep, PTL DEF HostSpec, AnyHostSpec
<1>3. AnyHostSpec => [](TypeOK /\ CommandInv)
  BY RunsEngine, TypeCorrect, CommandInvariant, PTL
<1>4. AnyHostSpec => []PortInv
  BY <1>3, PortInit, PortStep, PTL DEF AnyHostSpec
<1>5. HostSpec => []HostType
  BY HostTypeInit, HostTypeNext, PTL DEF HostSpec
<1> QED BY <1>2, <1>3, <1>4, <1>5, PTL DEF Known

(* The invariant holds in every state of the composition.                    *)
LEMMA OwedInvariant == HostSpec => [](TypeOK /\ PortInv /\ OwedInv)
<1>1. Known /\ OwedInv /\ [HostNext]_<<vars, queues, host>> => OwedInv'
  BY OwedClock, OwedReset, OwedStutter, Zenon DEF HostNext, Known
<1> QED BY <1>1, KnownInvariant, OwedInit, PTL DEF HostSpec, Known

(* The commands pending are a sequence of commands.                          *)
LEMMA PendingType ==
  ASSUME PortInv
  PROVE  pending \in Seq(CommandEntries)
<1>1. CASE InFlight
  <2>1. pending = <<cmdOut>> \o cmdQ /\ <<cmdOut>> \in Seq(CommandEntries)
    BY <1>1 DEF pending, PortInv
  <2> QED BY <2>1, ConcatProperties DEF PortInv
<1>2. CASE ~InFlight
  BY <1>2, ConcatEmptySeq DEF pending, PortInv
<1> QED BY <1>1, <1>2

(* The words coming are a number.                                            *)
LEMMA ComingType ==
  ASSUME TypeOK, PortInv
  PROVE  Reads(pending) \in Nat /\ Left \in Nat
  BY PendingType, ReadsType DEF Left, TypeOK, ControlType, Word7

(* A scalar read never pushes into a full return FIFO, though the engine     *)
(* does not look: a host that counts what it is owed is enough, for every    *)
(* depth of the FIFOs, every timing and every mix of commands.               *)
THEOREM ScalarReadsHaveRoom == HostSpec => []ReturnHasRoom
<1>1. ASSUME TypeOK, PortInv, OwedInv, strobe["put"] PROVE Len(retQ) < RET_DEPTH
  <2>1. Reads(pending) \in Nat /\ Left \in Nat
    BY <1>1, ComingType
  <2>2. owed = Len(retQ) + 1 + 9 * Reads(pending) + Left
    BY <1>1 DEF OwedInv, Putting
  <2>3. Len(retQ) \in Nat /\ owed <= RET_DEPTH
    BY <1>1 DEF OwedInv
  <2> QED BY <2>1, <2>2, <2>3, ControllerAssumption
<1>2. TypeOK /\ PortInv /\ OwedInv => ReturnHasRoom
  BY <1>1, Zenon DEF ReturnHasRoom
<1> QED BY <1>2, OwedInvariant, PTL

(* When the controller is idle with nothing pending, exactly the words owed  *)
(* wait in the return FIFO: no read is forgotten, answered twice or cut      *)
(* short by a refresh, a low-power period, a DLL change or a reset, for      *)
(* every depth, timing and mix of commands.                                  *)
THEOREM EveryReadIsAnswered == HostSpec => []ReadsAreAnswered
<1>1. ASSUME OwedInv, st = "IDLE", pending = <<>>, ~strobe["put"]
      PROVE  owed = Len(retQ)
  <2>1. Putting = 0 /\ Left = 0 /\ Reads(pending) = 0
    BY <1>1, NoReads DEF Putting, Left
  <2>2. owed = Len(retQ) + Putting + 9 * Reads(pending) + Left /\ Len(retQ) \in Nat
    BY <1>1 DEF OwedInv
  <2> QED BY <2>1, <2>2
<1>2. OwedInv => ReadsAreAnswered
  BY <1>1, Zenon DEF ReadsAreAnswered
<1> QED BY <1>2, OwedInvariant, PTL
-----------------------------------------------------------------------------
(***************************************************************************)
(* The words waiting for the commands that need them.  In the data FIFO    *)
(* first come the words of the command at work, then those of each command *)
(* pending, then those put for the command the host prepares.  Where the   *)
(* words of a command begin is known by its offset, so that no sum over a  *)
(* sequence is needed.                                                     *)
(***************************************************************************)
DataWords == [op : OpNumbers, word : Nat]

\* off[k]: how many words wait before those of the k-th command pending.
Offsets(D, lead, P, n) ==
  {off \in [1..(Len(P) + 1) -> Nat] :
     /\ off[1] = lead
     /\ \A k \in 1..Len(P) : off[k + 1] = off[k] + WordsOf(P[k])
     /\ \A j, k \in 1..(Len(P) + 1) : j <= k => off[j] <= off[k]
     /\ Len(D) = off[Len(P) + 1] + n}

\* Word i of D belongs to the command at work, to one pending or to the one
\* prepared.
InItsPlace(D, off, c, P, o, i) ==
  /\ i <= off[1] => D[i].op = c
  /\ \A k \in 1..Len(P) : off[k] < i /\ i <= off[k + 1] => D[i].op = P[k].op
  /\ off[Len(P) + 1] < i => D[i].op = o

\* D holds lead words of command number c, those of each command in P, and n of
\* number o.
Meets(D, lead, c, P, n, o) ==
  \E off \in Offsets(D, lead, P, n) :
    \A i \in 1..Len(D) : InItsPlace(D, off, c, P, o, i)

(* A command needs a number of words.                                        *)
LEMMA WordsOfType ==
  ASSUME NEW e, e.sz \in 0..3
  PROVE  /\ WordsOf(e) \in Nat
         /\ e.cmd = "SCW" => WordsOf(e) = 8
         /\ e.cmd = "BLW" => WordsOf(e) = 8 * (e.sz + 1)
         /\ e.cmd \notin {"SCW", "BLW"} => WordsOf(e) = 0
  BY DEF WordsOf

(* So does every command that can be pending.                                *)
LEMMA EntryWords == \A e \in CommandEntries : WordsOf(e) \in Nat
<1> SUFFICES ASSUME NEW e \in CommandEntries PROVE WordsOf(e) \in Nat
  OBVIOUS
<1>1. e.sz \in Sizes \cup {0}
  BY DEF CommandEntries
<1>2. \A z \in Sizes : z \in 0..3
  BY GeometryAssumption
<1>3. e.sz \in 0..3
  <2>1. CASE e.sz = 0
    BY <2>1
  <2>2. CASE e.sz \in Sizes
    BY <1>2, <2>2, Zenon
  <2> QED BY <1>1, <2>1, <2>2
<1> QED BY <1>3, WordsOfType

(* The first word waiting is for the command at work, as long as that needs  *)
(* one; popping it leaves the others in place.                               *)
LEMMA MeetsPop ==
  ASSUME NEW D \in Seq(DataWords), NEW lead \in Nat, NEW c,
         NEW P \in Seq(CommandEntries), NEW n \in Nat, NEW o,
         lead > 0, Meets(D, lead, c, P, n, o)
  PROVE  /\ D # <<>> /\ Head(D).op = c
         /\ Meets(Tail(D), lead - 1, c, P, n, o)
<1>1. PICK off \in Offsets(D, lead, P, n) :
        \A i \in 1..Len(D) : InItsPlace(D, off, c, P, o, i)
  BY Zenon DEF Meets
<1> DEFINE m == Len(P) + 1
           off2 == [k \in 1..m |-> off[k] - 1]
<1>2. /\ off \in [1..m -> Nat] /\ off[1] = lead
      /\ \A k \in 1..Len(P) : off[k + 1] = off[k] + WordsOf(P[k])
      /\ \A j, k \in 1..m : j <= k => off[j] <= off[k]
      /\ Len(D) = off[m] + n
  BY <1>1 DEF Offsets
<1>3. /\ m \in Nat /\ 1 \in 1..m /\ m \in 1..m
      /\ \A k \in 1..Len(P) : k \in 1..m /\ k + 1 \in 1..m
      /\ \A k \in 1..m : 1 <= k /\ k <= m
  OBVIOUS
<1>4. Len(D) \in Nat /\ Len(D) >= 1
  <2>1. off[m] \in Nat /\ lead <= off[m]
    BY <1>2, <1>3, Zenon
  <2> HIDE DEF m
  <2> QED BY <1>2, <2>1
<1>5. D # <<>> /\ Head(D) = D[1] /\ D[1].op = c
  <2>1. InItsPlace(D, off, c, P, o, 1)
    BY <1>1, <1>4
  <2> QED BY <1>2, <1>4, <2>1 DEF InItsPlace
<1>6. /\ Len(Tail(D)) = Len(D) - 1
      /\ \A i \in 1..(Len(D) - 1) : Tail(D)[i] = D[i + 1] /\ i + 1 \in 1..Len(D)
  BY <1>4, <1>5
<1>7. ASSUME NEW k \in 1..m PROVE off[k] \in Nat /\ off[k] >= 1 /\ off2[k] = off[k] - 1
  <2>1. lead <= off[k]
    BY <1>2, <1>3, Zenon
  <2>2. off[k] \in Nat /\ off2[k] = off[k] - 1
    BY <1>2, <1>7
  <2> QED BY <2>1, <2>2
<1>8. off2 \in Offsets(Tail(D), lead - 1, P, n)
  <2>1. off2 \in [1..m -> Nat]
    BY <1>7
  <2>2. off2[1] = lead - 1
    BY <1>2, <1>3, <1>7
  <2>3. ASSUME NEW k \in 1..Len(P) PROVE off2[k + 1] = off2[k] + WordsOf(P[k])
    <3> DEFINE w == WordsOf(P[k])
               j == k + 1
    <3>1. k \in 1..m /\ j \in 1..m
      BY <1>3
    <3>2. w \in Nat
      <4>1. P[k] \in CommandEntries
        OBVIOUS
      <4> QED BY <4>1, EntryWords
    <3>3. off[j] = off[k] + w
      BY <1>2
    <3> HIDE DEF w, j, off2, m
    <3>4. off2[j] = off2[k] + w
      BY <1>7, <3>1, <3>2, <3>3
    <3> QED BY <3>4 DEF w, j
  <2>4. ASSUME NEW j \in 1..m, NEW k \in 1..m, j <= k PROVE off2[j] <= off2[k]
    <3>1. off[j] <= off[k]
      BY <1>2, <2>4, Zenon
    <3> HIDE DEF off2, m
    <3> QED BY <1>7, <3>1
  <2>5. Len(Tail(D)) = off2[m] + n
    <3> HIDE DEF off2, m
    <3> QED BY <1>2, <1>3, <1>6, <1>7
  <2> HIDE DEF off2
  <2> QED BY <2>1, <2>2, <2>3, <2>4, <2>5 DEF Offsets
<1>9. ASSUME NEW i \in 1..Len(Tail(D)) PROVE InItsPlace(Tail(D), off2, c, P, o, i)
  <2>1. i \in 1..(Len(D) - 1) /\ Tail(D)[i] = D[i + 1] /\ i + 1 \in 1..Len(D)
    BY <1>6
  <2>2. InItsPlace(D, off, c, P, o, i + 1)
    BY <1>1, <2>1
  <2>3. i \in Nat
    BY <2>1
  <2>4. ASSUME NEW k \in 1..m
        PROVE  /\ i <= off2[k] <=> i + 1 <= off[k]
               /\ off2[k] < i <=> off[k] < i + 1
    <3> HIDE DEF off2, m
    <3> QED BY <1>7, <2>3
  <2> HIDE DEF off2
  <2>5. i <= off2[1] => Tail(D)[i].op = c
    BY <1>3, <2>1, <2>2, <2>4 DEF InItsPlace
  <2>6. \A k \in 1..Len(P) : off2[k] < i /\ i <= off2[k + 1] => Tail(D)[i].op = P[k].op
    BY <1>3, <2>1, <2>2, <2>4, Zenon DEF InItsPlace
  <2>7. off2[m] < i => Tail(D)[i].op = o
    BY <1>3, <2>1, <2>2, <2>4 DEF InItsPlace
  <2> QED BY <2>5, <2>6, <2>7 DEF InItsPlace
<1> HIDE DEF off2
<1> QED BY <1>5, <1>8, <1>9, Zenon DEF Meets

(* A word put for the command prepared comes behind all others.              *)
LEMMA MeetsPut ==
  ASSUME NEW D \in Seq(DataWords), NEW lead \in Nat, NEW c,
         NEW P \in Seq(CommandEntries), NEW n \in Nat, NEW x \in DataWords,
         Meets(D, lead, c, P, n, x.op)
  PROVE  Meets(D \o <<x>>, lead, c, P, n + 1, x.op)
<1> DEFINE E == D \o <<x>>
           m == Len(P) + 1
<1>1. PICK off \in Offsets(D, lead, P, n) :
        \A i \in 1..Len(D) : InItsPlace(D, off, c, P, x.op, i)
  BY Zenon DEF Meets
<1>2. /\ off \in [1..m -> Nat] /\ Len(D) = off[m] + n
      /\ \A j, k \in 1..m : j <= k => off[j] <= off[k]
  BY <1>1 DEF Offsets
<1>3. /\ Len(D) \in Nat /\ Len(E) = Len(D) + 1 /\ E[Len(D) + 1] = x
      /\ \A i \in 1..Len(D) : E[i] = D[i]
  OBVIOUS
<1>4. /\ m \in Nat /\ 1 \in 1..m /\ m \in 1..m
      /\ \A k \in 1..Len(P) : k \in 1..m /\ k + 1 \in 1..m
      /\ \A k \in 1..m : k <= m
  OBVIOUS
<1> HIDE DEF E, m
<1>5. ASSUME NEW k \in 1..m PROVE off[k] \in Nat /\ off[k] <= Len(D)
  <2>1. off[k] \in Nat /\ off[m] \in Nat
    BY <1>2, <1>4
  <2>2. off[k] <= off[m] /\ Len(D) = off[m] + n
    BY <1>2, <1>4, Zenon
  <2> QED BY <1>3, <2>1, <2>2
<1>6. off \in Offsets(E, lead, P, n + 1)
  <2>1. Len(E) = off[m] + (n + 1)
    BY <1>2, <1>3, <1>4
  <2> QED BY <1>1, <2>1 DEF Offsets, m
<1>7. ASSUME NEW i \in 1..Len(E) PROVE InItsPlace(E, off, c, P, x.op, i)
  <2>1. CASE i \in 1..Len(D)
    BY <1>1, <1>3, <2>1, Zenon DEF InItsPlace
  <2>2. CASE i = Len(D) + 1
    <3>1. E[i].op = x.op
      BY <1>3, <2>2
    <3>2. \A k \in 1..m : ~(i <= off[k])
      BY <1>3, <1>5, <2>2
    <3> QED BY <1>4, <3>1, <3>2, Zenon DEF InItsPlace
  <2> QED BY <1>3, <2>1, <2>2
<1> QED BY <1>6, <1>7, Zenon DEF Meets, E

(* With nothing put, the number of the command prepared does not matter.     *)
LEMMA MeetsNone ==
  ASSUME NEW D \in Seq(DataWords), NEW lead \in Nat, NEW c,
         NEW P \in Seq(CommandEntries), NEW o, Meets(D, lead, c, P, 0, o), NEW o2
  PROVE  Meets(D, lead, c, P, 0, o2)
<1> DEFINE m == Len(P) + 1
<1>1. PICK off \in Offsets(D, lead, P, 0) :
        \A i \in 1..Len(D) : InItsPlace(D, off, c, P, o, i)
  BY Zenon DEF Meets
<1>2. off \in [1..m -> Nat] /\ Len(D) = off[m] + 0
  BY <1>1 DEF Offsets
<1>3. m \in 1..m
  OBVIOUS
<1> HIDE DEF m
<1>4. \A i \in 1..Len(D) : ~(off[m] < i)
  BY <1>2, <1>3
<1>5. ASSUME NEW i \in 1..Len(D) PROVE InItsPlace(D, off, c, P, o2, i)
  BY <1>1, <1>4, Zenon DEF InItsPlace, m
<1> QED BY <1>1, <1>5, Zenon DEF Meets

(* A command whose words are all there joins those pending.                  *)
LEMMA MeetsJoin ==
  ASSUME NEW D \in Seq(DataWords), NEW lead \in Nat, NEW c,
         NEW P \in Seq(CommandEntries), NEW e \in CommandEntries,
         Meets(D, lead, c, P, WordsOf(e), e.op), NEW o2
  PROVE  Meets(D, lead, c, P \o <<e>>, 0, o2)
<1> DEFINE Q == P \o <<e>>
           m == Len(P) + 1
           w == WordsOf(e)
<1>1. PICK off \in Offsets(D, lead, P, w) :
        \A i \in 1..Len(D) : InItsPlace(D, off, c, P, e.op, i)
  BY Zenon DEF Meets
<1> DEFINE off2 == [k \in 1..(m + 1) |-> IF k = m + 1 THEN off[m] + w ELSE off[k]]
<1>2. /\ off \in [1..m -> Nat] /\ off[1] = lead /\ Len(D) = off[m] + w
      /\ \A k \in 1..Len(P) : off[k + 1] = off[k] + WordsOf(P[k])
      /\ \A j, k \in 1..m : j <= k => off[j] <= off[k]
  BY <1>1 DEF Offsets
<1>3. /\ Len(Q) = m /\ Q[m] = e
      /\ \A k \in 1..Len(P) : Q[k] = P[k]
  OBVIOUS
<1>4. /\ m \in Nat /\ 1 \in 1..m /\ m \in 1..m /\ m \notin 1..Len(P)
      /\ \A k \in 1..Len(P) : k \in 1..m /\ k + 1 \in 1..m
      /\ \A k \in 1..m : k \in 1..Len(P) \/ k = m
      /\ \A k \in 1..(m + 1) : k \in 1..m \/ k = m + 1
      /\ m + 1 \notin 1..m /\ \A k \in 1..m : k <= m /\ ~(m + 1 <= k)
  OBVIOUS
<1>5. w \in Nat /\ Len(D) \in Nat
  BY EntryWords
<1>6. \A k \in 1..m : off2[k] = off[k] /\ off[k] \in Nat
  BY <1>2, <1>4
<1>7. off2[m + 1] = off[m] + w
  BY <1>4
<1>8. off2 \in [1..(m + 1) -> Nat]
  <2> HIDE DEF m, w
  <2>1. off[m] + w \in Nat
    <3>1. off[m] \in Nat
      BY <1>4, <1>6, Zenon
    <3> QED BY <1>5, <3>1
  <2>2. \A k \in 1..(m + 1) : off2[k] \in Nat
    BY <1>4, <1>6, <1>7, <2>1
  <2> QED BY <2>2
<1> HIDE DEF off2, m, w, Q
<1>9. off2 \in Offsets(D, lead, Q, 0)
  <2>1. ASSUME NEW k \in 1..m PROVE off2[k + 1] = off2[k] + WordsOf(Q[k])
    <3>1. CASE k \in 1..Len(P)
      BY <1>2, <1>3, <1>4, <1>6, <3>1
    <3>2. CASE k = m
      BY <1>3, <1>6, <1>7, <3>2 DEF w
    <3> QED BY <1>4, <3>1, <3>2
  <2>2. ASSUME NEW j \in 1..(m + 1), NEW k \in 1..(m + 1), j <= k
        PROVE  off2[j] <= off2[k]
    <3>1. CASE k \in 1..m
      <4>1. j \in 1..m
        BY <1>4, <2>2, <3>1
      <4> QED BY <1>2, <1>6, <2>2, <3>1, <4>1, Zenon
    <3>2. CASE k = m + 1 /\ j \in 1..m
      <4>1. off[j] <= off[m] /\ off[j] \in Nat /\ off[m] \in Nat /\ off2[j] = off[j]
        BY <1>2, <1>4, <1>6, <3>2, Zenon
      <4> QED BY <1>5, <1>7, <3>2, <4>1
    <3>3. CASE k = m + 1 /\ j = m + 1
      <4>1. off2[m + 1] \in Nat
        BY <1>4, <1>8
      <4> QED BY <3>3, <4>1
    <3> QED BY <1>4, <3>1, <3>2, <3>3
  <2>3. off2[1] = lead
    BY <1>2, <1>4, <1>6
  <2>4. Len(D) = off2[m + 1] + 0
    BY <1>2, <1>5, <1>7
  <2> QED BY <1>3, <1>8, <2>1, <2>2, <2>3, <2>4, Zenon DEF Offsets
<1>10. ASSUME NEW i \in 1..Len(D) PROVE InItsPlace(D, off2, c, Q, o2, i)
  <2>1. InItsPlace(D, off, c, P, e.op, i)
    BY <1>1
  <2>2. i <= off2[1] => D[i].op = c
    BY <1>4, <1>6, <2>1 DEF InItsPlace
  <2>3. ASSUME NEW k \in 1..m, off2[k] < i, i <= off2[k + 1] PROVE D[i].op = Q[k].op
    <3>1. CASE k \in 1..Len(P)
      BY <1>3, <1>4, <1>6, <2>1, <2>3, <3>1 DEF InItsPlace
    <3>2. CASE k = m
      BY <1>3, <1>4, <1>6, <2>1, <2>3, <3>2 DEF InItsPlace, m
    <3> QED BY <1>4, <3>1, <3>2
  <2>4. ~(off2[m + 1] < i)
    BY <1>2, <1>5, <1>7
  <2> QED BY <1>3, <2>2, <2>3, <2>4, Zenon DEF InItsPlace
<1> QED BY <1>9, <1>10, Zenon DEF Meets, Q

(* When the command at work has had its words, the next in line becomes the  *)
(* command at work.                                                          *)
LEMMA MeetsLatch ==
  ASSUME NEW D \in Seq(DataWords), NEW c, NEW e \in CommandEntries,
         NEW q \in Seq(CommandEntries), NEW n \in Nat, NEW o,
         Meets(D, 0, c, <<e>> \o q, n, o)
  PROVE  Meets(D, WordsOf(e), e.op, q, n, o)
<1> DEFINE P == <<e>> \o q
           m == Len(q) + 1
           w == WordsOf(e)
<1>1. PICK off \in Offsets(D, 0, P, n) :
        \A i \in 1..Len(D) : InItsPlace(D, off, c, P, o, i)
  BY Zenon DEF Meets
<1> DEFINE off2 == [k \in 1..m |-> off[k + 1]]
<1>2. /\ Len(P) = m /\ P[1] = e
      /\ \A k \in 1..Len(q) : P[k + 1] = q[k] /\ k + 1 \in 1..m /\ k \in 1..m
      /\ m \in Nat /\ 1 \in 1..m /\ m \in 1..m
      /\ \A k \in 1..m : k + 1 \in 1..(m + 1)
  OBVIOUS
<1> HIDE DEF P
<1>3. /\ off \in [1..(m + 1) -> Nat] /\ off[1] = 0 /\ Len(D) = off[m + 1] + n
      /\ \A k \in 1..m : off[k + 1] = off[k] + WordsOf(P[k])
      /\ \A j, k \in 1..(m + 1) : j <= k => off[j] <= off[k]
  BY <1>1, <1>2 DEF Offsets
<1>4. w \in Nat
  BY EntryWords
<1>5. off2 \in [1..m -> Nat] /\ \A k \in 1..m : off2[k] = off[k + 1] /\ off2[k] \in Nat
  BY <1>2, <1>3
<1> HIDE DEF off2, m, w
<1>7. off2[1] = w
  <2>1. off2[1] = off[1 + 1] /\ off[1 + 1] = off[1] + WordsOf(P[1])
    BY <1>2, <1>3, <1>5, Zenon
  <2> QED BY <1>2, <1>3, <1>4, <2>1 DEF w
<1>8. off2 \in Offsets(D, w, q, n)
  <2>1. \A k \in 1..Len(q) : off2[k + 1] = off2[k] + WordsOf(q[k])
    BY <1>2, <1>3, <1>5, Zenon
  <2>2. ASSUME NEW j \in 1..m, NEW k \in 1..m, j <= k PROVE off2[j] <= off2[k]
    <3>1. j + 1 <= k + 1 /\ j + 1 \in 1..(m + 1) /\ k + 1 \in 1..(m + 1)
      BY <1>2, <2>2
    <3>2. off[j + 1] <= off[k + 1]
      BY <1>3, <3>1, Zenon
    <3> QED BY <1>5, <3>2, Zenon
  <2>3. Len(D) = off2[m] + n
    BY <1>2, <1>3, <1>5, Zenon
  <2> QED BY <1>5, <1>7, <2>1, <2>2, <2>3, Zenon DEF Offsets, m
<1>9. ASSUME NEW i \in 1..Len(D) PROVE InItsPlace(D, off2, e.op, q, o, i)
  <2>1. InItsPlace(D, off, c, P, o, i)
    BY <1>1
  <2>2. i <= off2[1] => D[i].op = e.op
    <3>1. 1 \in 1..m /\ off2[1] = off[1 + 1] /\ off[1] < i /\ Len(P) = m /\ P[1] = e
      BY <1>2, <1>3, <1>5
    <3> QED BY <2>1, <3>1, Zenon DEF InItsPlace
  <2>3. \A k \in 1..Len(q) : off2[k] < i /\ i <= off2[k + 1] => D[i].op = q[k].op
    BY <1>2, <1>5, <2>1, Zenon DEF InItsPlace
  <2>4. off2[m] < i => D[i].op = o
    BY <1>2, <1>5, <2>1, Zenon DEF InItsPlace
  <2> QED BY <2>2, <2>3, <2>4, Zenon DEF InItsPlace, m
<1> QED BY <1>8, <1>9, Zenon DEF Meets, w

\* Bursts of a block write after the one the engine is at.
LaterBursts == IF cur.cmd = "BLW" THEN cur.sz - blk_cnt ELSE 0

\* States before the first word of a write burst is asked for.
BeforeBurst == {"BLW_ACT", "WAIT_TRCD", "ISSUE_WRITE", "BLW_ISSUE", "SCWRITE", "BLW_WRITE"}

\* Words the command at work has still to ask for.
ToAsk ==
  IF st = "ACTIVATE" THEN WordsOf(cur)
  ELSE IF st \in BeforeBurst /\ cur.cmd \in {"SCW", "BLW"} THEN 8 * LaterBursts + 8
  ELSE IF st = "SCWRDATA" THEN 8 * LaterBursts + (7 - burst_cnt)
  ELSE IF st = "SCWREND" THEN 8 * LaterBursts
  ELSE 0

Asking == IF strobe["getData"] THEN 1 ELSE 0

\* A block does not count past its size, and SCWRDATA lasts for eight words.
AskInv ==
  /\ st \in BeforeBurst \cup {"SCWRDATA", "SCWREND"} /\ cur.cmd = "BLW" => blk_cnt <= cur.sz
  /\ st = "SCWRDATA" => burst_cnt + cnt >= 7
  /\ strobe["getData"] => st = "SCWRDATA"

(* A number of words, and one at a time.                                     *)
LEMMA AskTypes ==
  ASSUME TypeOK, AskInv
  PROVE  ToAsk \in Nat /\ Asking \in {0, 1}
<1>1. blk_cnt \in 0..3 /\ burst_cnt \in 0..7 /\ cur.sz \in 0..3
  BY StateTypes DEF TypeOK, BurstType, Word2, Word3
<1>2. WordsOf(cur) \in Nat
  BY <1>1, WordsOfType
<1>3. st \in BeforeBurst \cup {"SCWRDATA", "SCWREND"} => LaterBursts \in Nat
  BY <1>1 DEF AskInv, LaterBursts
<1> QED BY <1>1, <1>2, <1>3 DEF ToAsk, Asking

(* A write burst asks for a word per clock of its window.                    *)
LEMMA WriteAsks ==
  ASSUME TypeOK, CommandInv, AskInv, Clock, WriteMove
  PROVE  AskInv' /\ ToAsk = ToAsk' + Asking'
<1>1. /\ st \in {"ISSUE_WRITE", "BLW_ISSUE", "SCWRITE", "BLW_WRITE", "SCWRDATA", "SCWREND"}
      /\ cur' = cur
  BY ClockMoves DEF WriteMove, Moves, Dwell, KeepsCommand
<1>2. cnt \in 0..127 /\ blk_cnt \in 0..3 /\ burst_cnt \in 0..7 /\ cur.sz \in 0..3
  BY StateTypes DEF TypeOK, BurstType, Word2, Word3
<1>3. /\ cur.cmd \in {"SCW", "BLW"}
      /\ st \in {"ISSUE_WRITE", "SCWRITE"} => cur.cmd = "SCW"
      /\ st \in {"BLW_ISSUE", "BLW_WRITE"} => cur.cmd = "BLW"
  BY <1>1 DEF CommandInv, CommandsIn
<1>4. strobe'["getData"] <=> \/ st \in {"SCWRITE", "BLW_WRITE"} /\ cnt = 0
                             \/ st = "SCWRDATA" /\ burst_cnt < 7
  BY Strobes, Zenon
<1>5. cur.cmd = "BLW" => blk_cnt <= cur.sz
  BY <1>1 DEF AskInv, BeforeBurst
<1>6. LaterBursts \in Nat
  BY <1>2, <1>5 DEF LaterBursts
<1>7. ASSUME blk_cnt' = blk_cnt PROVE LaterBursts' = LaterBursts
  BY <1>1, <1>7 DEF LaterBursts
<1>8. CASE st \in {"ISSUE_WRITE", "BLW_ISSUE"}
  <2>1. st' \in {"SCWRITE", "BLW_WRITE"} /\ (st = "BLW_ISSUE" => st' = "BLW_WRITE")
    BY <1>8 DEF WriteMove, Moves, Dwell, Goto
  <2>2. cur.cmd = "BLW" => blk_cnt' = blk_cnt
    BY <1>3, <1>8, BurstCounts
  <2>3. LaterBursts' = LaterBursts
    BY <1>1, <2>2 DEF LaterBursts
  <2>4. ~strobe'["getData"]
    BY <1>4, <1>8
  <2>5. AskInv'
    BY <1>1, <1>5, <2>1, <2>2, <2>4 DEF AskInv, BeforeBurst
  <2>6. ToAsk = 8 * LaterBursts + 8 /\ ToAsk' = 8 * LaterBursts' + 8 /\ Asking' = 0
    BY <1>1, <1>3, <1>8, <2>1, <2>4 DEF ToAsk, Asking, BeforeBurst
  <2> QED BY <1>6, <2>3, <2>5, <2>6
<1>9. CASE st \in {"SCWRITE", "BLW_WRITE"}
  <2>1. \/ cnt # 0 /\ st' = st
        \/ cnt = 0 /\ st' = "SCWRDATA" /\ cnt' \in Nat /\ cnt' >= 7 /\ burst_cnt' = 0
    <3>1. /\ CNT_SCWRDATA_SCW = 7
          /\ cnt_scwrdata_sz(cur.sz) \in Nat /\ cnt_scwrdata_sz(cur.sz) >= 7
      BY <1>2 DEF CNT_SCWRDATA_SCW, cnt_scwrdata_sz
    <3> QED BY <1>9, <3>1, BurstCounts DEF WriteMove, Moves, Dwell, Goto
  <2>2. cur.cmd = "BLW" => blk_cnt' = blk_cnt
    BY <1>3, <1>9, BurstCounts
  <2>3. LaterBursts' = LaterBursts
    BY <1>1, <2>2 DEF LaterBursts
  <2>4. ToAsk = 8 * LaterBursts + 8
    BY <1>3, <1>9 DEF ToAsk, BeforeBurst
  <2>5. CASE cnt # 0
    <3>1. st' = st /\ ~strobe'["getData"]
      BY <1>4, <1>9, <2>1, <2>5
    <3>2. AskInv'
      BY <1>1, <1>5, <1>9, <2>2, <3>1 DEF AskInv, BeforeBurst
    <3>3. ToAsk' = 8 * LaterBursts' + 8 /\ Asking' = 0
      BY <1>1, <1>3, <1>9, <3>1 DEF ToAsk, Asking, BeforeBurst
    <3> QED BY <1>6, <2>3, <2>4, <3>2, <3>3
  <2>6. CASE cnt = 0
    <3>1. PICK n \in Nat : cnt' = n /\ n >= 7
      BY <2>1, <2>6
    <3>2. st' = "SCWRDATA" /\ burst_cnt' = 0 /\ strobe'["getData"]
      BY <1>4, <1>9, <2>1, <2>6
    <3>3. burst_cnt' + cnt' >= 7
      BY <3>1, <3>2
    <3>4. AskInv'
      BY <1>1, <1>5, <2>2, <3>2, <3>3 DEF AskInv
    <3>5. ToAsk' = 8 * LaterBursts' + (7 - 0) /\ Asking' = 1
      BY <3>2 DEF ToAsk, Asking, BeforeBurst
    <3> QED BY <1>6, <2>3, <2>4, <3>4, <3>5
  <2> QED BY <2>5, <2>6
<1>10. CASE st = "SCWRDATA"
  <2>1. \/ cnt # 0 /\ st' = "SCWRDATA" /\ cnt' = cnt - 1
        \/ cnt = 0 /\ st' = "SCWREND"
    BY <1>2, <1>10 DEF WriteMove, Moves, Dwell, Goto, CntTick
  <2>2. /\ burst_cnt' = IF burst_cnt < 7 THEN burst_cnt + 1 ELSE burst_cnt
        /\ blk_cnt' = blk_cnt
    BY <1>10, BurstCounts
  <2>3. burst_cnt + cnt >= 7
    BY <1>10 DEF AskInv
  <2>4. LaterBursts' = LaterBursts
    BY <1>7, <2>2
  <2>5. Asking' = IF burst_cnt < 7 THEN 1 ELSE 0
    BY <1>4, <1>10 DEF Asking
  <2>6. ToAsk = 8 * LaterBursts + (7 - burst_cnt)
    BY <1>10 DEF ToAsk, BeforeBurst
  <2>7. CASE cnt # 0
    <3>1. st' = "SCWRDATA" /\ cnt' = cnt - 1
      BY <2>1, <2>7
    <3>2. burst_cnt' + (cnt - 1) >= 7
      BY <1>2, <2>2, <2>3, <2>7
    <3>3. AskInv'
      BY <1>1, <1>5, <2>2, <3>1, <3>2 DEF AskInv
    <3>4. ToAsk' = 8 * LaterBursts' + (7 - burst_cnt')
      BY <3>1 DEF ToAsk, BeforeBurst
    <3>5. 7 - burst_cnt = (7 - burst_cnt') + Asking'
      BY <1>2, <2>2, <2>5
    <3> QED BY <1>2, <1>6, <2>2, <2>4, <2>5, <2>6, <3>3, <3>4, <3>5
  <2>8. CASE cnt = 0
    <3>1. st' = "SCWREND" /\ burst_cnt = 7 /\ ~strobe'["getData"]
      BY <1>2, <1>4, <1>10, <2>1, <2>3, <2>8
    <3>2. AskInv'
      BY <1>1, <1>5, <2>2, <3>1 DEF AskInv
    <3>3. ToAsk' = 8 * LaterBursts' /\ Asking' = 0 /\ ToAsk = 8 * LaterBursts + (7 - 7)
      BY <2>6, <3>1 DEF ToAsk, Asking, BeforeBurst
    <3> QED BY <1>6, <2>4, <3>2, <3>3
  <2> QED BY <2>7, <2>8
<1>11. CASE st = "SCWREND"
  <2>1. Asking' = 0 /\ ~strobe'["getData"]
    BY <1>4, <1>11 DEF Asking
  <2>2. ToAsk = 8 * LaterBursts
    BY <1>11 DEF ToAsk, BeforeBurst
  <2>3. CASE cnt # 0
    <3>1. st' = "SCWREND" /\ blk_cnt' = blk_cnt
      BY <1>11, <2>3, BurstCounts DEF WriteMove, Moves, Dwell, Goto
    <3>2. AskInv'
      BY <1>1, <1>5, <2>1, <3>1 DEF AskInv
    <3>3. ToAsk' = 8 * LaterBursts' /\ LaterBursts' = LaterBursts
      BY <1>7, <3>1 DEF ToAsk, BeforeBurst
    <3> QED BY <1>6, <2>1, <2>2, <3>2, <3>3
  <2>4. CASE cnt = 0 /\ from_blw /\ blk_cnt < cur.sz
    <3>1. st' = "BLW_ISSUE" /\ blk_cnt' = blk_cnt + 1 /\ cur.cmd = "BLW"
      <4>1. cur.cmd = "BLW"
        BY <1>11, <2>4, Zenon DEF CommandInv
      <4> QED BY <1>11, <2>4, <4>1, BurstCounts
    <3>2. AskInv'
      BY <1>1, <1>2, <2>1, <2>4, <3>1 DEF AskInv
    <3>3. LaterBursts = LaterBursts' + 1 /\ LaterBursts' \in Nat
      BY <1>1, <1>2, <2>4, <3>1 DEF LaterBursts
    <3>4. ToAsk' = 8 * LaterBursts' + 8
      BY <1>1, <3>1 DEF ToAsk, BeforeBurst
    <3> QED BY <2>1, <2>2, <3>2, <3>3, <3>4
  <2>5. CASE cnt = 0 /\ ~(from_blw /\ blk_cnt < cur.sz)
    <3>1. st' = "IDLE"
      BY <1>11, <2>5, BurstCounts
    <3>2. LaterBursts = 0
      <4>1. cur.cmd = "BLW" => from_blw
        BY <1>11, Zenon DEF CommandInv
      <4>2. cur.cmd = "BLW" => blk_cnt = cur.sz
        BY <1>2, <1>5, <2>5, <4>1
      <4> QED BY <1>2, <4>2 DEF LaterBursts
    <3>3. AskInv' /\ ToAsk' = 0
      BY <2>1, <3>1 DEF AskInv, ToAsk, BeforeBurst
    <3> QED BY <2>1, <2>2, <3>2, <3>3
  <2> QED BY <2>3, <2>4, <2>5
<1> QED BY <1>1, <1>8, <1>9, <1>10, <1>11

(* The engine asks for what the command at work has still to ask for, one    *)
(* word in a clock and no other, until it latches the next command.          *)
LEMMA AskClock ==
  ASSUME TypeOK, CommandInv, AskInv, Clock
  PROVE  /\ AskInv'
         /\ ~Takes => ToAsk = ToAsk' + Asking'
         /\ Takes => ToAsk = 0 /\ Asking = 0 /\ Asking' = 0 /\ ToAsk' = WordsOf(cur')
<1>1. Move /\ KeepsCommand
  BY ClockMoves
<1>2. strobe'["getData"] <=> \/ st \in {"SCWRITE", "BLW_WRITE"} /\ cnt = 0
                             \/ st = "SCWRDATA" /\ burst_cnt < 7
  BY Strobes, Zenon
<1>3. /\ st \in States /\ cur.cmd \in Commands
      /\ blk_cnt \in 0..3 /\ cur.sz \in 0..3
      /\ next_state_after_trcd \in
           {"IDLE", "ISSUE_READ", "ISSUE_WRITE", "BLR_ISSUE", "BLW_ISSUE"}
  BY StateTypes DEF TypeOK, BurstType, Word2
<1>4. CASE Takes
  <2>1. st = "GETCMD" /\ st' = "ACTIVATE" /\ ~strobe["getData"] /\ ~strobe'["getData"]
    BY <1>2, <1>4 DEF Takes, AskInv
  <2>2. AskInv'
    BY <2>1 DEF AskInv, BeforeBurst
  <2> QED BY <1>4, <2>1, <2>2 DEF ToAsk, Asking, BeforeBurst
<1>5. CASE WriteMove
  <2>1. ~Takes
    BY <1>5 DEF WriteMove, Moves, Dwell, Takes
  <2> QED BY <1>5, <2>1, WriteAsks
<1>6. CASE st = "GETCMD" /\ ~Takes
  <2>1. st' = "GETCMD" /\ ~strobe'["getData"]
    BY <1>2, <1>6, ClockShape DEF Asks, Waits, Elsewhere
  <2> QED BY <1>6, <2>1 DEF ToAsk, Asking, BeforeBurst, AskInv
<1>7. CASE st # "GETCMD" /\ ~WriteMove
  <2>1. cur' = cur /\ ~Takes
    BY <1>1, <1>7, Zenon DEF KeepsCommand, Takes
  <2>2. CASE ActivateMove
    <3>1. st = "ACTIVATE" /\ ~strobe'["getData"] /\ Asking' = 0
      BY <1>2, <2>2 DEF ActivateMove, Asking
    <3>2. ToAsk = WordsOf(cur) /\ WordsOf(cur) \in Nat
      BY <1>3, <3>1, WordsOfType DEF ToAsk
    <3>3. CASE st' = "ACTIVATE"
      BY <2>1, <3>1, <3>2, <3>3 DEF ToAsk, AskInv, BeforeBurst
    <3>4. CASE st' = "WAIT_TRCD" /\ cur.cmd = "SCR"
      <4>1. ToAsk' = 0 /\ WordsOf(cur) = 0
        BY <1>3, <2>1, <3>4, WordsOfType DEF ToAsk
      <4> QED BY <2>1, <3>1, <3>2, <3>4, <4>1 DEF AskInv
    <3>5. CASE st' = "WAIT_TRCD" /\ cur.cmd = "SCW"
      <4>1. ToAsk' = 8 * 0 + 8 /\ WordsOf(cur) = 8
        BY <1>3, <2>1, <3>5, WordsOfType DEF ToAsk, BeforeBurst, LaterBursts
      <4> QED BY <2>1, <3>1, <3>2, <3>5, <4>1 DEF AskInv
    <3>6. CASE st' = "BLR_ACT" /\ cur.cmd = "BLR"
      <4>1. ToAsk' = 0 /\ WordsOf(cur) = 0
        BY <1>3, <2>1, <3>6, WordsOfType DEF ToAsk, BeforeBurst
      <4> QED BY <2>1, <3>1, <3>2, <3>6, <4>1 DEF AskInv
    <3>7. CASE st' = "BLW_ACT" /\ cur.cmd = "BLW"
      <4>1. blk_cnt' = 0
        BY <3>1, <3>7, BurstCounts
      <4>2. LaterBursts' = cur.sz /\ WordsOf(cur) = 8 * (cur.sz + 1)
        BY <1>3, <2>1, <3>7, <4>1, WordsOfType DEF LaterBursts
      <4>3. ToAsk' = 8 * LaterBursts' + 8
        BY <2>1, <3>7 DEF ToAsk, BeforeBurst
      <4>4. AskInv'
        BY <1>3, <2>1, <3>1, <3>7, <4>1 DEF AskInv
      <4> QED BY <1>3, <2>1, <3>1, <3>2, <4>2, <4>3, <4>4
    <3>8. CASE st' = "IDLE" /\ cur.cmd \notin {"SCR", "SCW", "BLW"}
      <4>1. ToAsk' = 0 /\ WordsOf(cur) = 0
        BY <1>3, <2>1, <3>8, WordsOfType DEF ToAsk, BeforeBurst
      <4> QED BY <2>1, <3>1, <3>2, <3>8, <4>1 DEF AskInv, BeforeBurst
    <3> QED BY <2>2, <3>3, <3>4, <3>5, <3>6, <3>7, <3>8 DEF ActivateMove, Goto
  <2>3. CASE OpenMove
    <3>1. st \in {"BLR_ACT", "BLW_ACT", "WAIT_TRCD"} /\ ~strobe'["getData"] /\ Asking' = 0
      BY <1>2, <2>3 DEF OpenMove, Moves, Dwell, Asking
    <3>2. CASE cur.cmd \in {"SCW", "BLW"}
      <4>1. st \in BeforeBurst /\ st' \in BeforeBurst
        <5>1. CASE st = "WAIT_TRCD"
          <6>1. next_state_after_trcd \in {"ISSUE_WRITE", "BLW_ISSUE"}
            BY <3>2, <5>1 DEF CommandInv, FirstColumn
          <6> QED BY <2>3, <5>1, <6>1 DEF OpenMove, Moves, Dwell, Goto, BeforeBurst
        <5>2. CASE st # "WAIT_TRCD"
          <6>1. st = "BLW_ACT"
            BY <3>1, <3>2, <5>2 DEF CommandInv, CommandsIn
          <6> QED BY <2>3, <6>1 DEF OpenMove, Moves, Dwell, Goto, BeforeBurst
        <5> QED BY <5>1, <5>2
      <4>2. cur.cmd = "BLW" => blk_cnt' = blk_cnt /\ blk_cnt <= cur.sz
        <5>1. st # "BLR_ACT"
          BY <4>1 DEF BeforeBurst
        <5> QED BY <3>1, <4>1, <5>1, BurstCounts DEF AskInv
      <4>3. LaterBursts' = LaterBursts /\ LaterBursts \in Nat
        BY <1>3, <2>1, <4>2 DEF LaterBursts
      <4>4. ToAsk = 8 * LaterBursts + 8 /\ ToAsk' = 8 * LaterBursts' + 8
        BY <2>1, <3>2, <4>1 DEF ToAsk, BeforeBurst
      <4>5. AskInv'
        BY <2>1, <3>1, <4>1, <4>2 DEF AskInv, BeforeBurst
      <4> QED BY <2>1, <3>1, <4>3, <4>4, <4>5
    <3>3. CASE cur.cmd \notin {"SCW", "BLW"}
      <4>1. st' \notin {"ACTIVATE", "SCWRDATA", "SCWREND"}
        BY <1>3, <2>3 DEF OpenMove, Moves, Dwell, Goto
      <4>2. ToAsk = 0 /\ ToAsk' = 0
        BY <2>1, <3>1, <3>3, <4>1 DEF ToAsk
      <4>3. AskInv'
        BY <2>1, <3>1, <3>3, <4>1 DEF AskInv
      <4> QED BY <2>1, <3>1, <4>2, <4>3
    <3> QED BY <3>2, <3>3
  <2>4. CASE ReadMove
    <3>1. /\ st \in {"ISSUE_READ", "BLR_ISSUE", "SCREAD", "BLR_READ", "SCREND", "SCRNLSN"}
          /\ st' \in {"BLR_ISSUE", "SCREAD", "BLR_READ", "SCREND", "SCRNLSN", "IDLE"}
      BY <2>4 DEF ReadMove, Moves, Dwell, Goto
    <3> QED BY <1>2, <2>1, <3>1 DEF ToAsk, Asking, AskInv, BeforeBurst
  <2>5. CASE IdleMove \/ FetchMove
    <3>1. st = "IDLE" /\ st' \in PreStates \cup {"GETCMD", "IDLE"}
      BY <1>7, <2>5 DEF IdleMove, FetchMove, Goto
    <3> QED BY <1>2, <2>1, <3>1 DEF ToAsk, Asking, AskInv, BeforeBurst, PreStates
  <2>6. CASE RefreshMove \/ SelfRefreshMove \/ PowerDownMove \/ DllMove
    <3> DEFINE Maintained ==
          {"RPRE", "RNOP", "RREF", "RIDL", "SREF_PRE", "SREF_TRP", "SREF_ENTER", "SREF_IDLE",
           "SREF_EXIT_WAIT", "PD_PRE", "PD_TRP", "PD_IDLE", "PD_EXIT_WAIT", "DLL_PRE",
           "DLL_TRP", "DLL_MRS", "DLL_TMRD", "DLL_TDLLK"}
    <3>1. st \in Maintained /\ st' \in Maintained \cup {"IDLE"}
      BY <2>6 DEF RefreshMove, SelfRefreshMove, PowerDownMove, DllMove, Moves, Dwell, Goto
    <3> QED BY <1>2, <2>1, <3>1 DEF ToAsk, Asking, AskInv, BeforeBurst
  <2> QED BY <1>1, <1>7, <2>2, <2>3, <2>4, <2>5, <2>6, Zenon DEF Move
<1> QED BY <1>4, <1>5, <1>6, <1>7

\* The words waiting are those the commands at work and pending need, and those
\* put for the next.
MeetInv ==
  /\ AskInv
  /\ dataQ \in Seq(DataWords)
  /\ Idling => put = 0
  /\ Meets(dataQ, ToAsk + Asking, curOp, pending, put, prepared.op)

\* Words put for the command prepared, with the one put in this clock.
WordsPut == IF Filling /\ HasRoom THEN put + 1 ELSE put

(* Nothing waits for nothing.                                                *)
LEMMA MeetsEmpty ==
  ASSUME NEW c, NEW o
  PROVE  Meets(<<>>, 0, c, <<>>, 0, o)
<1> DEFINE off == [k \in 1..1 |-> 0]
<1>1. Len(<<>>) = 0
  OBVIOUS
<1>2. off \in [1..(0 + 1) -> Nat] /\ off[1] = 0 /\ off[0 + 1] = 0
  OBVIOUS
<1>3. off \in Offsets(<<>>, 0, <<>>, 0)
  BY <1>1, <1>2 DEF Offsets
<1>4. \A i \in 1..Len(<<>>) : InItsPlace(<<>>, off, c, <<>>, o, i)
  BY <1>1
<1> QED BY <1>3, <1>4, Zenon DEF Meets

(* What the data FIFO does in a clock.                                       *)
LEMMA WordsMove ==
  ASSUME TypeOK, PortInv, HostType, MeetInv, DataFifo(DataPut)
  PROVE  /\ dataQ' \in Seq(DataWords)
         /\ Meets(dataQ', ToAsk, curOp, pending, WordsPut, prepared.op)
<1> DEFINE D == IF strobe["getData"] /\ dataQ # <<>> THEN Tail(dataQ) ELSE dataQ
<1>1. /\ ToAsk \in Nat /\ Asking \in {0, 1} /\ put \in Nat
      /\ pending \in Seq(CommandEntries) /\ dataQ \in Seq(DataWords)
      /\ Meets(dataQ, ToAsk + Asking, curOp, pending, put, prepared.op)
  BY AskTypes, PendingType DEF MeetInv, HostType
<1>2. D \in Seq(DataWords) /\ Meets(D, ToAsk, curOp, pending, put, prepared.op)
  <2>1. CASE strobe["getData"]
    <3>1. Asking = 1 /\ ToAsk + 1 \in Nat /\ ToAsk + 1 > 0 /\ (ToAsk + 1) - 1 = ToAsk
      BY <1>1, <2>1 DEF Asking
    <3>2. /\ dataQ # <<>>
          /\ Meets(Tail(dataQ), (ToAsk + 1) - 1, curOp, pending, put, prepared.op)
      BY <1>1, <3>1, MeetsPop
    <3>3. D = Tail(dataQ)
      BY <2>1, <3>2, Zenon
    <3> HIDE DEF D
    <3> QED BY <1>1, <3>1, <3>2, <3>3
  <2>2. CASE ~strobe["getData"]
    <3>1. ToAsk + Asking = ToAsk /\ D = dataQ
      BY <1>1, <2>2 DEF Asking
    <3> HIDE DEF D
    <3> QED BY <1>1, <3>1
  <2> QED BY <2>1, <2>2
<1>3. dataQ' = D \o (IF Len(dataQ) < DATA_DEPTH THEN DataPut ELSE <<>>)
  BY Zenon DEF DataFifo, Advanced
<1> HIDE DEF D
<1>4. CASE Filling /\ HasRoom
  <2> DEFINE x == [op |-> prepared.op, word |-> put]
  <2>1. dataQ' = D \o <<x>> /\ x.op = prepared.op /\ WordsPut = put + 1
    BY <1>3, <1>4 DEF DataPut, HasRoom, WordsPut
  <2>2. x \in DataWords
    BY DEF HostType, CommandEntries, DataWords
  <2> HIDE DEF x
  <2>3. Meets(D \o <<x>>, ToAsk, curOp, pending, put + 1, x.op)
    BY <1>1, <1>2, <2>1, <2>2, MeetsPut
  <2> QED BY <1>2, <2>1, <2>2, <2>3
<1>5. CASE ~(Filling /\ HasRoom)
  <2>1. dataQ' = D /\ WordsPut = put
    <3>1. dataQ' = D \o <<>>
      BY <1>3, <1>5, Zenon DEF DataPut
    <3> QED BY <1>2, <1>5, <3>1, ConcatEmptySeq DEF WordsPut
  <2> QED BY <1>2, <2>1
<1> QED BY <1>4, <1>5

(* What the host does in a clock.                                            *)
LEMMA HostMeets ==
  ASSUME HostType, Idling => put = 0,
         Choose \/ Wait \/ PutWord \/ Enqueue \/ Hold,
         NEW D \in Seq(DataWords), NEW lead \in Nat, NEW c, NEW Q \in Seq(CommandEntries),
         Meets(D, lead, c, Q, WordsPut, prepared.op)
  PROVE  /\ Idling' => put' = 0
         /\ Meets(D, lead, c, Q \o CommandPut, put', prepared'.op)
<1>1. put \in Nat /\ prepared \in CommandEntries
  BY DEF HostType
<1>2. ASSUME ~Enqueues PROVE Q \o CommandPut = Q
  BY <1>2, ConcatEmptySeq DEF CommandPut
<1>3. CASE Choose
  <2>1. ~Enqueues /\ WordsPut = 0 /\ put' = 0
    BY <1>3 DEF Choose, Enqueues, WordsPut, Filling
  <2>2. Meets(D, lead, c, Q, 0, prepared'.op)
    BY <2>1, MeetsNone
  <2> QED BY <1>2, <2>1, <2>2
<1>4. CASE Wait \/ Hold
  <2>1. ~Enqueues /\ WordsPut = put /\ put' = put /\ prepared' = prepared
    BY <1>4 DEF Wait, Hold, Enqueues, WordsPut, Filling
  <2> QED BY <1>2, <2>1 DEF Idling
<1>5. CASE PutWord
  <2>1. WordsPut = put + 1 /\ put' = put + 1 /\ prepared' = prepared /\ ~Idling
    BY <1>5 DEF PutWord, WordsPut, Filling
  <2>2. ~Enqueues
    <3>1. put < WordsOf(prepared)
      BY <1>5 DEF PutWord, Filling
    <3>2. put # WordsOf(prepared)
      BY <1>1, <3>1
    <3> QED BY <3>2 DEF Enqueues
  <2> QED BY <1>2, <2>1, <2>2 DEF Idling
<1>6. CASE Enqueue
  <2>1. put = WordsOf(prepared) /\ CommandPut = <<prepared>> /\ put' = 0
    BY <1>6 DEF Enqueue, Enqueues, CommandPut
  <2>2. ~Filling
    <3>1. ~(put < put)
      BY <1>1
    <3> QED BY <2>1, <3>1 DEF Filling
  <2>3. Meets(D, lead, c, Q, WordsOf(prepared), prepared.op)
    BY <2>1, <2>2 DEF WordsPut
  <2>4. Meets(D, lead, c, Q \o <<prepared>>, 0, prepared'.op)
    BY <1>1, <2>3, MeetsJoin
  <2> QED BY <2>1, <2>4
<1> QED BY <1>3, <1>4, <1>5, <1>6

(* A clock of the host.                                                      *)
LEMMA MeetClock ==
  ASSUME TypeOK, CommandInv, PortInv, HostType, MeetInv, HostClock
  PROVE  MeetInv'
<1> DEFINE a == CommandPut
<1>1. PICK fetching \in BOOLEAN :
        /\ ControllerClock(CommandPut, DataPut, fetching)
        /\ Choose \/ Wait \/ PutWord \/ Enqueue \/ Hold
  BY Zenon DEF HostClock
<1>2. /\ dataQ' \in Seq(DataWords)
      /\ Meets(dataQ', ToAsk, curOp, pending, WordsPut, prepared.op)
  BY <1>1, WordsMove DEF ControllerClock
<1>3. /\ AskInv' /\ ToAsk \in Nat
      /\ ~Takes => ToAsk = ToAsk' + Asking'
      /\ Takes => ToAsk = 0 /\ Asking' = 0 /\ ToAsk' = WordsOf(cur')
  BY <1>1, AskClock, AskTypes DEF ControllerClock, MeetInv
<1>4. CommandPut \in AtMostOne(CommandEntries) /\ Accepted(CommandPut) = a
  BY HostOffers DEF Accepted, CommandPut, Enqueues
<1>5. Joins(a) \/ Serves(a)
  BY <1>1, <1>4, PortClock DEF ControllerClock
<1>6. Idling => put = 0
  BY DEF MeetInv
<1> HIDE DEF a
<1>7. CASE Joins(a)
  <2>1. /\ pending \in Seq(CommandEntries) /\ pending' = pending \o a /\ curOp' = curOp
        /\ ToAsk' + Asking' = ToAsk
    BY <1>3, <1>7 DEF Joins, executing
  <2>2. /\ Idling' => put' = 0
        /\ Meets(dataQ', ToAsk, curOp, pending \o a, put', prepared'.op)
    BY <1>1, <1>2, <1>3, <1>6, <2>1, HostMeets DEF a
  <2>3. Meets(dataQ', ToAsk' + Asking', curOp', pending', put', prepared'.op)
    BY <2>1, <2>2, Zenon
  <2> QED BY <1>2, <1>3, <2>2, <2>3, Zenon DEF MeetInv
<1>8. CASE Serves(a)
  <2>1. PICK q \in Seq(CommandEntries), e \in CommandEntries :
          pending = <<e>> \o q /\ pending' = q \o a /\ executing' = e
    BY <1>8 DEF Serves
  <2>2. curOp' = e.op /\ cur'.cmd = e.cmd /\ cur'.sz = e.sz
    BY <2>1 DEF executing
  <2>3. WordsOf(cur') = WordsOf(e) /\ WordsOf(e) \in Nat
    BY <2>2, EntryWords, Zenon DEF WordsOf
  <2>4. ToAsk = 0 /\ ToAsk' + Asking' = WordsOf(e)
    <3>1. ToAsk = 0 /\ Asking' = 0 /\ ToAsk' = WordsOf(e)
      BY <1>3, <1>8, <2>3 DEF Serves
    <3> QED BY <2>3, <3>1
  <2>5. WordsPut \in Nat
    BY DEF WordsPut, HostType
  <2>6. Meets(dataQ', WordsOf(e), e.op, q, WordsPut, prepared.op)
    BY <1>2, <2>1, <2>4, <2>5, MeetsLatch
  <2>7. /\ Idling' => put' = 0
        /\ Meets(dataQ', WordsOf(e), e.op, q \o a, put', prepared'.op)
    BY <1>1, <1>2, <1>6, <2>3, <2>6, HostMeets DEF a
  <2>8. Meets(dataQ', ToAsk' + Asking', curOp', pending', put', prepared'.op)
    BY <2>1, <2>2, <2>4, <2>7, Zenon
  <2> QED BY <1>2, <1>3, <2>7, <2>8, Zenon DEF MeetInv
<1> QED BY <1>5, <1>7, <1>8

(* Nothing waits at power-up or after a reset.                               *)
LEMMA MeetInit == HostInit => MeetInv
<1> SUFFICES ASSUME HostInit PROVE MeetInv
  OBVIOUS
<1>1. /\ st = "IDLE" /\ strobe = [x \in StrobeNames |-> FALSE]
      /\ cmdQ = <<>> /\ dataQ = <<>> /\ put = 0
  BY DEF HostInit, ControllerInit, Init
<1>2. AskInv /\ ToAsk + Asking = 0
  BY <1>1 DEF AskInv, ToAsk, Asking, BeforeBurst, StrobeNames
<1>3. pending = <<>>
  BY <1>1 DEF pending, InFlight
<1>4. Meets(dataQ, ToAsk + Asking, curOp, pending, put, prepared.op)
  BY <1>1, <1>2, <1>3, MeetsEmpty
<1> QED BY <1>1, <1>2, <1>4 DEF MeetInv

LEMMA MeetReset == HostReset => MeetInv'
<1> SUFFICES ASSUME HostReset PROVE MeetInv'
  OBVIOUS
<1>1. /\ st' = "IDLE" /\ Raise({})
      /\ cmdQ' = <<>> /\ dataQ' = <<>> /\ put' = 0
  BY DEF HostReset, ControllerReset, Reset, Goto
<1>2. AskInv' /\ ToAsk' + Asking' = 0
  <2>1. ~strobe'["getData"]
    BY <1>1 DEF Raise, StrobeNames
  <2> QED BY <1>1, <2>1 DEF AskInv, ToAsk, Asking, BeforeBurst
<1>3. pending' = <<>>
  BY <1>1 DEF pending, InFlight
<1>4. Meets(dataQ', ToAsk' + Asking', curOp', pending', put', prepared'.op)
  BY <1>1, <1>2, <1>3, MeetsEmpty
<1> QED BY <1>1, <1>2, <1>4 DEF MeetInv

LEMMA MeetStutter == MeetInv /\ UNCHANGED <<vars, queues, host>> => MeetInv'
<1> SUFFICES ASSUME MeetInv, UNCHANGED <<vars, queues, host>> PROVE MeetInv'
  OBVIOUS
<1>1. AskInv' /\ dataQ' \in Seq(DataWords) /\ (Idling' => put' = 0)
  BY DEF vars, queues, host, burst, MeetInv, AskInv, Idling
<1>2. /\ ToAsk' = ToAsk /\ Asking' = Asking /\ pending' = pending
      /\ dataQ' = dataQ /\ curOp' = curOp /\ put' = put /\ prepared' = prepared
  BY DEF vars, queues, host, burst, ToAsk, LaterBursts, WordsOf, Asking, pending, InFlight
<1>3. Meets(dataQ', ToAsk' + Asking', curOp', pending', put', prepared'.op)
  BY <1>2, Zenon DEF MeetInv
<1> QED BY <1>1, <1>3, Zenon DEF MeetInv

(* Every word the engine pops was put for the command it is popped for, and  *)
(* there is one whenever it pops: for every depth of the FIFOs, every        *)
(* timing, any sizes of blocks and any mix of commands, across refreshes,    *)
(* low-power periods, DLL changes and resets.                                *)
THEOREM WordsFindTheirCommand == HostSpec => []WordsMeetTheirCommand
<1>1. Known /\ MeetInv /\ [HostNext]_<<vars, queues, host>> => MeetInv'
  BY MeetClock, MeetReset, MeetStutter, Zenon DEF HostNext, Known
<1>2. Known /\ MeetInv => WordsMeetTheirCommand
  <2> SUFFICES ASSUME Known, MeetInv, strobe["getData"]
               PROVE  dataQ # <<>> /\ Head(dataQ).op = curOp
    BY Zenon DEF WordsMeetTheirCommand
  <2>1. /\ ToAsk + Asking \in Nat /\ ToAsk + Asking > 0 /\ put \in Nat
        /\ pending \in Seq(CommandEntries)
    <3>1. ToAsk \in Nat /\ Asking = 1
      BY AskTypes DEF Known, MeetInv, Asking
    <3> QED BY <3>1, PendingType DEF Known, HostType
  <2> QED BY <2>1, MeetsPop DEF MeetInv
<1> QED BY <1>1, <1>2, KnownInvariant, MeetInit, PTL DEF HostSpec
=============================================================================
