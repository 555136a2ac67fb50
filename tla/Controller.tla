----------------------------- MODULE Controller -----------------------------
(***************************************************************************)
(* ddr2_controller.v: the protocol engine between the command, data and    *)
(* return FIFOs, and the two registers that make VALIDOUT.                 *)
(*                                                                         *)
(* Each FIFO is the bounded queue that Fifo implements: its words and its  *)
(* output register.  The engine's free inputs -- a command waiting, the    *)
(* command at the FIFO's output, the level of the return FIFO -- are tied  *)
(* to the queues by EngineSeesQueues.  Words carry the number of the       *)
(* command they belong to instead of their bits.                           *)
(***************************************************************************)
EXTENDS ProtocolEngine, Sequences

CONSTANTS
  CMD_DEPTH, DATA_DEPTH, RET_DEPTH,   \* 64, 64 and 128 in the code
  OpNumbers                           \* numbers of commands, 0 for none

ASSUME ControllerAssumption ==
  /\ CMD_DEPTH \in Nat /\ DATA_DEPTH \in Nat /\ RET_DEPTH \in Nat
  /\ 0 \in OpNumbers

VARIABLES
  cmdQ, cmdOut,         \* u_cmd_fifo: entries [cmd, sz, bank, op]
  dataQ, dataOut,       \* u_data_fifo: words [op, word]
  dq,                   \* dq_SSTL_o of the engine
  retQ, retOut,         \* u_return_fifo: words [op, word]
  curOp,                \* number of the command in cur
  fetch_pop_r, validout_r

queues == <<cmdQ, cmdOut, dataQ, dataOut, dq, retQ, retOut, curOp,
            fetch_pop_r, validout_r>>

NoWord == [op |-> 0, word |-> 0]
NoEntry == [cmd |-> "NOP", sz |-> 0, bank |-> 0, op |-> 0]

\* The Faulty definitions here are plausible bugs that the properties of the
\* controller must be able to see; no specification uses them.
FaultyPops(fetching) == fetching

\* NOTFULL speaks for the command FIFO only.
NOTFULL == Len(cmdQ) < CMD_DEPTH

emptyBar_cmdFIFO == cmdQ # <<>>

\* A put when full and a get when empty have no effect; both look at the level
\* before the clock.
Advanced(q, get, puts, depth) ==
  (IF get /\ q # <<>> THEN Tail(q) ELSE q)
    \o (IF Len(q) < depth THEN puts ELSE <<>>)

Output(q, get, out) == IF get /\ q # <<>> THEN Head(q) ELSE out

\* puts: the entry the host enqueues in this clock, if any.
CommandFifo(puts) ==
  /\ cmdQ' = Advanced(cmdQ, strobe["getCmd"], IF NOTFULL THEN puts ELSE <<>>, CMD_DEPTH)
  /\ cmdOut' = Output(cmdQ, strobe["getCmd"], cmdOut)

DataFifo(puts) ==
  /\ dataQ' = Advanced(dataQ, strobe["getData"], puts, DATA_DEPTH)
  /\ dataOut' = Output(dataQ, strobe["getData"], dataOut)

\* The engine loads dq_SSTL_o where it asks for a word: with the word that is
\* on the FIFO's output now, not with the one it asks for.
WriteDataRegister == dq' = IF strobe'["getData"] THEN dataOut ELSE dq

\* Pop while the host is fetching and a word is there.
Pops(fetching) == fetching /\ retQ # <<>>

\* The word is {addr_returnFIFO_o, DQ}: the command's address plus readPtr.
ReturnFifo(fetching) ==
  /\ retQ' = Advanced(retQ, Pops(fetching),
               IF strobe["put"] THEN <<[op |-> curOp, word |-> readPtr]>> ELSE <<>>,
               RET_DEPTH)
  /\ retOut' = Output(retQ, Pops(fetching), retOut)

ValidOut(fetching) ==
  /\ fetch_pop_r' = Pops(fetching)
  /\ validout_r' = fetch_pop_r

-----------------------------------------------------------------------------
\* The engine's inputs from the FIFOs, in the clocks that look at them.
SeesCommandWaiting ==
  st = "IDLE" =>
    /\ QuietTick(emptyBar_cmdFIFO)
    /\ st' # "SREF_PRE" => AutoRequestTick(emptyBar_cmdFIFO)
    /\ st' = "GETCMD" => emptyBar_cmdFIFO
    /\ st' = "DLL_PRE" => ~emptyBar_cmdFIFO
    /\ st' = "IDLE" => ~FetchesCommand(emptyBar_cmdFIFO)

Latches == st = "GETCMD" /\ st' = "ACTIVATE"

SeesCommand ==
  IF Latches
    THEN /\ cur' = [cmd |-> cmdOut.cmd, sz |-> cmdOut.sz, bank |-> cmdOut.bank,
                    rank |-> cur'.rank]
         /\ curOp' = cmdOut.op
    ELSE UNCHANGED curOp

SeesReturnLevel ==
  st = "ACTIVATE" /\ cnt = 0 /\ cur.cmd = "BLR" =>
    (st' = "IDLE" <=> ~BlockMayStart(Len(retQ)))

EngineSeesQueues == SeesCommandWaiting /\ SeesCommand /\ SeesReturnLevel

\* One clock with the host's inputs: an entry or none, a word or none, FETCHING.
ControllerClock(command, word, fetching) ==
  /\ Clock
  /\ EngineSeesQueues
  /\ CommandFifo(command)
  /\ DataFifo(word)
  /\ WriteDataRegister
  /\ ReturnFifo(fetching)
  /\ ValidOut(fetching)

\* The output registers of the FIFOs are cleared with their levels.
ControllerReset ==
  /\ Reset
  /\ cmdQ' = <<>> /\ cmdOut' = NoEntry
  /\ dataQ' = <<>> /\ dataOut' = NoWord /\ dq' = NoWord
  /\ retQ' = <<>> /\ retOut' = NoWord
  /\ curOp' = 0
  /\ fetch_pop_r' = FALSE /\ validout_r' = FALSE

ControllerInit ==
  /\ Init
  /\ cmdQ = <<>> /\ cmdOut = NoEntry
  /\ dataQ = <<>> /\ dataOut = NoWord /\ dq = NoWord
  /\ retQ = <<>> /\ retOut = NoWord
  /\ curOp = 0
  /\ fetch_pop_r = FALSE /\ validout_r = FALSE

-----------------------------------------------------------------------------
CommandEntries == [cmd : Commands, sz : Sizes \cup {0}, bank : Banks, op : OpNumbers]

AtMostOne(S) == {<<>>} \cup {<<x>> : x \in S}

\* With any host at all at the ports.
AnyHostNext ==
  \/ \E command \in AtMostOne(CommandEntries),
        word \in AtMostOne([op : OpNumbers, word : Nat]),
        fetching \in BOOLEAN : ControllerClock(command, word, fetching)
  \/ ControllerReset

AnyHostSpec == ControllerInit /\ [][AnyHostNext]_<<vars, queues>>

\* A command popped from the FIFO and not yet latched by GETCMD.
InFlight == st = "GETCMD" /\ ~strobe["getCmd"]

pending == (IF InFlight THEN <<cmdOut>> ELSE <<>>) \o cmdQ

executing == [cmd |-> cur.cmd, sz |-> cur.sz, bank |-> cur.bank, op |-> curOp]

Port == INSTANCE BoundedQueue
          WITH Values <- CommandEntries, DEPTH <- CMD_DEPTH + 1,
               queue <- pending, out <- executing

(* The command path -- FIFO, its output register, and the engine that        *)
(* latches the command some clocks after it asked for it -- is a queue:      *)
(* every accepted command is latched once, in order, whatever refreshes,     *)
(* low-power periods and DLL changes come between.                           *)
CommandsInOrder == Port!Spec

(* The engine never pushes into a full return FIFO, where the word would be  *)
(* dropped: a scalar read checks for no room.                                *)
ReturnHasRoom == strobe["put"] => Len(retQ) < RET_DEPTH

(* Every word the engine pops for a write was put for that very command.     *)
WordsMeetTheirCommand ==
  strobe["getData"] => dataQ # <<>> /\ Head(dataQ).op = curOp
=============================================================================
