--------------------------- MODULE ControllerHost ---------------------------
(***************************************************************************)
(* The controller with a host at its ports.  Like the tasks of             *)
(* tb_ddr2_controller.v it prepares one command at a time and enqueues it  *)
(* when NOTFULL is high; it puts all the words of a write first, one per   *)
(* clock, where FILLCOUNT leaves room, and as many as the engine pops.  It *)
(* keeps room for the words it is owed, fetches when it is not putting,    *)
(* and pauses only while the engine is calm.                               *)
(***************************************************************************)
EXTENDS Controller

CONSTANTS
  HostCommands,      \* pairs <<command, size>> the host uses
  Continuous         \* may FETCHING be high in consecutive clocks

ASSUME HostAssumption ==
  /\ HostCommands \subseteq Commands \X (Sizes \cup {0})
  /\ 1 \in OpNumbers

VARIABLES
  prepared,     \* the command whose words are being put, or NoEntry
  put,          \* words put for it
  next,         \* number of the next command
  owed,         \* words of scalar reads the host has not popped
  awaited,      \* words popped and not yet announced by VALIDOUT
  driven        \* words of the current write that were on DQ with ts_i high

host == <<prepared, put, next, owed, awaited, driven>>

Following(n) == IF n + 1 \in OpNumbers THEN n + 1 ELSE 1

WordsOf(e) ==
  CASE e.cmd = "SCW" -> 8
    [] e.cmd = "BLW" -> 8 * (e.sz + 1)
    [] OTHER -> 0

\* A scalar read pushes nine words, a block read none.
WordsOwed(e) == IF e.cmd = "SCR" THEN 9 ELSE 0

\* Engine states in which the host may pause or stop fetching.
Calm == {"IDLE", "SREF_IDLE", "PD_IDLE"}

\* It lets a low-power entry complete.
PatientHost ==
  st \in {"SREF_PRE", "SREF_TRP", "SREF_ENTER", "PD_PRE", "PD_TRP"} => st' # "IDLE"

Idling == prepared = NoEntry

\* Choose a command; nothing is put in this clock.
Choose ==
  /\ Idling
  /\ \E c \in HostCommands, b \in Banks :
       prepared' = [cmd |-> c[1], sz |-> c[2], bank |-> b, op |-> next]
  /\ put' = 0
  /\ next' = Following(next)

\* Otherwise it has a command in hand at every clock.
Wait == Idling /\ st \in Calm /\ UNCHANGED <<prepared, put, next>>

HasRoom == Len(dataQ) < DATA_DEPTH
Filling == ~Idling /\ put < WordsOf(prepared)
Enqueues ==
  /\ ~Idling /\ put = WordsOf(prepared) /\ NOTFULL
  /\ owed + WordsOwed(prepared) <= RET_DEPTH

PutWord == Filling /\ HasRoom /\ put' = put + 1 /\ UNCHANGED <<prepared, next>>

Enqueue == Enqueues /\ prepared' = NoEntry /\ put' = 0 /\ UNCHANGED next

Hold ==
  /\ ~Idling /\ ~(Filling /\ HasRoom) /\ ~Enqueues
  /\ UNCHANGED <<prepared, put, next>>

DataPut == IF Filling /\ HasRoom THEN <<[op |-> prepared.op, word |-> put]>> ELSE <<>>
CommandPut == IF Enqueues THEN <<prepared>> ELSE <<>>

\* What the host and the pads see in this clock.
Observe(fetching) ==
  /\ owed' = owed + (IF Enqueues THEN WordsOwed(prepared) ELSE 0)
                  - (IF Pops(fetching) THEN 1 ELSE 0)
  /\ awaited' = (IF validout_r /\ awaited # <<>> THEN Tail(awaited) ELSE awaited)
                  \o (IF Pops(fetching) /\ retQ # <<>> THEN <<Head(retQ)>> ELSE <<>>)
  /\ driven' = IF Latches THEN {}
               ELSE IF strobe'["ts"] THEN driven \cup {dq'} ELSE driven

\* FETCHING in two clocks running only if Continuous.
Fetches(fetching) ==
  IF Continuous THEN TRUE
  ELSE /\ fetching => ~Filling /\ ~fetch_pop_r
       /\ ~fetching => Filling \/ fetch_pop_r \/ st \in Calm

HostClock ==
  \E fetching \in BOOLEAN :
    /\ Fetches(fetching)
    /\ Choose \/ Wait \/ PutWord \/ Enqueue \/ Hold
    /\ ControllerClock(CommandPut, DataPut, fetching)
    /\ PatientHost
    /\ Observe(fetching)

HostReset ==
  /\ ControllerReset
  /\ prepared' = NoEntry /\ put' = 0 /\ next' = 1
  /\ owed' = 0 /\ awaited' = <<>> /\ driven' = {}

HostInit ==
  /\ ControllerInit
  /\ ~dll_in_progress /\ ~dll_busy_o /\ ~auto_selfref_req
  /\ prepared = NoEntry /\ put = 0 /\ next = 1
  /\ owed = 0 /\ awaited = <<>> /\ driven = {}

HostNext == HostClock \/ HostReset

HostSpec == HostInit /\ [][HostNext]_<<vars, queues, host>>

-----------------------------------------------------------------------------
(* VALIDOUT announces each word popped from the return FIFO, once, in order, *)
(* while it is on DOUT.                                                      *)
ValidoutPairs == validout_r => awaited # <<>> /\ retOut = Head(awaited)

(* When the controller has nothing left to do, the words waiting are exactly *)
(* those the host is still owed: no read has been forgotten, answered twice  *)
(* or cut short, whatever interrupted it.                                    *)
ReadsAreAnswered ==
  st = "IDLE" /\ pending = <<>> /\ ~strobe["put"] => owed = Len(retQ)

(* Every word of a block write has been on DQ in a clock in which the        *)
(* controller drives the bus, by the time the command ends.                  *)
WriteDrivesItsWords ==
  st = "IDLE" /\ cur.cmd = "BLW" =>
    \A i \in 0..(WordsOf(executing) - 1) : [op |-> curOp, word |-> i] \in driven
=============================================================================
