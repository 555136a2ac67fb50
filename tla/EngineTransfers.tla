-------------------------- MODULE EngineTransfers ---------------------------
(***************************************************************************)
(* The protocol engine's traffic with the data and return FIFOs, counted   *)
(* per host command: words popped for a write, words pushed for a read,    *)
(* column commands driven.  The counts restart when a command is fetched.  *)
(***************************************************************************)
EXTENDS ProtocolEngine

VARIABLES
  pops,      \* cycles with get_dataFIFO_o high
  pushes,    \* cycles with put_returnFIFO_o high
  words,     \* word numbers pushed
  columns    \* READ and WRITE commands driven

counts == <<pops, pushes, words, columns>>

NoCounts == pops = 0 /\ pushes = 0 /\ words = {} /\ columns = 0

Increment(n, event) == IF strobe'["getCmd"] THEN 0 ELSE IF event THEN n + 1 ELSE n

Count ==
  /\ pops' = Increment(pops, strobe'["getData"])
  /\ pushes' = Increment(pushes, strobe'["put"])
  /\ words' = IF strobe'["getCmd"] THEN {}
              ELSE IF strobe'["put"] THEN words \cup {readPtr'} ELSE words
  /\ columns' = Increment(columns, bus' \in {"RD", "WR"})

ClearCounts == pops' = 0 /\ pushes' = 0 /\ words' = {} /\ columns' = 0

-----------------------------------------------------------------------------
Done(c) == st = "IDLE" /\ cur.cmd = c

\* Bursts a block command of this size is made of.
Bursts == cur.sz + 1

(* A write pops exactly the words its bursts put on the bus, one WRITE per   *)
(* burst; nothing else touches the data FIFO, so the words of later writes   *)
(* stay aligned with their commands.                                         *)
WritesPopTheirWords ==
  /\ Done("SCW") => pops = 8 /\ columns = 1
  /\ Done("BLW") => pops = 8 * Bursts /\ columns = Bursts
  /\ st = "IDLE" /\ cur.cmd \notin {"SCW", "BLW"} => pops = 0

(* A scalar read returns every word of its burst.                            *)
ScalarReadCoversBurst == Done("SCR") => words = 0..7 /\ columns = 1

(* A block read that was started returns eight words per burst.              *)
BlockReadReturnsBlock == Done("BLR") /\ columns > 0 => pushes = 8 * Bursts
=============================================================================
