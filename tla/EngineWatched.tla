--------------------------- MODULE EngineWatched ----------------------------
(***************************************************************************)
(* The protocol engine with both observers: the timers at the pins         *)
(* (EngineTiming) and the counts of FIFO traffic (EngineTransfers).  They  *)
(* move with every clock, are reset with the engine, and hold it back in   *)
(* no step.                                                                *)
(***************************************************************************)
EXTENDS EngineTiming, EngineTransfers

watched == <<vars, ages, counts>>

WatchedInit == Init /\ TimingInit /\ NoCounts

WatchedNext ==
  \/ Clock /\ Sample /\ Count
  \/ Reset /\ SampleReset /\ ClearCounts

WatchedSpec == WatchedInit /\ [][WatchedNext]_watched
=============================================================================
