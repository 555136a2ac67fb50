-------------------------------- MODULE Fifo --------------------------------
(***************************************************************************)
(* fifo.v: the ring of registers behind the command, data and return       *)
(* FIFOs.  One step is one rising edge of clk.                             *)
(***************************************************************************)
EXTENDS Naturals, Sequences

CONSTANTS
  Values,      \* words
  Zero,        \* the word data_out is reset to
  DEPTH        \* 1 << DEPTH_LOG2, so that pointers wrap at DEPTH

ASSUME FifoAssumption == DEPTH \in Nat \ {0} /\ Zero \in Values

VARIABLES mem, wr_ptr, rd_ptr, count, data_out

vars == <<mem, wr_ptr, rd_ptr, count, data_out>>

Slots == 0..DEPTH - 1

TypeOK ==
  /\ mem \in [Slots -> Values]
  /\ wr_ptr \in Slots
  /\ rd_ptr \in Slots
  /\ count \in 0..DEPTH
  /\ data_out \in Values

\* The Faulty definitions here are plausible bugs that the properties of this
\* module must be able to see; no specification uses them.
FaultyFullBar == count <= DEPTH

full_bar == count # DEPTH
empty_bar == count # 0

FaultyAdvance(p) == IF p = DEPTH THEN 0 ELSE p + 1

\* A pointer of DEPTH_LOG2 bits plus one.
Advance(p) == IF p = DEPTH - 1 THEN 0 ELSE p + 1

FaultyCountAfter(puts, gets) ==
  IF puts THEN count + 1 ELSE IF gets THEN count - 1 ELSE count

CountAfter(puts, gets) ==
  IF puts /\ ~gets THEN count + 1
  ELSE IF gets /\ ~puts THEN count - 1
  ELSE count

Write(d) ==
  /\ mem' = [mem EXCEPT ![wr_ptr] = d]
  /\ wr_ptr' = Advance(wr_ptr)

Read ==
  /\ data_out' = mem[rd_ptr]
  /\ rd_ptr' = Advance(rd_ptr)

\* put and get are judged by the level before the clock, put && full_bar and
\* get && empty_bar.  A read sees the memory before a write of the same clock.
Clock(put, get, d) ==
  LET puts == put /\ full_bar
      gets == get /\ empty_bar
  IN  /\ IF puts THEN Write(d) ELSE UNCHANGED <<mem, wr_ptr>>
      /\ IF gets THEN Read ELSE UNCHANGED <<data_out, rd_ptr>>
      /\ count' = CountAfter(puts, gets)

\* The memory itself is not cleared.
Reset ==
  /\ wr_ptr' = 0 /\ rd_ptr' = 0 /\ count' = 0
  /\ data_out' = Zero
  /\ UNCHANGED mem

\* Before the first reset the memory holds anything.
Init ==
  /\ mem \in [Slots -> Values]
  /\ wr_ptr = 0 /\ rd_ptr = 0 /\ count = 0
  /\ data_out = Zero

Next ==
  \/ \E put, get \in BOOLEAN, d \in Values : Clock(put, get, d)
  \/ Reset

Spec == Init /\ [][Next]_vars

-----------------------------------------------------------------------------
\* The slot of the i-th oldest word.
Wrapped(k) == IF k < DEPTH THEN k ELSE k - DEPTH
SlotOf(i) == Wrapped(rd_ptr + i - 1)

contents == [i \in 1..count |-> mem[SlotOf(i)]]

(* The level fillcount reports, on which full_bar, empty_bar and the block   *)
(* read's room check depend, is the distance of the pointers.                *)
PointersAgree == wr_ptr = SlotOf(count + 1)

Queue == INSTANCE BoundedQueue WITH queue <- contents, out <- data_out

(* The ring is a first-in first-out queue of DEPTH words: no word is lost,   *)
(* repeated or reordered through wrap-around, a put and a get in one clock,  *)
(* a put when full or a get when empty.                                      *)
ImplementsQueue == Queue!Spec
=============================================================================
