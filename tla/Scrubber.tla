------------------------------ MODULE Scrubber ------------------------------
(***************************************************************************)
(* ddr2_scrubber.v.  Its command port raises cmd_put but never cmd_req.    *)
(* The buffers of words read are written and never used, and left out.     *)
(***************************************************************************)
EXTENDS Integers

CONSTANTS
  ADDRS,               \* 2^ADDR_WIDTH
  SCRUB_BURST_SIZE,    \* 8 in the code
  IDLE_THRESHOLD,      \* 100
  PROGRESS_MOD         \* 2^32: scrub_progress wraps

\* ADDR_WIDTH is at most 32.
ASSUME ScrubAssumption ==
  /\ ADDRS \in Nat \ {0} /\ SCRUB_BURST_SIZE \in Nat \ {0}
  /\ PROGRESS_MOD \in Nat
  /\ \E k \in 1..PROGRESS_MOD : PROGRESS_MOD = k * ADDRS

VARIABLES
  state,
  scrub_addr, scrub_progress, words_remaining, idle_counter,
  writeback_needed, corrected_data,
  cmd_put, cmd, addr, data_put, data_in,
  scrub_active, scrub_complete

scrub == <<state, scrub_addr, scrub_progress, words_remaining, idle_counter,
           writeback_needed, corrected_data, cmd_put, cmd, addr, data_put,
           data_in, scrub_active, scrub_complete>>

\* A register that is only ever cleared.
cmd_req == FALSE

scrub_start_addr == 0
scrub_end_addr == ADDRS - 1

\* Registers of a state that does not mention them.
SamePort == UNCHANGED <<cmd_put, cmd, addr, data_put, data_in>>
SameRepair == UNCHANGED <<writeback_needed, corrected_data>>
SamePlace == UNCHANGED <<scrub_addr, scrub_progress>>

Idle(enable, ready) ==
  /\ state = "IDLE"
  /\ scrub_active' = FALSE /\ scrub_complete' = FALSE
  /\ cmd_put' = FALSE /\ data_put' = FALSE
  /\ writeback_needed' = FALSE
  /\ IF enable /\ ready
       THEN /\ state' = "WAIT_IDLE"
            /\ scrub_addr' = scrub_start_addr /\ scrub_progress' = 0
            /\ idle_counter' = 0
       ELSE UNCHANGED <<state, scrub_addr, scrub_progress, idle_counter>>
  /\ UNCHANGED <<words_remaining, corrected_data, cmd, addr, data_in>>

WaitIdle(notfull, ready) ==
  /\ state = "WAIT_IDLE"
  /\ IF ~(notfull /\ ready)
       THEN idle_counter' = 0 /\ UNCHANGED <<state, scrub_active>>
       ELSE IF idle_counter >= IDLE_THRESHOLD
              THEN state' = "ISSUE_READ" /\ scrub_active' = TRUE /\ idle_counter' = 0
              ELSE idle_counter' = idle_counter + 1 /\ UNCHANGED <<state, scrub_active>>
  /\ SamePort /\ SameRepair /\ SamePlace
  /\ UNCHANGED <<words_remaining, scrub_complete>>

IssueRead(notfull, ready) ==
  /\ state = "ISSUE_READ"
  /\ IF notfull /\ ready
       THEN /\ state' = "WAIT_DATA"
            /\ cmd_put' = TRUE /\ cmd' = "BLR" /\ addr' = scrub_addr
            /\ words_remaining' = SCRUB_BURST_SIZE
       ELSE UNCHANGED <<state, cmd_put, cmd, addr, words_remaining>>
  /\ SameRepair /\ SamePlace
  /\ UNCHANGED <<idle_counter, data_put, data_in, scrub_active, scrub_complete>>

\* Forgets to count the last word.
FaultyWaitData(validout, single, raddr, data) ==
  /\ state = "WAIT_DATA"
  /\ cmd_put' = FALSE
  /\ IF validout
       THEN /\ words_remaining' = words_remaining - 1
            /\ state' = IF words_remaining = 0 THEN "CHECK_ECC" ELSE state
            /\ UNCHANGED <<writeback_needed, scrub_addr, corrected_data>>
       ELSE UNCHANGED <<words_remaining, state, writeback_needed, scrub_addr,
                        corrected_data>>
  /\ UNCHANGED <<scrub_progress, idle_counter, cmd, addr, data_put, data_in,
                 scrub_active, scrub_complete>>

\* Any word the host fetches counts; a corrected one becomes the place and the
\* word to write back.
WaitData(validout, single, raddr, data) ==
  /\ state = "WAIT_DATA"
  /\ cmd_put' = FALSE
  /\ IF validout
       THEN /\ words_remaining' = words_remaining - 1
            /\ state' = IF words_remaining = 1 THEN "CHECK_ECC" ELSE state
            /\ IF single
                 THEN /\ writeback_needed' = TRUE
                      /\ scrub_addr' = raddr /\ corrected_data' = data
                 ELSE UNCHANGED <<writeback_needed, scrub_addr, corrected_data>>
       ELSE UNCHANGED <<words_remaining, state, writeback_needed, scrub_addr,
                        corrected_data>>
  /\ UNCHANGED <<scrub_progress, idle_counter, cmd, addr, data_put, data_in,
                 scrub_active, scrub_complete>>

CheckEcc ==
  /\ state = "CHECK_ECC"
  /\ state' = IF writeback_needed THEN "ISSUE_WRITE" ELSE "WAIT_WRITE"
  /\ SamePort /\ SameRepair /\ SamePlace
  /\ UNCHANGED <<words_remaining, idle_counter, scrub_active, scrub_complete>>

\* Entered with writeback_needed only.
IssueWrite(notfull, ready) ==
  /\ state = "ISSUE_WRITE"
  /\ IF notfull /\ ready
       THEN /\ state' = "WAIT_WRITE"
            /\ cmd_put' = TRUE /\ cmd' = "SCW" /\ addr' = scrub_addr
            /\ data_put' = TRUE /\ data_in' = corrected_data
       ELSE UNCHANGED state /\ SamePort
  /\ SameRepair /\ SamePlace
  /\ UNCHANGED <<words_remaining, idle_counter, scrub_active, scrub_complete>>

\* writeback_needed is not cleared here, only in IDLE.
WaitWrite(notfull) ==
  /\ state = "WAIT_WRITE"
  /\ cmd_put' = FALSE /\ data_put' = FALSE
  /\ IF ~notfull
       THEN SamePlace /\ UNCHANGED <<state, idle_counter, scrub_active, scrub_complete>>
       ELSE IF scrub_addr >= scrub_end_addr
              THEN /\ state' = "IDLE"
                   /\ scrub_complete' = TRUE /\ scrub_active' = FALSE
                   /\ SamePlace /\ UNCHANGED idle_counter
              ELSE /\ state' = "WAIT_IDLE" /\ idle_counter' = 0
                   /\ scrub_addr' = (scrub_addr + SCRUB_BURST_SIZE) % ADDRS
                   /\ scrub_progress' = (scrub_progress + SCRUB_BURST_SIZE) % PROGRESS_MOD
                   /\ UNCHANGED <<scrub_active, scrub_complete>>
  /\ SameRepair
  /\ UNCHANGED <<words_remaining, cmd, addr, data_in>>

ScrubClock(enable, ready, notfull, validout, single, raddr, data) ==
  \/ Idle(enable, ready)
  \/ WaitIdle(notfull, ready)
  \/ IssueRead(notfull, ready)
  \/ WaitData(validout, single, raddr, data)
  \/ CheckEcc
  \/ IssueWrite(notfull, ready)
  \/ WaitWrite(notfull)

\* cmd, addr, data_in and corrected_data have no reset value.
ScrubInit(word) ==
  /\ state = "IDLE"
  /\ scrub_addr = 0 /\ scrub_progress = 0 /\ words_remaining = 0
  /\ idle_counter = 0
  /\ writeback_needed = FALSE /\ corrected_data = word
  /\ cmd_put = FALSE /\ cmd = "NOP" /\ addr = 0
  /\ data_put = FALSE /\ data_in = word
  /\ scrub_active = FALSE /\ scrub_complete = FALSE

ScrubReset ==
  /\ state' = "IDLE"
  /\ scrub_addr' = 0 /\ scrub_progress' = 0 /\ words_remaining' = 0
  /\ idle_counter' = 0
  /\ writeback_needed' = FALSE
  /\ cmd_put' = FALSE /\ data_put' = FALSE
  /\ scrub_active' = FALSE /\ scrub_complete' = FALSE
  /\ UNCHANGED <<corrected_data, cmd, addr, data_in>>
=============================================================================
