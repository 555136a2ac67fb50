# Formal model of the DDR2 controller core

TLA+ modules, TLC configurations and TLAPS proofs for the RTL under `src/dut`.
One TLA+ step is one rising edge of `CLK`: every register of a module takes its
next value at once, as nonblocking assignments do.  Outputs are registers, so
the command an FSM arm drives is on the pins during the following cycle.
`PROJECT.json` lists the components, runs, mutants, hazards, findings, theorems,
and the source lines behind every definition.

## 1. Inventory of the system

| component | state it keeps | operations | makes it correct | here |
|---|---|---|---|---|
| protocol engine `ddr2_protocol_engine.v` | FSM state (36 states), dwell counter `cnt`, refresh counter, ACT-gap counter, latched command, burst counters, low-power and DLL flags, registered pins | one FSM arm per clock; arbitration in IDLE between self-refresh, DLL change, power-down, refresh, command | legal command order and spacing, refresh interval, word counts, quiet low power, no starvation | modelled (write masks, DQS and address bits left out); safety proved |
| power-up sequencer `ddr2_init_engine.v` | 26-state FSM, shared wait counter, READY, CKE, ODT, pins | start, command, wait, ready | sequence in order, waits kept, READY last, completion | modelled, safety proved |
| FIFO `fifo.v` (command, data, return) | ring, pointers, level, output register | put, get, both, reset | bounded FIFO order, level = pointer distance | modelled, proved |
| top level `ddr2_controller.v` | three FIFOs, `fetch_pop_r`, `validout_r`, CS# fan-out, CKE override | enqueue, fetch, route | no accepted word lost, data paired with VALIDOUT | modelled but for the read tracker of SIM_DIRECT_READ |
| ring buffer `ddr2_ring_buffer8.v` | eight words, index, capturing flag | capture, select | eight consecutive words per listen | not modelled (section 5) |
| PHY `ddr2_phy.v` | divided clock | pin multiplexing | init/protocol hand-over | not modelled (section 5) |
| command CRC front-end | none | pass-through | - | not modelled (combinational) |
| server controller `ddr2_server_controller.v` | ECC codes and valid bits per address, last addresses | host/scrubber arbitration, ECC store and check | no request lost, code and data agree | modelled |
| scrubber `ddr2_scrubber.v` | FSM, address, remaining words, captured data | read, check, write back, advance | steps and counters agree, also through words shared with the host | modelled |
| RAS registers `ddr2_ras_registers.v` | error counters, status, offline ranks | count, threshold | thresholds, sticky flags | modelled but for the syndrome log and the read multiplexer |
| ECC `ecc_secded.v`, `ecc_core.v` | none | encode, decode | corrects one flip, detects two | modelled |
| monitors `src/test/ddr2_*` | timers at the pins | check | - | two of them are the pattern for the observers below |
| simple memory, test benches, UVM, UVM library | - | stimulus | - | not modelled |

**How they interact.** The host puts commands (CMD, SZ, ADDR) and write words into
FIFOs of the top level; the protocol engine pops one command at a time, drives
the pins through the PHY, pops eight data words per write burst, and pushes read
words into the return FIFO, which the host drains with FETCHING.  Until READY the
init engine owns the pins.  Low-power and DLL requests are plain inputs to the
engine.  CS# is one-hot on `rank_sel_o` after READY; CKE is common to all ranks.

The server controller puts itself in front of four such controllers, which work
in lockstep on slices of one word.  Host and scrubber share the command port;
each accepted write leaves its code in a table beside the memory, each word
fetched is decoded against the table, and what the decoder says goes to DOUT, to
the RAS registers (which may take a rank offline, and so gate the host) and to
the scrubber.

**What is hard here.**  All modules run on one clock, so there is no race in
the software sense; the difficulty is in *sequences*: counters shared between
states, loads that are conditional on a counter being 0, outputs that lag their
flags by a cycle, requests that abort a sequence half-way, commands dropped
after their ACTIVATE, parameters cut to a register's width, registers missing
from the reset branch, and competition in IDLE.  The hazards in `PROJECT.json`
name the lines.

## 2. Modules

| module | what it is |
|---|---|
| `ProtocolEngine` | the engine: one action per FSM arm (split by branch), one operator per default assignment |
| `EngineTiming` | observer of the pins: ages of ACT, PRE, REF, MRS, CKE low, as `ddr2_timing_checker.v` keeps them; the spacing properties |
| `EngineTransfers` | observer of FIFO traffic: words popped and pushed, column commands per host command |
| `EngineWatched` | engine + both observers (`WatchedSpec`) |
| `DramProtocol` | abstract specification: the order of commands one DDR2 rank accepts |
| `EngineOnDram` | engine + CS# fan-out + what each rank makes of the commands (`openBanks`); implements `DramProtocol` for every rank |
| `EngineRefresh` | engine + the interval measured as in `ddr2_refresh_monitor.v`; host policies; liveness |
| `Controller` | engine + FIFOs with their output registers, the pop and VALIDOUT registers, the write-data register; implements `BoundedQueue` on its command path |
| `ControllerHost` | controller + a host like the tasks of `tb_ddr2_controller.v`, and what it and the pads observe |
| `Secded` | `ecc_secded.v` as functions on sets of bits |
| `RasRegisters`, `Scrubber` | one module each, as variables and one action per branch or state |
| `ServerController` | host, scrubber, code table, decoder and RAS registers around a controller taken at its port; bits may flip in memory |
| `BoundedQueue` | abstract specification: bounded first-in first-out queue with an output register |
| `Fifo` | `fifo.v`; implements `BoundedQueue` |
| `InitEngine`, `InitTiming` | the power-up FSM, and the log and ages seen at its pins |
| `MC*` | instances for TLC; the values are in the cfg files |
| `ProtocolEngine_proofs` | types; low power, write window, and the engine's walk: which state follows which, with what count, command and strobe |
| `EngineWatched_proofs`, `EngineOnDram_proofs`, `EngineRefresh_proofs` | on that walk: timing and transfers at the pins; refinement of `DramProtocol`; the refresh interval |
| `Fifo_proofs`, `Controller_proofs`, `InitTiming_proofs`, `ServerController_proofs` | theorems of those modules (`Controller_proofs` also of `ControllerHost`) |

### State and actions against the code

* `st`, `cnt`, `refCnt`, ... carry the names of the registers.  `cur` is the
  record of `cmd_reg`, `sz_reg`, `bank_reg`, `rank_sel_reg`.  `bus` is the command
  that CS#/RAS#/CAS#/WE# encode; `a_o` is a pattern (a row, a column with bit 0
  clear or set, only A10, a mode value), since no property compares addresses bit
  by bit.  `strobe` groups `get_cmdFIFO_o`, `get_dataFIFO_o`, `put_returnFIFO_o`,
  `listen_ringBuff_o`, `ts_i_o`.
* The inputs are free at every clock: requests, an empty or non-empty command
  FIFO, the command at its head, RANK_SEL, the return-FIFO level.  A branch of
  IDLE with a request as guard becomes an action that may be taken; that it is
  *not* taken because an earlier branch has priority is a guard on state only,
  because an earlier branch's request can always be absent.
* `ready` is the init engine's output: it rises at any clock and falls only in
  `Reset`.
* `Reset` leaves alone exactly the registers the reset branch does not mention:
  `dll_in_progress`, `dll_tdllk_cnt`, `dll_busy_o`, `idle_quiet_cnt`,
  `auto_selfref_req`.  For the same reason `Init` leaves the flags among them
  free.
* `CNT_RIDL` (99 in the code) is a constant of the model, so that TLC can shorten
  the refresh period.  All other localparams are those of the code, cut to the
  width of the register they are loaded into.
* `Controller` removes the freedom of the inputs that come from FIFOs:
  `EngineSeesQueues` ties the waiting command, the command latched and the level
  of the return FIFO to the queues.  Words carry the number of the command they
  were put for, so that a word in the wrong place can be told; `dq` is
  `dq_SSTL_o`.
* `ServerController` takes the controller as a memory that serves its command
  queue in order: a write stores the first word waiting and pops up to eight, a
  read returns some words.  The write lag of section 6 is left out, because the
  codes would then never match.  `Fault` flips bits of a word that has a code.
  `ServerReset` powers the memory up anew with the rest; the code has no other
  way to forget its codes.
* Left out: write masks and DQS registers (`dm_SSTL_o`, `dqs_SSTL_o`, `ri_i_o`), row and column bits, `$display`, and the simulation
  assertions at the end of the file.
* Operators named `Faulty...`, `Trapping...`, `Frozen...` are plausible bugs, each
  paired in `PROJECT.json` with the property that notices it.  No specification
  uses them.

## 3. Runs

| run | question | bounds |
|---|---|---|
| `engine_watched` | register widths, quiet low power, tRP, tRFC, tDLLK, tXP, tXSR, tRAS with a refresh always near | one bank and rank, size 1 (two bursts per block), refresh period 10/6, waits 6/5/5, READ_LAT 24 |
| `engine_traffic` | commands of every kind following each other directly: ACT spacing, tRCD, write window, words per burst | no refresh due (`REF_THRESH_CFG = 0`), sizes 0 and 1 |
| `engine_on_dram` | command order each rank sees | two banks, one rank, period 32/4: dropped commands and reads follow each other, writes are followed by the refresh they delayed |
| `engine_refresh` | refresh interval; refresh served; IDLE again and again; every fetched command activated | period 90/80, a little more than the longest command, which keeps its real length |
| `controller` | command order through FIFO and latch, words of writes, room for reads, VALIDOUT | depths 2/24/18, scalar reads and blocks of two bursts, refresh off, requests and RESET at any clock |
| `server` | decoder, code table, counters, offline ranks, scrub steps | four addresses in two ranks, bursts of two words, thresholds of one, two errors, flips of bits {0} and {0,1}; the decoder besides over all single and double flips of 64 bits |
| `fifo` | ring, queue refinement | depth 4, three words: every offset of the pointers, full, empty, wrap |
| `init_timing` | order, gaps, completion of power-up | real waits, SIM_SHORT_INIT power-up count, RESET at every clock, both calibrations on |
| `refute_*` | statements of the repository the code does not meet (section 6) | as the passing run of the same module; `refute_write_words` has a host that only writes blocks of one burst |

*Why the bounds are enough.*  The engine treats banks and ranks as names only;
the ACT-gap counter keeps its real 6..63 range; dwell counts that matter to a
property keep their real value or are larger than the cycles the engine spends
anyway before the next command, so that losing the wait is visible (each run's
mutants check that).  A refresh period shorter than a command makes every
collision of the two happen; `engine_traffic` adds the opposite end, and
`engine_refresh` has the true proportion, threshold larger than the longest
command.  Observer ages saturate one above the largest bound they are
compared with.  In `controller` the data FIFO holds one
block and a half, the return FIFO two reads, and there are two command slots:
each is full, empty and in between while requests interrupt the host.  In `server`
the two errors reach and exceed both thresholds; two addresses of the host and
two that only the scrubber visits make two blocks per pass.

*Hosts.*  What the code leaves to its user, the models' hosts respect, and no more.
`ControllerHost`: one command prepared at a time, its words put before it, one
per clock where there is room, FETCHING not in two clocks running (with
`Continuous = TRUE` the property `ValidoutPairs` fails: VALIDOUT is then one word
behind), and it pauses only while the engine is idle or asleep.
`ServerController`: one command at a time, ADDR held until it is served, one rank
per core address; it does not know which ranks are offline, so its requests to
those are refused and their words stay.

*Fairness* appears in two places.  `engine_refresh`: weak fairness of a clock
step that is `Responsive` - the clock runs, the init engine finishes, and the
host eventually ends a low-power period it asked for (nothing in the code ends
self-refresh or power-down).  `PoliteHost` raises an exit request only once
its mode has been entered, and does not ask for self-refresh while a refresh is
due; without these `RefreshIntervalBounded` fails (section 6).  RESET stays low
there, since the monitor is reset with the engine.  `init_timing`: the clock
runs; completion is claimed only for behaviours that leave S_IDLE for good,
i.e. after the last RESET.

*Deadlock* is checked in every run: each state of each FSM has a successor.

### Properties worth reading

* `TrpRespected`, `ActivatesSpaced`: an aborted low-power entry returns to IDLE
  while its PRECHARGE ALL is still on the pins, and a dropped command right
  after its ACT; the next command must still keep tRP and the ACT gap.  What
  saves them is the latency of GETCMD, not a timer.
* `TrasOfServedCommands`: tRAS has no timer either; it holds for rows that were
  read or written because the data phases are long, and not for dropped commands.
* `TrfcRespected`: RREF leaves at `cnt = 1`; one cycle later is a second REF.
* `TxsrRespected`: kept but for the cycle by which `selfref_active_o` lags.
* `RanksAreServed`: columns only to open rows, REF, MRS and CKE-low only with
  every bank closed, although the engine tracks no rows: each such sequence must
  begin with its own PRECHARGE ALL to the same rank.
* `WritesPopTheirWords`: `burst_cnt` and the dwell counter of SCWRDATA are
  separate; a block of n bursts must pop exactly 8n words.
* `RefreshIntervalBounded`, `RefreshServed`: the counter is reloaded in one arm
  and forced in others; priorities in IDLE must not starve the refresh.
* `CommandsInOrder`: the command latched is the one asked for two clocks before,
  through refreshes, low-power periods, DLL changes and RESET; GETCMD's count is
  all that assures it.
* `WordsMeetTheirCommand`: data and commands travel in two FIFOs that only the
  counting of both sides keeps aligned.
* `ReadsAreAnswered`: the host's account of words owed against the return FIFO, at
  rest; commands, words and pops are counted in three modules.
* `ReturnHasRoom`: the engine checks for room on block reads only; the host's
  reckoning (nine words per read) must be exact.
* `FlipsAreReported` (`Secded`, evaluated by TLC as an assumption of `MCServer`): the
  decoder against the definition of SEC-DED, over all flips of one or two bits of
  three words.
* `EccExact`: code and word of a write part at the arbiter and meet again at the
  decoder; refused writes and words of the scrubber come between.
* `OfflineRanksAreFaulty`: the rank charged is the rank bits of the current ADDR.
* `ScrubInStep`: the scrubber counts words that the host fetches for itself.
* `ImplementsQueue`, `SequenceInOrder`, `EventuallyReady`.

## 4. Proofs

TLAPS checks, for every value of the constants that satisfies the module's
named assumptions:

* `ProtocolEngine_proofs!TypeCorrect`: `Spec => []TypeOK`.  The interesting part
  is the widths: every load fits (`CNT_SCREAD` and `TRCD_WAIT` are cut to six
  bits, the size table to 31, ...), and `cnt`, `refCnt`, `act_gap_cnt`,
  `idle_quiet_cnt`, `dll_tdllk_cnt` never leave their range.  `TypeOK` is
  inductive; it is split in five named parts so that each action is shown to
  keep each part, with the word sets (`Word7`, ...) left closed where the
  action only copies.
* `ProtocolEngine_proofs!QuietInvariant`, and from it `LowPowerIsQuiet`
  (`Spec => []LowPowerQuiet`) and `WriteWindowIsClean` (`Spec => []WriteWindow`).
  Neither is inductive.  `QuietInv` adds what the code relies on implicitly: ODT
  is on exactly in the states of a write burst, `selfref_active` is up only in
  SREF_ENTER and SREF_IDLE, `pdown_active_o` only in PD_IDLE.  With these a
  state that drives a command cannot coincide with a low-power flag one cycle
  earlier (the flag's delayed copy included).
* `Fifo_proofs`: `TypeCorrect`, `LevelIsDistance` (`count` is the distance of the
  pointers modulo the depth, and full is told from empty by the level),
  `RefinesQueue` (`Spec => Queue!Spec`): initial states map to initial states,
  every clock to a put, get, both or neither of the abstract queue.
* `ProtocolEngine_proofs!ClockMoves` is the lemma the next proofs share: every clock
  is one of some fifty *moves* (state, guard on `cnt`, next state and count, command
  on the pins), and every state but GETCMD keeps the latched command.
  `CommandInvariant` adds which command each state works for and where its tRCD
  wait leads, `Strobes` when each FIFO is strobed.
* `EngineWatched_proofs` (of `WatchedSpec`): eight spacing properties and two on
  words.  Each spacing property has an invariant that says, state by state, that
  the age at the pins and what the dwell counter still holds cover the bound:
  `TrpInv`, `TrfcInv`, `TdllkInv`, `TxpInv`, `TxsrInv`, `TrcdInv`, `ActInv`,
  `TrasInv`.  `ActInv` relates the gap counter to the age of the last ACT edge,
  through dropped commands.  The ages saturate in the model, at caps from which the
  bounds follow, so the invariants speak of saturated ages.  `TransferInv` does the same
  for words: what has been popped is `8 *` bursts done `+` the burst under way.
  Three theorems have a hypothesis on the bound the monitors check, since the code
  has no timer for it: `TRP_MIN <= 4`, `TRCD_MIN <= 64` (the width of the wait) and
  `TRAS_MIN` at most the length of the shortest read and write.  The repository's
  bounds are 4, 4 and 20 (`src/test/ddr2_timing_config.vh:24-26`).
* `EngineOnDram_proofs!SingleRankIsServed` (`DramSpec => RanksAreServed`, with
  `Ranks = {0}`): every clock maps to a step of `DramProtocol` or to none, for
  every number of banks.  `RowInv` says in which states all banks are closed, in
  which the row of the command is open, and that CKE is low only in the former.
  With several ranks the statement is false (section 6), hence the hypothesis.
* `EngineRefresh_proofs!RefreshesInTime` (`PoliteSpec => []RefreshIntervalBounded`).
  The engine has no deadline: a refresh is looked for in IDLE only, and whatever IDLE
  started a clock before it became due runs to its end.  `RefreshInv` bounds in every
  state the clocks until the next REF, by the dwell counter, what is left of the ACT
  gap, the bursts a block still has, and the walk home (`TimeFits`); with it go
  `CountedDown` (`refCnt` falls as fast as the interval grows, so "not due" bounds the
  interval), `AsleepWithCkeLow` (the states that may last for ever do not count) and
  `RefreshOnce`.  The hypothesis `SettingsFit` asks of the settings, before any run,
  that the longest of these errands, started at the last moment, leaves time for the
  refresh.  It holds for the code's values (`REF_CNT_INIT` 3900, `REF_THRESH` 1600 and
  `src/test/ddr2_timing_config.vh:56`), where about 1300 clocks are to spare, and
  `MCEngineRefresh` has TLC evaluate it for the instance of the run.  With an impolite
  host the statement is false (section 6).
* `Controller_proofs!CommandPathIsQueue` (`AnyHostSpec => CommandsInOrder`): with
  any host, each clock is a step of the bounded queue or none.  Every clock of
  the engine has one of four shapes (it asks for a command, waits in GETCMD,
  latches, or has nothing to do with commands); `PortInv` says that the pop is
  under way only in GETCMD with its counter not yet 0, so it is over before the
  engine latches.  `TypeCorrect` serves to exclude that a tRCD wait leads to
  GETCMD.  `HostCommandsInOrder`: so it is with the host that `controller` runs.
* `Controller_proofs!ScalarReadsHaveRoom` and `EveryReadIsAnswered`, from `OwedInv`:
  the words owed are those in the return FIFO, the one whose strobe is up, nine
  for each read pending, and what the command at work has still to put (`Left`:
  nine until its first word, then the counter of SCREND).  The reads pending are
  counted as the cardinality of a set of positions, so that an entry joining at
  one end and leaving at the other changes it by one without recursion.  The
  host's own reckoning keeps the sum within `RET_DEPTH`.
* `Controller_proofs!WordsFindTheirCommand` (`HostSpec => []WordsMeetTheirCommand`).
  The words waiting are a concatenation, over the commands waiting, of as many words as
  each needs.  `MeetInv` says so without recursion: there are offsets (`Offsets`) from
  which the words of each command begin, the first after those the command at work has
  still to pop (`ToAsk`, `Asking`: bursts left of a block and words left of a burst), the
  last before those put for the command in preparation.  Popping shifts the offsets,
  enqueueing adds one, latching drops the first (`MeetsPop`, `MeetsPut`, `MeetsJoin`,
  `MeetsLatch`), and `AskClock` says that the engine asks for exactly as many words as
  the host puts.
* `Controller_proofs!ValidoutAnnouncesItsWord`, for a host that does not fetch in
  two clocks running (`~Continuous`; otherwise it is false, section 3): `PopInv`,
  at most one word is popped and not announced, and DOUT still shows it.
* `InitTiming_proofs` (of `TimingSpec`): `TypeCorrect`, `PowerUpInOrder`,
  `CommandsKeepGaps`, `FirstCommandWaitsForCke`, `CalibrationSettles`.  `InitInv`
  ties the state to the number of commands issued (`Issued`), and age and counter
  to the gap the command before is owed.  That is subtle because the code loads the
  counter in the state *before* the command, and some loads never happen
  (section 6).
* `ServerController_proofs!ScrubberStaysInStep` (`ServerSpec => []ScrubInStep`).
  The invariant is inductive with its types; the step that needs an argument is the
  one where address and progress wrap at different ends, which is sound because the
  range of the progress is a multiple of the memory's size (`ScrubAssumption`).
  `FlagsFollowCounts` and `StatusFollowsErrors` (`StatusMatchesCounters`): totals,
  flags and offline ranks as functions of the counts per rank.  A total is the
  cardinality of the set of counted errors, which one more error extends by one.
* `ServerController_proofs!DecoderExact`: the decoder by itself, for every word and
  at most two flipped bits.  Parities and the overall parity of a symmetric difference
  are those of its parts combined, so the syndrome of a damaged word is a function of
  the bits that flipped (`Syndrome`), and two data bits never have the same one
  (`TwoBitsShow`).
  `ReportsAreExact` (`ServerSpec => []EccExact`) puts it to use: by `EccInv` at most one
  command of the host is on its way, a write on its way has its word in the data FIFO,
  and a code kept for an address is that of the word last written there.
* `ServerController_proofs!RanksAreChargedFairly` (`OfflineRanksAreFaulty`).  The code
  takes the rank of an error from ADDR, not from the word; `OwedInv` counts the words on
  their way to the host, which makes no request until it has them, so by `RanksInv` ADDR
  still names their rank.  The hypothesis `BurstsStayInRank` (no burst of the host
  reaches an address it uses with another rank) is how rank bits above the column are
  used; `MCServer` has TLC evaluate it.  The code does not enforce it.

Only model-checked, and why:

* liveness (`RefreshServed`, `EventuallyReady` and the rest of the temporal
  properties under fairness): fairness and ENABLED are beyond the prover.

No module that is proved about declares a recursive operator.

## 5. Not modelled, and why

* *Ring buffer*: its output feeds an input of the engine that nothing reads, so no
  behaviour of the controller depends on what it captures; words of a read are
  {address + readPtr, DQ} in the return FIFO, as in `Controller`.
* *PHY*: multiplexers selected by READY, tri-state pads, a divided clock; the
  hand-over is the engine's `ready`.
* *CRC front-end*: passes commands through.
* *SIM_DIRECT_READ*: a simulation path from the memory model to DOUT.
* *Server controller*: slices 1 to 3 carry more bits of the same word;
  `scrub_count`, the logged syndrome and the register read port only report.
  Between `Controller` and the memory `ServerController` assumes no refinement is
  stated: the code has none, because of the write lag.
* Monitors, test benches, UVM and the vendored UVM library: verification code.
  Two of the monitors are the pattern of `EngineTiming` and `EngineRefresh`.

## 6. Where the repository's statements and the code part

Shown by a `refute_` run each, quoted in `PROJECT.json`:

* a block read returns nothing: BLR_READ goes to SCRNLSN, which has no arm;
* rows are left open and their bank is activated again without PRECHARGE;
* the word driven on DQ lags its pop by two clocks: a write burst drives two stale
  words, and its last two words never;
* ECC corrects no data bit: a flip of bit i has syndrome 64 + i, so bit 0 inverts
  bit 63 and every other bit is reported as uncorrectable.

Observed while modelling, without a run of their own.  Engine and controller:

* aborted low-power entries reload the refresh counter without a refresh
  (`ddr2_protocol_engine.v:892-893`), and only a polite host keeps the interval;
* `dll_in_progress` is not reset, and sticks when RESET interrupts a change, against
  `ddr2_protocol_engine.v:113-115`;
* before CKE falls only the rank selected last is precharged, against
  `ddr2_protocol_engine.v:119-121`; `engine_on_dram` therefore has one rank;
* with the default parameters automatic self-refresh never happens, against
  `TESTING.md:85`: `AUTO_SREF_IDLE_CYCLES` is cut to 12 bits and longer than the
  quiet time between refreshes;
* `ddr2_init_engine.v`: S_PRE is entered with `cntr = 1` and S_FINAL_PRE with the
  final count, so the conditional loads of TRP_CYCLES and ZQ_WAIT_CYCLES never
  happen, against `docs/DDR2.md:410` and `ddr2_init_engine.v:48-50`;
* a command dropped after its ACTIVATE (NOP, reserved, block read without room)
  opens its row, against `docs/DDR2.md:903`, and its row can be precharged before
  tRAS, against `ddr2_timing_checker.v:230`;
* a scalar read pushes nine words, word 0 twice (`ddr2_protocol_engine.v:584`);
* an exit request in the second cycle of SREF_ENTER pulses CKE low for one cycle
  and begins no exit wait; self-refresh is entered with NOP on the pins;
* the assertion at `ddr2_protocol_engine.v:1069` would fire in the second cycle of
  SREF_ENTER;
* VALIDOUT is a cycle behind the FIFO's output register (`ddr2_controller.v:342`);
* NOTFULL speaks for the command FIFO only, so a word put into a full data FIFO is
  dropped without a signal (`ddr2_controller.v:216`), against `docs/DDR2.md:305`.

Server controller:

* the scrubber never raises `cmd_req`, so its requests leave the arbiter as NOPs at
  address 0, while the word of a write-back still enters the data FIFO and is
  popped with the next write;
* `writeback_needed` is cleared only in IDLE, so each block after the first
  correctable error ends in a write-back of the same word;
* a pass ends only at the last address exactly, which steps of eight from 0 never
  reach: it wraps round without `scrub_complete`, unless an error moves it
  (`ddr2_scrubber.v:227`);
* the word of a write to an offline rank is enqueued although its command is not;
* a code is stored whatever NOTFULL says, without rank bits, and once per burst;
* the address logged with an error is that of the read before, and the rank that of
  the current ADDR.

## 7. Plan

Every safety invariant that a run checks is proved, and so are the two refinements and the
order of commands; the four properties left are liveness.  Next: `MeetInv` with the
numbers of the words (a command's words reach the engine in the order they were put),
and the words of a read in the return FIFO the same way.
