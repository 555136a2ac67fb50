-------------------------- MODULE ServerController --------------------------
(***************************************************************************)
(* ddr2_server_controller.v: host and scrubber in front of one controller, *)
(* the memory of ECC codes beside it, and the RAS registers behind it, with *)
(* ECC and scrubbing enabled.  One step is one clock.                      *)
(*                                                                         *)
(* The controller is taken at its port, as a memory that serves commands   *)
(* in order: a write stores the first word of the data FIFO and pops what  *)
(* is there of its burst, a scalar read returns a few words, a NOP         *)
(* nothing.  Its return path is the one of Controller.                     *)
(*                                                                         *)
(* The host works like the tasks of tb_ddr2_server_controller.v: one       *)
(* command at a time, word and command of a write in the same clock, when  *)
(* NOTFULL is high, holding ADDR until the command is served.  It uses     *)
(* every core address with one rank only.                                  *)
(***************************************************************************)
EXTENDS Secded, RasRegisters, Scrubber, Sequences

CONSTANTS
  CMD_DEPTH, DATA_DEPTH,
  READ_WORDS, WRITE_WORDS,  \* words a scalar command pushes and pops
  TRACKED,                  \* addresses below it have a code: 1024 in the code
  HostAddrs,                \* core addresses the host uses
  RankOf,                   \* the rank bits it uses them with
  HostWords,                \* words it writes
  FlipSets,                 \* bits that flip together in memory
  MaxErrors                 \* bound: the host stops after so many errors

ASSUME ServerAssumption ==
  /\ HostAddrs \subseteq 0..(ADDRS - 1)
  /\ RankOf \in [0..(ADDRS - 1) -> Ranks]
  /\ HostWords \subseteq SUBSET DataBits /\ FlipSets \subseteq SUBSET DataBits
  /\ DATA_DEPTH \in Nat \ {0}
  /\ READ_WORDS \in Nat /\ WRITE_WORDS \in Nat /\ TRACKED \in Nat

\* The words of a burst the host has codes for are of the rank it reads.
BurstsStayInRank ==
  \A a \in HostAddrs : \A i \in 1..READ_WORDS :
    (a + i - 1) % ADDRS \in HostAddrs => RankOf[(a + i - 1) % ADDRS] = RankOf[a]

VARIABLES
  ready, ADDR,
  coreQ, dataQ, mem,                  \* the controller and its memory
  answers, out, fetch_pop_r, validout_r,
  ecc_storage, last_read_addr,        \* codes, NoCode where ecc_valid is low
  owed,         \* words of its read the host has not seen
  intended,     \* word of the last write accepted for each address
  flagged       \* uncorrectable words each rank has returned

server == <<ready, ADDR, coreQ, dataQ, mem, answers, out, fetch_pop_r,
            validout_r, ecc_storage, last_read_addr, owed, intended, flagged>>
everything == <<server, ras, scrub>>

Addresses == 0..(ADDRS - 1)
Blank == {}

\* Not a set of code bits.
NoCode == {8}

\* The Faulty definitions below are plausible bugs that the properties must be
\* able to see; no specification uses them.

\* One request of the host: a command, with its word if it writes.
NoRequest == [cmd |-> "NOP", addr |-> 0, word |-> Blank]
Writes == [cmd : {"SCW"}, addr : HostAddrs, word : HostWords]
Reads == [cmd : {"SCR"}, addr : HostAddrs, word : {Blank}]
Requests == {NoRequest} \cup Writes \cup Reads

NOTFULL == Len(coreQ) < CMD_DEPTH

HostIsFree == owed = 0 /\ \A i \in DOMAIN coreQ : coreQ[i].cmd = "NOP"

HostMay(request) ==
  request # NoRequest =>
    /\ ready /\ NOTFULL /\ HostIsFree
    /\ total_corr_errors + total_uncorr_errors < MaxErrors

-----------------------------------------------------------------------------
\* Arbitration.
HostAddress(request) == IF request = NoRequest THEN ADDR ELSE request.addr

host_cmd_put_ok(request) ==
  request # NoRequest /\ RankOf[request.addr] \notin rank_offline

\* Serves the scrubber first.
FaultyArbiter(request) ==
  IF cmd_put THEN <<[cmd |-> "NOP", addr |-> 0]>>
  ELSE IF host_cmd_put_ok(request)
         THEN <<[cmd |-> request.cmd, addr |-> request.addr]>>
         ELSE <<>>

\* The command offered to the controller in this clock, if any.
Arbiter(request) ==
  IF host_cmd_put_ok(request)
    THEN <<[cmd |-> request.cmd, addr |-> request.addr]>>
    ELSE IF ~cmd_put
           THEN <<>>
           ELSE IF cmd_req THEN <<[cmd |-> cmd, addr |-> addr]>>
                           ELSE <<[cmd |-> "NOP", addr |-> 0]>>

\* The word of a request is offered even if its rank is offline.
ArbiterData(request) ==
  IF request.cmd = "SCW" THEN <<request.word>>
  ELSE IF data_put THEN <<data_in>> ELSE <<>>

-----------------------------------------------------------------------------
\* The controller at its port.
ReadBurst(first) ==
  [i \in 1..READ_WORDS |->
     LET a == (first + i - 1) % ADDRS IN [raddr |-> a, data |-> mem[a]]]

Serve(execute) ==
  LET head == IF execute THEN Head(coreQ) ELSE [cmd |-> "NOP", addr |-> 0]
      writes == head.cmd = "SCW"
      left == IF writes THEN SubSeq(dataQ, WRITE_WORDS + 1, Len(dataQ)) ELSE dataQ
  IN  [cmds |-> IF execute THEN Tail(coreQ) ELSE coreQ,
       mem |-> IF writes THEN [mem EXCEPT ![head.addr] = Head(dataQ)] ELSE mem,
       data |-> left,
       read |-> IF head.cmd = "SCR" THEN ReadBurst(head.addr) ELSE <<>>]

\* The host fetches while it is owed words, every second clock.
FETCHING == owed > 0 /\ ~fetch_pop_r
Pops == FETCHING /\ answers # <<>>

Core(execute, request) ==
  LET served == Serve(execute)
  IN  /\ coreQ' = served.cmds \o (IF NOTFULL THEN Arbiter(request) ELSE <<>>)
      /\ dataQ' = served.data \o
           (IF Len(dataQ) < DATA_DEPTH THEN ArbiterData(request) ELSE <<>>)
      /\ mem' = served.mem
      /\ answers' = (IF Pops THEN Tail(answers) ELSE answers) \o served.read
      /\ out' = IF Pops THEN Head(answers) ELSE out
      /\ fetch_pop_r' = Pops
      /\ validout_r' = fetch_pop_r

-----------------------------------------------------------------------------
\* Codes.
StoresCode(command) == command.cmd \in {"SCW", "BLW"}

\* The code is the one of DIN in this clock, stored whatever NOTFULL says.
EccStore(request) ==
  LET offered == Arbiter(request)
  IN  ecc_storage' =
        IF offered # <<>> /\ StoresCode(Head(offered)) /\ Head(offered).addr < TRACKED
          THEN [ecc_storage EXCEPT ![Head(offered).addr] = ecc_out(request.word)]
          ELSE ecc_storage

addr_has_ecc == out.raddr < TRACKED /\ ecc_storage[out.raddr] # NoCode

Checked == validout_r /\ addr_has_ecc
ecc_single_err == Checked /\ single_err(out.data, ecc_storage[out.raddr])
ecc_double_err == Checked /\ double_err(out.data, ecc_storage[out.raddr])

DOUT == IF addr_has_ecc THEN data_corrected(out.data, ecc_storage[out.raddr])
                        ELSE out.data

LastRead == last_read_addr' = IF validout_r THEN out.raddr ELSE last_read_addr

FaultyErrRank(request) == RankOf[last_read_addr]

\* The rank bits on ADDR in this clock.
err_rank(request) == RankOf[HostAddress(request)]

-----------------------------------------------------------------------------
Books(request) ==
  LET accepted == host_cmd_put_ok(request)
  IN  /\ ADDR' = HostAddress(request)
      /\ owed' = IF accepted /\ request.cmd = "SCR" THEN READ_WORDS
                 ELSE IF validout_r THEN owed - 1 ELSE owed
      /\ intended' = IF accepted /\ request.cmd = "SCW"
                       THEN [intended EXCEPT ![request.addr] = request.word]
                       ELSE intended
      /\ flagged' = IF ecc_double_err
                      THEN [flagged EXCEPT ![RankOf[out.raddr]] = @ + 1]
                      ELSE flagged

ServerClock(request) ==
  /\ HostMay(request)
  /\ ready' \in {ready, TRUE}
  /\ \E execute \in {FALSE, ready /\ coreQ # <<>>} : Core(execute, request)
  /\ EccStore(request)
  /\ LastRead
  /\ ScrubClock(TRUE, ready, NOTFULL, validout_r /\ FETCHING, ecc_single_err,
                out.raddr, DOUT)
  /\ RasClock(ecc_single_err, ecc_double_err, last_read_addr, err_rank(request))
  /\ Books(request)

\* Bits of a word in memory flip together; the next write repairs them.
Fault ==
  /\ \E a \in HostAddrs, F \in FlipSets :
       /\ ecc_storage[a] # NoCode
       /\ mem[a] = intended[a]
       /\ mem' = [mem EXCEPT ![a] = Flip(@, F)]
  /\ UNCHANGED <<ready, ADDR, coreQ, dataQ, answers, out, fetch_pop_r,
                 validout_r, ecc_storage, last_read_addr, owed, intended,
                 flagged, ras, scrub>>

\* Codes are forgotten, and the memory is powered up anew: no word in it means
\* anything before it is written.
ServerReset ==
  /\ RasReset /\ ScrubReset
  /\ ready' = FALSE /\ ADDR' = 0
  /\ coreQ' = <<>> /\ dataQ' = <<>> /\ answers' = <<>>
  /\ out' = [raddr |-> 0, data |-> Blank]
  /\ fetch_pop_r' = FALSE /\ validout_r' = FALSE
  /\ ecc_storage' = [a \in Addresses |-> NoCode] /\ last_read_addr' = 0
  /\ owed' = 0 /\ flagged' = [r \in Ranks |-> 0]
  /\ mem' = [a \in Addresses |-> Blank] /\ intended' = mem'

ServerInit ==
  /\ RasInit /\ ScrubInit(Blank)
  /\ ready = FALSE /\ ADDR = 0
  /\ coreQ = <<>> /\ dataQ = <<>> /\ answers = <<>>
  /\ mem = [a \in Addresses |-> Blank]
  /\ out = [raddr |-> 0, data |-> Blank]
  /\ fetch_pop_r = FALSE /\ validout_r = FALSE
  /\ ecc_storage = [a \in Addresses |-> NoCode] /\ last_read_addr = 0
  /\ owed = 0 /\ intended = mem /\ flagged = [r \in Ranks |-> 0]

ServerNext ==
  \/ \E request \in Requests : ServerClock(request)
  \/ Fault
  \/ ServerReset

ServerSpec == ServerInit /\ [][ServerNext]_everything

-----------------------------------------------------------------------------
(* A word read back is reported exactly if it is not the word last written   *)
(* to its address, and as uncorrectable if two bits differ, whatever became  *)
(* of it on the way (flips of the memory, words of the scrubber in the data  *)
(* FIFO), as long as no more than two bits differ.                           *)
EccExact ==
  Checked =>
    LET wrong == Cardinality(Flip(out.data, intended[out.raddr]))
    IN  wrong <= 2 =>
          /\ wrong > 0 <=> ecc_single_err \/ ecc_double_err
          /\ wrong = 2 => ecc_double_err

(* A word of which one bit has flipped in memory reaches the host as it was  *)
(* written.                                                                  *)
SingleFlipIsCorrected ==
  Checked /\ Cardinality(Flip(out.data, intended[out.raddr])) = 1
    => DOUT = intended[out.raddr]

(* The offline ranks are those that returned more uncorrectable words than   *)
(* the threshold, each rank charged with its own words only.                 *)
OfflineRanksAreFaulty ==
  rank_offline = {r \in Ranks : flagged[r] > uncorr_err_threshold}

(* The scrubber's counters stay in step with its states: a block is finished *)
(* by exactly its number of words, a write-back only follows a correctable   *)
(* error, and until one moved it the place it scrubs is its progress.        *)
ScrubInStep ==
  /\ words_remaining > 0 <=> state = "WAIT_DATA"
  /\ words_remaining <= SCRUB_BURST_SIZE
  /\ state = "ISSUE_WRITE" => writeback_needed
  /\ state # "IDLE" /\ ~writeback_needed => scrub_addr = scrub_progress % ADDRS
=============================================================================
