----------------------- MODULE ServerController_proofs -----------------------
(***************************************************************************)
(* The scrubber's counters, the RAS status, the decoder and the answers of  *)
(* the server controller, for every size, burst, word, threshold and host.  *)
(***************************************************************************)
EXTENDS ServerController, FiniteSetTheorems, SequenceTheorems, TLAPS

States == {"IDLE", "WAIT_IDLE", "ISSUE_READ", "WAIT_DATA", "CHECK_ECC",
           "ISSUE_WRITE", "WAIT_WRITE"}

ScrubType ==
  /\ state \in States
  /\ words_remaining \in Nat /\ scrub_progress \in Nat

\* ScrubInStep is inductive but for the types.
ScrubInv == ScrubType /\ ScrubInStep

-----------------------------------------------------------------------------
(* The remainder is determined by its range.                                 *)
LEMMA Remainder ==
  ASSUME NEW n \in Int, n > 0, NEW q \in Int, NEW r \in 0..(n - 1)
  PROVE  (q * n + r) % n = r
  OBVIOUS

(* Division with remainder, for a divisor that is not zero.                  *)
LEMMA Division ==
  ASSUME NEW x \in Int, NEW n \in Int, n > 0
  PROVE  \E q \in Int : x = q * n + (x % n) /\ (x % n) \in 0..(n - 1)
<1>1. x = n * (x \div n) + (x % n)
  OBVIOUS
<1>2. n * (x \div n) = (x \div n) * n
  OBVIOUS
<1>3. x \div n \in Int /\ (x % n) \in 0..(n - 1)
  OBVIOUS
<1> QED BY <1>1, <1>2, <1>3

(* A factor taken out.                                                       *)
LEMMA Factor ==
  ASSUME NEW a \in Int, NEW b \in Int, NEW c \in Int, NEW n \in Int
  PROVE  (a + b - c) * n = a * n + b * n - c * n
  OBVIOUS

(* A step taken modulo a multiple of a is the same step modulo a.            *)
LEMMA WrapsAgree ==
  ASSUME NEW p \in Int, NEW b \in Int, NEW a \in Int, a > 0, NEW k \in Int, k > 0
  PROVE  ((p % a) + b) % a = ((p + b) % (k * a)) % a
<1>1. PICK q \in Int : p = q * a + (p % a) /\ (p % a) \in 0..(a - 1)
  BY Division
<1>2. k * a \in Int /\ k * a > 0
  OBVIOUS
<1>3. ASSUME NEW m \in Int, m = (p + b) % (k * a),
             NEW t \in Int, t = m % a
      PROVE  ((p % a) + b) % a = t
  <2>1. p + b \in Int
    OBVIOUS
  <2>2. PICK r \in Int : p + b = r * (k * a) + m
    BY <1>2, <1>3, <2>1, Division
  <2>3. PICK s \in Int : m = s * a + t /\ t \in 0..(a - 1)
    BY <1>3, Division
  <2>4. r * k \in Int /\ (r * k + s - q) \in Int
    OBVIOUS
  <2>5. r * (k * a) = (r * k) * a
    OBVIOUS
  <2>6. (r * k + s - q) * a = (r * k) * a + s * a - q * a
    BY <2>4, Factor
  <2>7. (p % a) + b = (r * k + s - q) * a + t
    BY <1>1, <2>2, <2>3, <2>5, <2>6
  <2>8. ((r * k + s - q) * a + t) % a = t
    BY <2>3, <2>4, Remainder
  <2> QED BY <2>7, <2>8
<1>4. (p + b) % (k * a) \in Int
  BY <1>2
<1>5. ((p + b) % (k * a)) % a \in Int
  BY <1>4
<1> QED BY <1>3, <1>4, <1>5

(* The place and the progress take the same step although they wrap at       *)
(* different ends.                                                           *)
LEMMA SameStep ==
  ASSUME NEW p \in Nat
  PROVE  ((p % ADDRS) + SCRUB_BURST_SIZE) % ADDRS
           = ((p + SCRUB_BURST_SIZE) % PROGRESS_MOD) % ADDRS
<1>1. PICK k \in 1..PROGRESS_MOD : PROGRESS_MOD = k * ADDRS
  BY ScrubAssumption
<1>2. /\ SCRUB_BURST_SIZE \in Int /\ ADDRS \in Int /\ ADDRS > 0
      /\ k \in Int /\ k > 0 /\ p \in Int
  BY <1>1, ScrubAssumption
<1>3. ((p % ADDRS) + SCRUB_BURST_SIZE) % ADDRS
        = ((p + SCRUB_BURST_SIZE) % (k * ADDRS)) % ADDRS
  BY <1>2, WrapsAgree, Zenon
<1> QED BY <1>1, <1>3, Zenon

(* What the clocks need of the assumption.                                   *)
LEMMA Sizes ==
  /\ SCRUB_BURST_SIZE \in Nat /\ SCRUB_BURST_SIZE > 0
  /\ 0 % ADDRS = 0
  /\ \A p \in Nat : (p + SCRUB_BURST_SIZE) % PROGRESS_MOD \in Nat
<1>1. PICK k \in 1..PROGRESS_MOD : PROGRESS_MOD = k * ADDRS
  BY ScrubAssumption
<1>2. PROGRESS_MOD \in Nat /\ PROGRESS_MOD > 0
  BY <1>1, ScrubAssumption
<1>3. ADDRS \in Nat /\ ADDRS > 0
  BY ScrubAssumption
<1>4. 0 % ADDRS = 0
  BY <1>3
<1>5. \A p \in Nat : (p + SCRUB_BURST_SIZE) % PROGRESS_MOD \in Nat
  BY <1>2, ScrubAssumption
<1> QED BY <1>4, <1>5, ScrubAssumption

(* One clock of the scrubber, one step per state.                            *)
LEMMA ScrubClockInv ==
  ASSUME ScrubInv, NEW enable, NEW up, NEW notfull, NEW validout, NEW single,
         NEW raddr, NEW data,
         ScrubClock(enable, up, notfull, validout, single, raddr, data)
  PROVE  ScrubInv'
<1> USE Sizes DEF ScrubInv, ScrubType, ScrubInStep, States
<1>1. CASE Idle(enable, up)
  BY <1>1 DEF Idle, scrub_start_addr
<1>2. CASE WaitIdle(notfull, up)
  BY <1>2 DEF WaitIdle, SamePort, SameRepair, SamePlace
<1>3. CASE IssueRead(notfull, up)
  BY <1>3 DEF IssueRead, SameRepair, SamePlace
<1>4. CASE WaitData(validout, single, raddr, data)
  BY <1>4 DEF WaitData
<1>5. CASE CheckEcc
  BY <1>5 DEF CheckEcc, SamePort, SameRepair, SamePlace
<1>6. CASE IssueWrite(notfull, up)
  BY <1>6 DEF IssueWrite, SamePort, SameRepair, SamePlace
<1>7. CASE WaitWrite(notfull)
  <2>1. /\ (scrub_progress + SCRUB_BURST_SIZE) % PROGRESS_MOD \in Nat
        /\ ~writeback_needed =>
             (scrub_addr + SCRUB_BURST_SIZE) % ADDRS
               = ((scrub_progress + SCRUB_BURST_SIZE) % PROGRESS_MOD) % ADDRS
    BY <1>7, SameStep DEF WaitWrite
  <2> QED BY <1>7, <2>1 DEF WaitWrite, SameRepair, SamePlace
<1> QED BY <1>1, <1>2, <1>3, <1>4, <1>5, <1>6, <1>7 DEF ScrubClock

(* The invariant holds in the first state, and every step keeps it.          *)
LEMMA ScrubInvInit == ServerInit => ScrubInv
  BY Sizes DEF ServerInit, ScrubInit, ScrubInv, ScrubType, ScrubInStep, States

LEMMA ScrubInvNext == ScrubInv /\ [ServerNext]_everything => ScrubInv'
<1> SUFFICES ASSUME ScrubInv, [ServerNext]_everything PROVE ScrubInv'
  OBVIOUS
<1>1. ASSUME NEW request \in Requests, ServerClock(request) PROVE ScrubInv'
  BY <1>1, ScrubClockInv DEF ServerClock
<1>2. ASSUME UNCHANGED scrub PROVE ScrubInv'
  BY <1>2 DEF scrub, ScrubInv, ScrubType, ScrubInStep
<1>3. CASE ServerReset
  BY <1>3, Sizes
     DEF ServerReset, ScrubReset, ScrubInv, ScrubType, ScrubInStep, States
<1>4. Fault => UNCHANGED scrub
  BY Zenon DEF Fault
<1>5. UNCHANGED everything => UNCHANGED scrub
  BY DEF everything
<1> QED BY <1>1, <1>2, <1>3, <1>4, <1>5 DEF ServerNext

(* The scrubber's counters stay in step with its states, for every memory,   *)
(* burst and host, with RESET at any clock.                                  *)
THEOREM ScrubberStaysInStep == ServerSpec => []ScrubInStep
<1>1. ScrubInv => ScrubInStep
  BY DEF ScrubInv
<1> QED BY ScrubInvInit, ScrubInvNext, <1>1, PTL DEF ServerSpec

-----------------------------------------------------------------------------
CountsType ==
  /\ correctable_err_cnt \in [Ranks -> Nat]
  /\ uncorrectable_err_cnt \in [Ranks -> Nat]
  /\ total_uncorr_errors \in Nat
  /\ rank_offline \subseteq Ranks

\* Errors are charged to ranks: ADDR is an address.
RasInv == CountsType /\ FlagsMatchCounts /\ ADDR \in Addresses

(* A correctable error moves irq_corr and rank_degraded exactly when its     *)
(* rank passes the threshold.                                                *)
LEMMA CorrectableKeepsFlags ==
  ASSUME CountsType, FlagsMatchCounts, NEW at, NEW rank \in Ranks,
         CorrectableError(at, rank)
  PROVE  CountsType' /\ FlagsMatchCounts'
<1> DEFINE reached == correctable_err_cnt[rank] >= corr_err_threshold
<1>1. /\ correctable_err_cnt' = [correctable_err_cnt EXCEPT ![rank] = @ + 1]
      /\ UNCHANGED <<uncorrectable_err_cnt, total_uncorr_errors,
                     irq_uncorr, fatal_error, rank_offline>>
  BY DEF CorrectableError
<1>2. CountsType'
  BY <1>1 DEF CountsType
<1>3. (\E r \in Ranks : correctable_err_cnt'[r] > corr_err_threshold)
        <=> (\E r \in Ranks : correctable_err_cnt[r] > corr_err_threshold) \/ reached
  BY <1>1, RasAssumption DEF CountsType
<1>4. irq_corr' <=> irq_corr \/ reached
  BY DEF CorrectableError
<1>5. rank_degraded' <=> rank_degraded \/ reached
  BY DEF CorrectableError
<1>6. /\ rank_offline' = {r \in Ranks : uncorrectable_err_cnt'[r] > uncorr_err_threshold}
      /\ irq_uncorr' <=> total_uncorr_errors' > 0
      /\ fatal_error' <=> irq_uncorr'
  BY <1>1 DEF FlagsMatchCounts
<1> HIDE DEF reached
<1>7. irq_corr' <=> \E r \in Ranks : correctable_err_cnt'[r] > corr_err_threshold
  BY <1>3, <1>4, Zenon DEF FlagsMatchCounts
<1>8. rank_degraded' <=> irq_corr' \/ rank_offline' # {}
  BY <1>1, <1>4, <1>5, Zenon DEF FlagsMatchCounts
<1> QED BY <1>2, <1>6, <1>7, <1>8, Zenon DEF FlagsMatchCounts

(* An uncorrectable error raises its flags at once, and takes its rank       *)
(* offline exactly when the rank passes the threshold.                       *)
LEMMA UncorrectableKeepsFlags ==
  ASSUME CountsType, FlagsMatchCounts, NEW at, NEW rank \in Ranks,
         UncorrectableError(at, rank)
  PROVE  CountsType' /\ FlagsMatchCounts'
<1> DEFINE reached == uncorrectable_err_cnt[rank] >= uncorr_err_threshold
<1>1. /\ uncorrectable_err_cnt' = [uncorrectable_err_cnt EXCEPT ![rank] = @ + 1]
      /\ total_uncorr_errors' = total_uncorr_errors + 1
      /\ rank_offline' = (IF reached THEN rank_offline \cup {rank} ELSE rank_offline)
      /\ UNCHANGED <<correctable_err_cnt, irq_corr>>
  BY DEF UncorrectableError
<1>2. CountsType'
  BY <1>1 DEF CountsType
<1>3. rank_offline' = {r \in Ranks : uncorrectable_err_cnt'[r] > uncorr_err_threshold}
  BY <1>1, RasAssumption DEF CountsType, FlagsMatchCounts
<1>4. total_uncorr_errors' > 0
  BY <1>1 DEF CountsType
<1>5. irq_uncorr' /\ fatal_error'
  BY DEF UncorrectableError
<1>6. rank_degraded' <=> rank_degraded \/ reached
  BY DEF UncorrectableError
<1>7. rank_offline' # {} <=> rank_offline # {} \/ reached
  BY <1>1
<1> HIDE DEF reached
<1>8. irq_corr' <=> \E r \in Ranks : correctable_err_cnt'[r] > corr_err_threshold
  BY <1>1, Zenon DEF FlagsMatchCounts
<1>9. rank_degraded' <=> irq_corr' \/ rank_offline' # {}
  BY <1>1, <1>6, <1>7, Zenon DEF FlagsMatchCounts
<1> QED BY <1>2, <1>3, <1>4, <1>5, <1>8, <1>9, Zenon DEF FlagsMatchCounts

(* The invariant holds with every counter clear.                             *)
LEMMA RasInvInit == ServerInit => RasInv
<1> SUFFICES ASSUME ServerInit PROVE RasInv
  OBVIOUS
<1>1. RasInit /\ ADDR = 0
  BY DEF ServerInit
<1>2. CountsType
  BY <1>1 DEF RasInit, NoCounts, CountsType
<1>3. FlagsMatchCounts
  BY <1>1, RasAssumption DEF RasInit, NoCounts, FlagsMatchCounts
<1> QED BY <1>1, <1>2, <1>3, ScrubAssumption DEF RasInv, Addresses

(* Every step keeps it: a clock, a fault, RESET.                             *)
LEMMA RasInvNext == RasInv /\ [ServerNext]_everything => RasInv'
<1> SUFFICES ASSUME RasInv, [ServerNext]_everything PROVE RasInv'
  OBVIOUS
<1>1. ASSUME NEW request \in Requests, ServerClock(request) PROVE RasInv'
  <2>1. /\ RasClock(ecc_single_err, ecc_double_err, last_read_addr, err_rank(request))
        /\ ADDR' = HostAddress(request)
    BY <1>1 DEF ServerClock, Books
  <2>2. HostAddress(request) \in Addresses
    BY ServerAssumption
       DEF RasInv, HostAddress, Requests, NoRequest, Writes, Reads, Addresses
  <2>3. err_rank(request) \in Ranks
    BY <2>2, ServerAssumption DEF err_rank, Addresses
  <2>4. CountsType' /\ FlagsMatchCounts'
    <3>1. CASE CorrectableError(last_read_addr, err_rank(request))
      BY <2>3, <3>1, CorrectableKeepsFlags DEF RasInv
    <3>2. CASE UncorrectableError(last_read_addr, err_rank(request))
      BY <2>3, <3>2, UncorrectableKeepsFlags DEF RasInv
    <3>3. CASE UNCHANGED ras
      BY <3>3 DEF ras, counters, status, RasInv, CountsType, FlagsMatchCounts
    <3> QED BY <2>1, <3>1, <3>2, <3>3 DEF RasClock
  <2> QED BY <2>1, <2>2, <2>4 DEF RasInv, Addresses
<1>2. ASSUME UNCHANGED <<ras, ADDR>> PROVE RasInv'
  BY <1>2 DEF ras, counters, status, RasInv, CountsType, FlagsMatchCounts, Addresses
<1>3. CASE ServerReset
  <2>1. RasReset /\ ADDR' = 0
    BY <1>3 DEF ServerReset
  <2>2. CountsType'
    BY <2>1 DEF RasReset, NoCounts, CountsType
  <2>3. FlagsMatchCounts'
    BY <2>1, RasAssumption DEF RasReset, NoCounts, FlagsMatchCounts
  <2> QED BY <2>1, <2>2, <2>3, ScrubAssumption DEF RasInv, Addresses
<1>4. Fault => UNCHANGED <<ras, ADDR>>
  BY Zenon DEF Fault
<1>5. UNCHANGED everything => UNCHANGED <<ras, ADDR>>
  BY DEF everything, server
<1> QED BY <1>1, <1>2, <1>3, <1>4, <1>5 DEF ServerNext

(* The interrupts, the degraded and fatal flags and the offline ranks are    *)
(* what the counters say, for every threshold and number of ranks and any    *)
(* order of errors.                                                          *)
THEOREM FlagsFollowCounts == ServerSpec => []FlagsMatchCounts
<1>1. RasInv => FlagsMatchCounts
  BY DEF RasInv
<1> QED BY RasInvInit, RasInvNext, <1>1, PTL DEF ServerSpec

-----------------------------------------------------------------------------
\* The totals count the errors of all ranks.
TotalsInv ==
  /\ IsFiniteSet(ErrorsOf(correctable_err_cnt))
  /\ IsFiniteSet(ErrorsOf(uncorrectable_err_cnt))
  /\ total_corr_errors = TotalOf(correctable_err_cnt)
  /\ total_uncorr_errors = TotalOf(uncorrectable_err_cnt)

(* Clear counters have no errors.                                            *)
LEMMA NoErrors == IsFiniteSet(ErrorsOf(NoCounts)) /\ TotalOf(NoCounts) = 0
<1>1. ErrorsOf(NoCounts) = {}
  BY DEF ErrorsOf, NoCounts
<1> QED BY <1>1, FS_EmptySet DEF TotalOf

(* One more error of a rank is one more error.                               *)
LEMMA OneMore ==
  ASSUME NEW f \in [Ranks -> Nat], NEW r \in Ranks, IsFiniteSet(ErrorsOf(f)),
         NEW g, g = [f EXCEPT ![r] = @ + 1]
  PROVE  IsFiniteSet(ErrorsOf(g)) /\ TotalOf(g) = TotalOf(f) + 1
<1> DEFINE last == <<r, f[r] + 1>>
<1>1. \A s \in Ranks : s # r => g[s] = f[s]
  OBVIOUS
<1>2. g[r] = f[r] + 1 /\ f[r] \in Nat
  OBVIOUS
<1>3. 1..g[r] = 1..f[r] \cup {f[r] + 1}
  BY <1>2
<1>4. ErrorsOf(g) = ErrorsOf(f) \cup {last}
  <2>1. ASSUME NEW e \in ErrorsOf(g) PROVE e \in ErrorsOf(f) \cup {last}
    <3>1. PICK s \in Ranks : e \in {s} \X (1..g[s])
      BY <2>1 DEF ErrorsOf
    <3>2. CASE s = r
      BY <1>3, <3>1, <3>2 DEF ErrorsOf
    <3>3. CASE s # r
      BY <1>1, <3>1, <3>3 DEF ErrorsOf
    <3> QED BY <3>2, <3>3
  <2>2. ASSUME NEW e \in ErrorsOf(f) PROVE e \in ErrorsOf(g)
    <3>1. PICK s \in Ranks : e \in {s} \X (1..f[s])
      BY <2>2 DEF ErrorsOf
    <3>2. 1..f[s] \subseteq 1..g[s]
      BY <1>1, <1>2
    <3>3. e \in {s} \X (1..g[s])
      BY <3>1, <3>2
    <3> QED BY <3>3 DEF ErrorsOf
  <2>3. last \in ErrorsOf(g)
    <3>1. last \in {r} \X (1..g[r])
      BY <1>2
    <3> QED BY <3>1 DEF ErrorsOf
  <2> QED BY <2>1, <2>2, <2>3
<1>5. last \notin ErrorsOf(f)
  BY <1>2 DEF ErrorsOf
<1> HIDE DEF last
<1>6. /\ IsFiniteSet(ErrorsOf(f) \cup {last})
      /\ Cardinality(ErrorsOf(f) \cup {last}) = Cardinality(ErrorsOf(f)) + 1
  BY <1>5, FS_AddElement, Zenon
<1> QED BY <1>4, <1>6, Zenon DEF TotalOf

(* An error of either kind moves its total and its counter together.         *)
LEMMA ErrorKeepsTotals ==
  ASSUME CountsType, TotalsInv, NEW at, NEW rank \in Ranks,
         CorrectableError(at, rank) \/ UncorrectableError(at, rank)
  PROVE  TotalsInv'
<1>1. CASE CorrectableError(at, rank)
  <2>1. /\ correctable_err_cnt' = [correctable_err_cnt EXCEPT ![rank] = @ + 1]
        /\ total_corr_errors' = total_corr_errors + 1
        /\ UNCHANGED <<uncorrectable_err_cnt, total_uncorr_errors>>
    BY <1>1 DEF CorrectableError
  <2>2. /\ IsFiniteSet(ErrorsOf(correctable_err_cnt'))
        /\ TotalOf(correctable_err_cnt') = TotalOf(correctable_err_cnt) + 1
    BY <2>1, OneMore DEF CountsType, TotalsInv
  <2> QED BY <2>1, <2>2 DEF TotalsInv, TotalOf, ErrorsOf
<1>2. CASE UncorrectableError(at, rank)
  <2>1. /\ uncorrectable_err_cnt' = [uncorrectable_err_cnt EXCEPT ![rank] = @ + 1]
        /\ total_uncorr_errors' = total_uncorr_errors + 1
        /\ UNCHANGED <<correctable_err_cnt, total_corr_errors>>
    BY <1>2 DEF UncorrectableError
  <2>2. /\ IsFiniteSet(ErrorsOf(uncorrectable_err_cnt'))
        /\ TotalOf(uncorrectable_err_cnt') = TotalOf(uncorrectable_err_cnt) + 1
    BY <2>1, OneMore DEF CountsType, TotalsInv
  <2> QED BY <2>1, <2>2 DEF TotalsInv, TotalOf, ErrorsOf
<1> QED BY <1>1, <1>2

(* So do a fault and RESET.                                                  *)
LEMMA TotalsNext == RasInv /\ TotalsInv /\ [ServerNext]_everything => TotalsInv'
<1> SUFFICES ASSUME RasInv, TotalsInv, [ServerNext]_everything PROVE TotalsInv'
  OBVIOUS
<1>1. ASSUME UNCHANGED ras PROVE TotalsInv'
  BY <1>1 DEF ras, counters, TotalsInv, TotalOf, ErrorsOf
<1>2. ASSUME NEW request \in Requests, ServerClock(request) PROVE TotalsInv'
  <2>1. RasClock(ecc_single_err, ecc_double_err, last_read_addr, err_rank(request))
    BY <1>2 DEF ServerClock
  <2>2. err_rank(request) \in Ranks
    BY ServerAssumption DEF RasInv, err_rank, HostAddress, Requests, NoRequest, Writes, Reads,
       Addresses
  <2> QED BY <1>1, <2>1, <2>2, ErrorKeepsTotals DEF RasClock, RasInv
<1>3. CASE ServerReset
  <2>1. /\ correctable_err_cnt' = NoCounts /\ uncorrectable_err_cnt' = NoCounts
        /\ total_corr_errors' = 0 /\ total_uncorr_errors' = 0
    BY <1>3 DEF ServerReset, RasReset
  <2> QED BY <2>1, NoErrors DEF TotalsInv, TotalOf, ErrorsOf
<1>4. Fault => UNCHANGED ras
  BY Zenon DEF Fault
<1>5. UNCHANGED everything => UNCHANGED ras
  BY DEF everything
<1> QED BY <1>1, <1>2, <1>3, <1>4, <1>5 DEF ServerNext

(* Every error is in exactly one rank's counter and once in the total, and   *)
(* the status bits and the offline map follow: for every threshold, number   *)
(* of ranks and order of errors, with RESET at any clock.                    *)
THEOREM StatusFollowsErrors == ServerSpec => []StatusMatchesCounters
<1>1. ServerInit => TotalsInv
  BY NoErrors DEF ServerInit, RasInit, TotalsInv
<1>2. RasInv /\ TotalsInv => StatusMatchesCounters
  BY DEF RasInv, TotalsInv, StatusMatchesCounters
<1> QED BY <1>1, <1>2, RasInvInit, RasInvNext, TotalsNext, PTL DEF ServerSpec

-----------------------------------------------------------------------------
(***************************************************************************)
(* The decoder: a word against the code of another.                        *)
(***************************************************************************)
(* Sets of bits are finite.                                                  *)
LEMMA BitsAreFinite ==
  /\ \A d \in SUBSET DataBits : IsFiniteSet(d)
  /\ \A p \in SUBSET ParityBits : IsFiniteSet(p)
<1>1. \A a, b \in Int : IsFiniteSet(a..b)
  BY FS_Interval, Zenon
<1>2. 0 \in Int /\ 6 \in Int /\ 63 \in Int
  OBVIOUS
<1>3. IsFiniteSet(0..63) /\ IsFiniteSet(0..6)
  BY <1>1, <1>2, Zenon
<1> QED BY <1>3, FS_Subset DEF DataBits, ParityBits

(* The parity of a sum.                                                      *)
LEMMA ParityOfSum ==
  ASSUME NEW a \in Nat, NEW b \in Nat, NEW c \in Nat, NEW n \in Nat, n = a + b - 2 * c
  PROVE  n % 2 = 1 <=> ~(a % 2 = 1 <=> b % 2 = 1)
  OBVIOUS

(* The parity of two sets flipped into each other.                           *)
LEMMA OddFlips ==
  ASSUME NEW A, NEW B, IsFiniteSet(A), IsFiniteSet(B)
  PROVE  IsFiniteSet(Flip(A, B)) /\ (Odd(Flip(A, B)) <=> ~(Odd(A) <=> Odd(B)))
<1>1. /\ IsFiniteSet(A \ B) /\ Cardinality(A \ B) = Cardinality(A) - Cardinality(A \cap B)
      /\ IsFiniteSet(B \ A) /\ Cardinality(B \ A) = Cardinality(B) - Cardinality(A \cap B)
  <2>1. A \cap B = B \cap A
    OBVIOUS
  <2> QED BY <2>1, FS_Difference
<1>2. IsFiniteSet(A \cap B)
  <2>1. A \cap B \in SUBSET A
    OBVIOUS
  <2> QED BY <2>1, FS_Subset
<1>3. (A \ B) \cap (B \ A) = {}
  OBVIOUS
<1>4. /\ IsFiniteSet(Flip(A, B))
      /\ Cardinality(Flip(A, B)) = Cardinality(A \ B) + Cardinality(B \ A) - 0
  BY <1>1, <1>3, FS_Union, FS_EmptySet DEF Flip
<1>5. /\ Cardinality(A) \in Nat /\ Cardinality(B) \in Nat /\ Cardinality(A \cap B) \in Nat
      /\ Cardinality(Flip(A, B)) \in Nat
  BY <1>2, <1>4, FS_CardinalityType
<1>6. Cardinality(Flip(A, B)) = Cardinality(A) + Cardinality(B) - 2 * Cardinality(A \cap B)
  BY <1>1, <1>4, <1>5
<1> QED BY <1>4, <1>5, <1>6, ParityOfSum DEF Odd

(* Each parity bit is linear in the word.                                    *)
LEMMA ParityFlips ==
  ASSUME NEW d \in SUBSET DataBits, NEW w \in SUBSET DataBits
  PROVE  Parity(Flip(d, w)) = Flip(Parity(d), Parity(w))
<1>1. ASSUME NEW k \in ParityBits
      PROVE  k \in Parity(Flip(d, w)) <=> k \in Flip(Parity(d), Parity(w))
  <2>1. Flip(d, w) \cap Covered[k] = Flip(d \cap Covered[k], w \cap Covered[k])
    BY DEF Flip
  <2>2. d \cap Covered[k] \in SUBSET DataBits /\ w \cap Covered[k] \in SUBSET DataBits
    OBVIOUS
  <2>3. Odd(Flip(d, w) \cap Covered[k])
          <=> ~(Odd(d \cap Covered[k]) <=> Odd(w \cap Covered[k]))
    <3>1. IsFiniteSet(d \cap Covered[k]) /\ IsFiniteSet(w \cap Covered[k])
      BY <2>2, BitsAreFinite, Zenon
    <3> QED BY <2>1, <3>1, OddFlips
  <2> QED BY <2>3, Zenon DEF Parity, Flip
<1> QED BY <1>1, Zenon DEF Parity, Flip

(* What the decoder makes of word d with the code of w depends only on the   *)
(* bits in which they differ.                                                *)
LEMMA Syndrome ==
  ASSUME NEW d \in SUBSET DataBits, NEW w \in SUBSET DataBits
  PROVE  /\ syndrome_bits(d, ecc_out(w)) = Parity(Flip(d, w))
         /\ syndrome_parity(d, ecc_out(w)) <=> Odd(Flip(d, w))
<1>1. Parity(w) \in SUBSET ParityBits /\ OverallBit \notin ParityBits
  BY DEF Parity, ParityBits, OverallBit
<1>2. ecc_out(w) \cap ParityBits = Parity(w)
  BY <1>1 DEF ecc_out
<1>3. OverallBit \in ecc_out(w) <=> ~(Odd(w) <=> Odd(Parity(w)))
  BY <1>1 DEF ecc_out, Odd
<1>4. Odd(Flip(d, w)) <=> ~(Odd(d) <=> Odd(w))
  BY BitsAreFinite, OddFlips
<1>5. syndrome_parity(d, ecc_out(w)) <=> ~(Odd(d) <=> Odd(w))
  BY <1>2, <1>3 DEF syndrome_parity, Odd
<1> QED BY <1>2, <1>4, <1>5, ParityFlips DEF syndrome_bits

(* Two positions differ in one of their six bits.                            *)
LEMMA PositionsDiffer ==
  ASSUME NEW i \in DataBits, NEW j \in DataBits, i # j
  PROVE  \E k \in 0..5 : ~((i \div 2^k) % 2 = 1 <=> (j \div 2^k) % 2 = 1)
<1>1. /\ 2^0 = 1 /\ 2^1 = 2 /\ 2^2 = 4 /\ 2^3 = 8 /\ 2^4 = 16 /\ 2^5 = 32
  BY SMT
<1>2. ASSUME NEW n \in DataBits
      PROVE  n = ((n \div 1) % 2) + 2 * ((n \div 2) % 2) + 4 * ((n \div 4) % 2)
                   + 8 * ((n \div 8) % 2) + 16 * ((n \div 16) % 2) + 32 * ((n \div 32) % 2)
  BY SMT DEF DataBits
<1> QED BY <1>1, <1>2, SMT DEF DataBits

(* At most two bits: none, one, or two that differ.                          *)
LEMMA FewBits ==
  ASSUME NEW F \in SUBSET DataBits, Cardinality(F) <= 2
  PROVE  \/ F = {} /\ Cardinality(F) = 0
         \/ Cardinality(F) = 1
         \/ Cardinality(F) = 2 /\ \E i, j \in DataBits : i # j /\ F = {i, j}
<1>1. IsFiniteSet(F)
  BY BitsAreFinite
<1>2. Cardinality(F) \in Nat
  BY <1>1, FS_CardinalityType
<1>3. CASE Cardinality(F) = 0
  BY <1>1, <1>3, FS_EmptySet
<1>4. CASE Cardinality(F) = 2
  <2>1. PICK i \in F : TRUE
    BY <1>1, <1>4, FS_EmptySet
  <2>2. IsFiniteSet(F \ {i}) /\ Cardinality(F \ {i}) = 1
    BY <1>1, <1>4, <2>1, FS_RemoveElement
  <2>3. PICK j : F \ {i} = {j}
    BY <2>2, FS_Singleton
  <2>4. i \in DataBits /\ j \in DataBits /\ i # j /\ F = {i, j}
    BY <2>1, <2>3
  <2> QED BY <1>4, <2>4
<1> QED BY <1>2, <1>3, <1>4

(* Two flipped bits leave a syndrome.                                        *)
LEMMA TwoBitsShow ==
  ASSUME NEW i \in DataBits, NEW j \in DataBits, i # j
  PROVE  Parity({i, j}) # {}
<1>1. PICK k \in 0..5 : ~((i \div 2^k) % 2 = 1 <=> (j \div 2^k) % 2 = 1)
  BY PositionsDiffer
<1>2. k \in ParityBits /\ k # 6
  BY DEF ParityBits
<1>3. Covered[k] = {n \in DataBits : (n \div 2^k) % 2 = 1}
  BY <1>2 DEF Covered
<1>4. \E n : {i, j} \cap Covered[k] = {n}
  <2>1. CASE i \in Covered[k]
    <3>1. j \notin Covered[k]
      BY <1>1, <1>3, <2>1, Zenon
    <3> QED BY <2>1, <3>1
  <2>2. CASE i \notin Covered[k]
    <3>1. j \in Covered[k]
      BY <1>1, <1>3, <2>2, Zenon
    <3> QED BY <2>2, <3>1
  <2> QED BY <2>1, <2>2
<1>5. Cardinality({i, j} \cap Covered[k]) = 1
  BY <1>4, FS_Singleton
<1>6. Odd({i, j} \cap Covered[k])
  BY <1>5 DEF Odd
<1> QED BY <1>2, <1>6 DEF Parity

(* The code of a word tells it from every word one or two bits away, and     *)
(* calls a difference of two bits uncorrectable: for all words and all bits. *)
THEOREM DecoderExact ==
  ASSUME NEW d \in SUBSET DataBits, NEW w \in SUBSET DataBits,
         Cardinality(Flip(d, w)) <= 2
  PROVE  LET wrong == Cardinality(Flip(d, w))
             single == single_err(d, ecc_out(w))
             double == double_err(d, ecc_out(w))
         IN  /\ wrong > 0 <=> single \/ double
             /\ wrong = 2 => double
<1> DEFINE F == Flip(d, w)
<1>1. F \in SUBSET DataBits
  BY DEF Flip
<1>2. NoError(d, ecc_out(w)) <=> Parity(F) = {} /\ ~Odd(F)
  BY Syndrome, Zenon DEF NoError
<1>3. single_err(d, ecc_out(w)) => Odd(F)
  BY Syndrome, Zenon DEF single_err
<1>4. double_err(d, ecc_out(w)) <=> ~NoError(d, ecc_out(w)) /\ ~single_err(d, ecc_out(w))
  BY Zenon DEF double_err
<1> HIDE DEF F
<1>5. CASE F = {} /\ Cardinality(F) = 0
  <2>1. ~Odd(F)
    BY <1>5 DEF Odd
  <2>2. Parity(F) = {}
    <3>1. \A k \in ParityBits : F \cap Covered[k] = F
      BY <1>5
    <3> QED BY <2>1, <3>1 DEF Parity
  <2> QED BY <1>2, <1>3, <1>4, <1>5, <2>1, <2>2 DEF F
<1>6. CASE Cardinality(F) = 1
  <2>1. Odd(F)
    BY <1>6 DEF Odd
  <2> QED BY <1>2, <1>4, <1>6, <2>1 DEF F
<1>7. CASE Cardinality(F) = 2 /\ \E i, j \in DataBits : i # j /\ F = {i, j}
  <2>1. ~Odd(F)
    BY <1>7 DEF Odd
  <2>2. Parity(F) # {}
    BY <1>7, TwoBitsShow
  <2> QED BY <1>2, <1>3, <1>4, <1>7, <2>1, <2>2 DEF F
<1>8. Cardinality(F) <= 2
  BY DEF F
<1> QED BY <1>1, <1>5, <1>6, <1>7, <1>8, FewBits
-----------------------------------------------------------------------------
(***************************************************************************)
(* Words and codes on their way through the server.                        *)
(***************************************************************************)
Words == SUBSET DataBits
Answers == [raddr : Addresses, data : Words]
Commands == [cmd : {"NOP", "SCR", "SCW"}, addr : Addresses]

WordsType ==
  /\ mem \in [Addresses -> Words] /\ intended \in [Addresses -> Words]
  /\ dataQ \in Seq(Words) /\ answers \in Seq(Answers) /\ out \in Answers
  /\ corrected_data \in Words /\ data_in \in Words

\* A queue holds a command, at most one of the host, or none.
Has(q, c) == \E i \in 1..Len(q) : q[i].cmd = c
OneCommand(q) ==
  \A i, j \in 1..Len(q) : q[i].cmd # "NOP" /\ q[j].cmd # "NOP" => i = j
AllNops(q) == \A i \in 1..Len(q) : q[i].cmd = "NOP"

\* At most one command of the host is on its way, and a write has a word.
QueueInv ==
  /\ coreQ \in Seq(Commands) /\ OneCommand(coreQ)
  /\ Has(coreQ, "SCW") => dataQ # <<>>

\* A stored code is the one of the word last written there.
CodesInv ==
  /\ ecc_storage \in [Addresses -> {NoCode} \cup {ecc_out(w) : w \in Words}]
  /\ \A a \in Addresses :
       ecc_storage[a] # NoCode =>
         a \in HostAddrs /\ a < TRACKED /\ ecc_storage[a] = ecc_out(intended[a])

EccInv == WordsType /\ QueueInv /\ CodesInv

\* What joins the queues in a clock.
Offered(request) == IF NOTFULL THEN Arbiter(request) ELSE <<>>
Put(request) == IF Len(dataQ) < DATA_DEPTH THEN ArbiterData(request) ELSE <<>>
Kept == IF Pops THEN Tail(answers) ELSE answers

(* The controller passes the time with a NOP, serves a write or serves a     *)
(* read.                                                                     *)
LEMMA CoreOutcomes ==
  ASSUME NEW execute \in {FALSE, ready /\ coreQ # <<>>}, NEW request,
         Core(execute, request)
  PROVE  /\ out' = IF Pops THEN Head(answers) ELSE out
         /\ fetch_pop_r' = Pops /\ validout_r' = fetch_pop_r
         /\ \/ /\ mem' = mem /\ dataQ' = dataQ \o Put(request)
               /\ answers' = Kept \o <<>>
               /\ \/ coreQ' = coreQ \o Offered(request)
                  \/ /\ coreQ # <<>> /\ Head(coreQ).cmd \notin {"SCW", "SCR"}
                     /\ coreQ' = Tail(coreQ) \o Offered(request)
            \/ /\ coreQ # <<>> /\ Head(coreQ).cmd = "SCW"
               /\ mem' = [mem EXCEPT ![Head(coreQ).addr] = Head(dataQ)]
               /\ dataQ' = SubSeq(dataQ, WRITE_WORDS + 1, Len(dataQ)) \o Put(request)
               /\ answers' = Kept \o <<>>
               /\ coreQ' = Tail(coreQ) \o Offered(request)
            \/ /\ coreQ # <<>> /\ Head(coreQ).cmd = "SCR"
               /\ mem' = mem /\ dataQ' = dataQ \o Put(request)
               /\ answers' = Kept \o ReadBurst(Head(coreQ).addr)
               /\ coreQ' = Tail(coreQ) \o Offered(request)
<1>1. /\ coreQ' = Serve(execute).cmds \o Offered(request)
      /\ dataQ' = Serve(execute).data \o Put(request)
      /\ mem' = Serve(execute).mem
      /\ answers' = Kept \o Serve(execute).read
      /\ out' = IF Pops THEN Head(answers) ELSE out
      /\ fetch_pop_r' = Pops /\ validout_r' = fetch_pop_r
  BY DEF Core, Offered, Put, Kept
<1>2. CASE ~execute
  <2>1. Serve(execute) = [cmds |-> coreQ, mem |-> mem, data |-> dataQ, read |-> <<>>]
    BY <1>2 DEF Serve
  <2> QED BY <1>1, <2>1
<1>3. CASE execute
  <2>1. coreQ # <<>>
    BY <1>3
  <2>2. CASE Head(coreQ).cmd = "SCW"
    <3>1. /\ Serve(execute).cmds = Tail(coreQ) /\ Serve(execute).read = <<>>
          /\ Serve(execute).mem = [mem EXCEPT ![Head(coreQ).addr] = Head(dataQ)]
          /\ Serve(execute).data = SubSeq(dataQ, WRITE_WORDS + 1, Len(dataQ))
      BY <1>3, <2>2 DEF Serve
    <3> QED BY <1>1, <2>1, <2>2, <3>1
  <2>3. CASE Head(coreQ).cmd = "SCR"
    <3>1. /\ Serve(execute).cmds = Tail(coreQ)
          /\ Serve(execute).read = ReadBurst(Head(coreQ).addr)
          /\ Serve(execute).mem = mem /\ Serve(execute).data = dataQ
      BY <1>3, <2>3 DEF Serve
    <3> QED BY <1>1, <2>1, <2>3, <3>1
  <2>4. CASE Head(coreQ).cmd \notin {"SCW", "SCR"}
    <3>1. /\ Serve(execute).cmds = Tail(coreQ) /\ Serve(execute).read = <<>>
          /\ Serve(execute).mem = mem /\ Serve(execute).data = dataQ
      BY <1>3, <2>4 DEF Serve
    <3> QED BY <1>1, <2>1, <2>4, <3>1
  <2> QED BY <2>2, <2>3, <2>4
<1> QED BY <1>2, <1>3

(* A request is nothing, or a word and a command of the host.                *)
LEMMA RequestCases ==
  ASSUME NEW request \in Requests
  PROVE  /\ request.word \in Words /\ request.addr \in Addresses
         /\ \/ request = NoRequest /\ request.cmd = "NOP"
            \/ request # NoRequest /\ request.cmd \in {"SCW", "SCR"}
               /\ request.addr \in HostAddrs
<1>1. CASE request = NoRequest
  BY <1>1, ScrubAssumption DEF NoRequest, Words, Blank, Addresses
<1>2. CASE request \in Writes \cup Reads
  <2>1. request.addr \in HostAddrs /\ request.cmd \in {"SCW", "SCR"}
    BY <1>2 DEF Writes, Reads
  <2>2. request.word \in Words
    BY <1>2, ServerAssumption DEF Writes, Reads, Words, Blank
  <2>3. request # NoRequest
    BY <2>1 DEF NoRequest
  <2>4. request.addr \in Addresses
    BY <2>1, ServerAssumption DEF Addresses
  <2> QED BY <2>1, <2>2, <2>3, <2>4, Zenon
<1> QED BY <1>1, <1>2 DEF Requests

(* What the arbiter offers: the host's command, or a NOP of the scrubber.    *)
LEMMA Offers ==
  ASSUME NEW request \in Requests
  PROVE  \/ /\ host_cmd_put_ok(request) /\ request # NoRequest
            /\ request.cmd \in {"SCW", "SCR"} /\ request.addr \in HostAddrs
            /\ Arbiter(request) = <<[cmd |-> request.cmd, addr |-> request.addr]>>
         \/ /\ ~host_cmd_put_ok(request)
            /\ \/ Arbiter(request) = <<>>
               \/ Arbiter(request) = <<[cmd |-> "NOP", addr |-> 0]>>
  BY RequestCases DEF Arbiter, host_cmd_put_ok, cmd_req

(* Words come with a write, and else from the scrubber.                      *)
LEMMA Puts ==
  ASSUME WordsType, NEW request \in Requests
  PROVE  /\ Put(request) \in Seq(Words)
         /\ request.cmd = "SCW" => dataQ \o Put(request) # <<>>
<1>1. ArbiterData(request) \in Seq(Words)
  BY RequestCases DEF ArbiterData, WordsType
<1>2. Put(request) \in Seq(Words)
  BY <1>1, EmptySeq DEF Put
<1>3. ASSUME request.cmd = "SCW" PROVE dataQ # <<>> \/ Put(request) # <<>>
  <2>1. ArbiterData(request) = <<request.word>>
    BY <1>3 DEF ArbiterData
  <2>2. CASE dataQ = <<>>
    <3>1. Len(dataQ) < DATA_DEPTH
      BY <2>2, ServerAssumption
    <3> QED BY <2>1, <3>1 DEF Put
  <2> QED BY <2>2
<1> QED BY <1>2, <1>3, ConcatEqualIffEmpty DEF WordsType

(* Queues joined and shortened.                                              *)
LEMMA JoinedQueues ==
  ASSUME NEW q \in Seq(Commands), NEW r \in Seq(Commands), OneCommand(q),
         OneCommand(r), AllNops(q) \/ AllNops(r)
  PROVE  /\ q \o r \in Seq(Commands) /\ OneCommand(q \o r)
         /\ \A c : Has(q \o r, c) <=> Has(q, c) \/ Has(r, c)
<1> DEFINE s == q \o r
<1>1. /\ s \in Seq(Commands) /\ Len(s) = Len(q) + Len(r)
      /\ \A i \in 1..(Len(q) + Len(r)) :
           s[i] = IF i <= Len(q) THEN q[i] ELSE r[i - Len(q)]
  BY ConcatProperties, Zenon
<1>2. Len(q) \in Nat /\ Len(r) \in Nat
  BY LenProperties
<1> HIDE DEF s
<1>3. \A i \in 1..Len(q) : i \in 1..Len(s) /\ s[i] = q[i]
  BY <1>1, <1>2
<1>4. \A i \in 1..Len(r) : i + Len(q) \in 1..Len(s) /\ s[i + Len(q)] = r[i]
  <2> SUFFICES ASSUME NEW i \in 1..Len(r)
               PROVE  i + Len(q) \in 1..Len(s) /\ s[i + Len(q)] = r[i]
    OBVIOUS
  <2>1. /\ i + Len(q) \in 1..(Len(q) + Len(r)) /\ ~(i + Len(q) <= Len(q))
        /\ (i + Len(q)) - Len(q) = i
    BY <1>2
  <2> QED BY <1>1, <2>1
<1>5. \A i \in 1..Len(s) :
        \/ i \in 1..Len(q) /\ s[i] = q[i]
        \/ i - Len(q) \in 1..Len(r) /\ s[i] = r[i - Len(q)]
  <2> SUFFICES ASSUME NEW i \in 1..Len(s)
               PROVE  \/ i \in 1..Len(q) /\ s[i] = q[i]
                      \/ i - Len(q) \in 1..Len(r) /\ s[i] = r[i - Len(q)]
    OBVIOUS
  <2>1. i \in 1..(Len(q) + Len(r))
    BY <1>1
  <2>2. i <= Len(q) => i \in 1..Len(q)
    BY <1>2, <2>1
  <2>3. ~(i <= Len(q)) => i - Len(q) \in 1..Len(r)
    BY <1>2, <2>1
  <2> QED BY <1>1, <2>1, <2>2, <2>3, Zenon
<1>6. \A c : Has(s, c) <=> Has(q, c) \/ Has(r, c)
  BY <1>3, <1>4, <1>5 DEF Has
<1>7. OneCommand(s)
  <2> SUFFICES ASSUME NEW i \in 1..Len(s), NEW j \in 1..Len(s),
                      s[i].cmd # "NOP", s[j].cmd # "NOP"
               PROVE  i = j
    BY DEF OneCommand
  <2>1. CASE AllNops(q)
    <3>1. i - Len(q) \in 1..Len(r) /\ j - Len(q) \in 1..Len(r)
          /\ s[i] = r[i - Len(q)] /\ s[j] = r[j - Len(q)]
      BY <1>5, <2>1 DEF AllNops
    <3>2. i - Len(q) = j - Len(q)
      BY <3>1 DEF OneCommand
    <3> QED BY <1>2, <3>2
  <2>2. CASE AllNops(r)
    <3>1. i \in 1..Len(q) /\ j \in 1..Len(q) /\ s[i] = q[i] /\ s[j] = q[j]
      BY <1>5, <2>2 DEF AllNops
    <3> QED BY <3>1 DEF OneCommand
  <2> QED BY <2>1, <2>2
<1> QED BY <1>1, <1>6, <1>7 DEF s

LEMMA ShortenedQueue ==
  ASSUME NEW q \in Seq(Commands), q # <<>>, OneCommand(q)
  PROVE  /\ Head(q) \in Commands /\ Head(q) = q[1] /\ 1 \in 1..Len(q)
         /\ Tail(q) \in Seq(Commands) /\ OneCommand(Tail(q))
         /\ Head(q).cmd # "NOP" => AllNops(Tail(q))
         /\ \A c : Has(Tail(q), c) => Has(q, c)
         /\ \A c : Head(q).cmd # c /\ Has(q, c) => Has(Tail(q), c)
<1>1. /\ Head(q) \in Commands /\ Tail(q) \in Seq(Commands)
      /\ Len(Tail(q)) = Len(q) - 1
      /\ \A i \in 1..Len(Tail(q)) : Tail(q)[i] = q[i + 1]
  BY HeadTailProperties, Zenon
<1>2. Len(q) \in Nat \ {0} /\ Head(q) = q[1]
  BY EmptySeq
<1>3. \A i \in 1..Len(Tail(q)) : i + 1 \in 1..Len(q) /\ Tail(q)[i] = q[i + 1]
  BY <1>1, <1>2
<1>4. \A i \in 1..Len(q) :
        i # 1 => i - 1 \in 1..Len(Tail(q)) /\ Tail(q)[i - 1] = q[i]
  BY <1>1, <1>2
<1>5. OneCommand(Tail(q))
  BY <1>2, <1>3 DEF OneCommand
<1>6. Head(q).cmd # "NOP" => AllNops(Tail(q))
  BY <1>2, <1>3 DEF OneCommand, AllNops
<1>7. \A c : Has(Tail(q), c) => Has(q, c)
  BY <1>3 DEF Has
<1>8. \A c : Head(q).cmd # c /\ Has(q, c) => Has(Tail(q), c)
  BY <1>2, <1>4 DEF Has
<1>9. 1 \in 1..Len(q)
  BY <1>2
<1> QED BY <1>1, <1>2, <1>5, <1>6, <1>7, <1>8, <1>9

(* A queue of NOPs holds no command of the host.                             *)
LEMMA NopsHaveNone ==
  ASSUME NEW q, AllNops(q) PROVE ~Has(q, "SCW") /\ ~Has(q, "SCR") /\ OneCommand(q)
  BY DEF AllNops, Has, OneCommand

(* The host's command joins the queue when nothing of the host is there.     *)
LEMMA JoiningCommand ==
  ASSUME QueueInv, NEW request \in Requests, HostMay(request)
  PROVE  /\ Offered(request) \in Seq(Commands) /\ OneCommand(Offered(request))
         /\ request # NoRequest => NOTFULL /\ HostIsFree /\ AllNops(coreQ)
         /\ \/ AllNops(Offered(request)) /\ ~host_cmd_put_ok(request)
            \/ /\ request # NoRequest /\ host_cmd_put_ok(request)
               /\ Offered(request) = <<[cmd |-> request.cmd, addr |-> request.addr]>>
<1>1. request # NoRequest => NOTFULL /\ HostIsFree /\ AllNops(coreQ)
  <2>1. DOMAIN coreQ = 1..Len(coreQ)
    BY LenProperties DEF QueueInv
  <2> QED BY <2>1 DEF HostMay, HostIsFree, AllNops
<1>2. CASE host_cmd_put_ok(request)
  <2>1. /\ request # NoRequest /\ request.cmd \in {"SCW", "SCR"}
        /\ request.addr \in Addresses
        /\ Arbiter(request) = <<[cmd |-> request.cmd, addr |-> request.addr]>>
    BY <1>2, Offers, RequestCases
  <2>2. Offered(request) = <<[cmd |-> request.cmd, addr |-> request.addr]>>
    BY <1>1, <2>1 DEF Offered
  <2>3. [cmd |-> request.cmd, addr |-> request.addr] \in Commands
    BY <2>1 DEF Commands
  <2>4. Offered(request) \in Seq(Commands) /\ OneCommand(Offered(request))
    BY <2>2, <2>3 DEF OneCommand
  <2> QED BY <1>1, <1>2, <2>1, <2>2, <2>4
<1>3. CASE ~host_cmd_put_ok(request)
  <2>1. \/ Offered(request) = <<>>
        \/ Offered(request) = <<[cmd |-> "NOP", addr |-> 0]>>
    BY <1>3, Offers DEF Offered
  <2>2. AllNops(Offered(request))
    BY <2>1 DEF AllNops
  <2>3. [cmd |-> "NOP", addr |-> 0] \in Commands
    BY ScrubAssumption DEF Commands, Addresses
  <2>4. /\ <<>> \in Seq(Commands)
        /\ <<[cmd |-> "NOP", addr |-> 0]>> \in Seq(Commands)
    BY <2>3
  <2>5. Offered(request) \in Seq(Commands)
    BY <2>1, <2>4, Zenon
  <2> QED BY <1>1, <1>3, <2>2, <2>5, NopsHaveNone
<1> QED BY <1>2, <1>3

(* So at most one command of the host is on its way, and its word is there.  *)
LEMMA QueueNext ==
  ASSUME WordsType, QueueInv, NEW request \in Requests, ServerClock(request)
  PROVE  QueueInv'
<1> DEFINE o == Offered(request)
<1>1. PICK execute \in {FALSE, ready /\ coreQ # <<>>} : Core(execute, request)
  BY DEF ServerClock
<1>2. HostMay(request)
  BY DEF ServerClock
<1>3. /\ o \in Seq(Commands) /\ OneCommand(o)
      /\ AllNops(coreQ) \/ AllNops(o)
      /\ Has(o, "SCW") => request.cmd = "SCW"
  <2>1. CASE AllNops(o)
    BY <1>2, <2>1, JoiningCommand, NopsHaveNone
  <2>2. CASE ~AllNops(o)
    <3>1. request # NoRequest /\ o = <<[cmd |-> request.cmd, addr |-> request.addr]>>
      BY <1>2, <2>2, JoiningCommand
    <3>2. Has(o, "SCW") => request.cmd = "SCW"
      BY <3>1 DEF Has
    <3> QED BY <1>2, <3>1, <3>2, JoiningCommand
  <2> QED BY <2>1, <2>2
<1>4. /\ Put(request) \in Seq(Words)
      /\ request.cmd = "SCW" => dataQ \o Put(request) # <<>>
      /\ dataQ # <<>> => dataQ \o Put(request) # <<>>
  BY Puts, ConcatEqualIffEmpty DEF WordsType
<1> HIDE DEF o
<1>5. CASE coreQ' = coreQ \o o /\ dataQ' = dataQ \o Put(request)
  BY <1>3, <1>4, <1>5, JoinedQueues DEF QueueInv
<1>6. CASE /\ coreQ # <<>> /\ Head(coreQ).cmd \notin {"SCW", "SCR"}
           /\ coreQ' = Tail(coreQ) \o o /\ dataQ' = dataQ \o Put(request)
  <2>1. /\ Tail(coreQ) \in Seq(Commands) /\ OneCommand(Tail(coreQ))
        /\ Has(Tail(coreQ), "SCW") => Has(coreQ, "SCW")
    BY <1>6, ShortenedQueue DEF QueueInv
  <2>2. AllNops(Tail(coreQ)) \/ AllNops(o)
    <3>1. ASSUME AllNops(coreQ) PROVE AllNops(Tail(coreQ))
      BY <1>6, <3>1, HeadTailProperties DEF QueueInv, AllNops
    <3> QED BY <1>3, <3>1
  <2> QED BY <1>3, <1>4, <1>6, <2>1, <2>2, JoinedQueues DEF QueueInv
<1>7. CASE /\ coreQ # <<>> /\ Head(coreQ).cmd \in {"SCW", "SCR"}
           /\ coreQ' = Tail(coreQ) \o o
  <2>1. /\ Tail(coreQ) \in Seq(Commands) /\ OneCommand(Tail(coreQ))
        /\ AllNops(Tail(coreQ)) /\ ~AllNops(coreQ)
    BY <1>7, ShortenedQueue DEF QueueInv, AllNops
  <2>2. AllNops(o)
    BY <1>3, <2>1
  <2>3. ~Has(o, "SCW") /\ ~Has(Tail(coreQ), "SCW")
    BY <2>1, <2>2, NopsHaveNone
  <2> QED BY <1>3, <1>7, <2>1, <2>2, <2>3, JoinedQueues DEF QueueInv
<1> QED BY <1>1, <1>5, <1>6, <1>7, CoreOutcomes DEF o

(* A burst is a sequence of words and their addresses.                       *)
LEMMA BurstTypes ==
  ASSUME WordsType, NEW a \in Addresses
  PROVE  ReadBurst(a) \in Seq(Answers)
<1>1. ASSUME NEW i \in 1..READ_WORDS
      PROVE  [raddr |-> (a + i - 1) % ADDRS, data |-> mem[(a + i - 1) % ADDRS]] \in Answers
  <2>1. (a + i - 1) % ADDRS \in Addresses
    BY ScrubAssumption, ServerAssumption DEF Addresses
  <2> QED BY <2>1 DEF WordsType, Answers
<1> QED BY <1>1, ServerAssumption DEF ReadBurst

(* Words are 64 bits wherever they are.                                      *)
LEMMA WordsNext ==
  ASSUME WordsType, QueueInv, CodesInv, NEW request \in Requests,
         ServerClock(request)
  PROVE  WordsType'
<1>1. PICK execute \in {FALSE, ready /\ coreQ # <<>>} : Core(execute, request)
  BY DEF ServerClock
<1>2. intended' \in [Addresses -> Words]
  BY RequestCases DEF ServerClock, Books, WordsType
<1>3. Kept \in Seq(Answers) /\ out' \in Answers
  <2>1. Pops => answers # <<>>
    BY DEF Pops
  <2>2. Pops => Head(answers) \in Answers /\ Tail(answers) \in Seq(Answers)
    BY <2>1, HeadTailProperties DEF WordsType
  <2> QED BY <1>1, <2>2, CoreOutcomes DEF WordsType, Kept
<1>4. Put(request) \in Seq(Words)
  BY Puts
<1>5. \A a \in Addresses : ReadBurst(a) \in Seq(Answers)
  BY BurstTypes
<1>6. mem' \in [Addresses -> Words] /\ dataQ' \in Seq(Words) /\ answers' \in Seq(Answers)
  <2>1. /\ Kept \o <<>> \in Seq(Answers) /\ dataQ \o Put(request) \in Seq(Words)
    BY <1>3, <1>4, ConcatProperties, EmptySeq DEF WordsType
  <2>2. ASSUME coreQ # <<>> PROVE Head(coreQ).addr \in Addresses
    <3>1. Head(coreQ) \in Commands
      BY <2>2, ShortenedQueue DEF QueueInv
    <3> QED BY <3>1 DEF Commands
  <2>3. ASSUME coreQ # <<>>, Head(coreQ).cmd = "SCW"
        PROVE  /\ [mem EXCEPT ![Head(coreQ).addr] = Head(dataQ)] \in [Addresses -> Words]
               /\ SubSeq(dataQ, WRITE_WORDS + 1, Len(dataQ)) \o Put(request) \in Seq(Words)
    <3>1. dataQ # <<>>
      BY <2>3, ShortenedQueue DEF QueueInv, Has
    <3>2. Head(dataQ) \in Words
      BY <3>1, HeadTailProperties DEF WordsType
    <3>3. SubSeq(dataQ, WRITE_WORDS + 1, Len(dataQ)) \in Seq(Words)
      <4>1. Len(dataQ) \in Nat
        BY LenProperties DEF WordsType
      <4>2. \A i \in (WRITE_WORDS + 1)..Len(dataQ) : dataQ[i] \in Words
        <5>1. ASSUME NEW i \in (WRITE_WORDS + 1)..Len(dataQ) PROVE i \in 1..Len(dataQ)
          BY <4>1, ServerAssumption
        <5> QED BY <5>1, ElementOfSeq DEF WordsType
      <4> QED BY <4>1, <4>2, ServerAssumption, SubSeqProperties
    <3> QED BY <1>4, <2>3, <3>2, <3>3, ConcatProperties DEF WordsType
  <2>4. ASSUME coreQ # <<>>
        PROVE  Kept \o ReadBurst(Head(coreQ).addr) \in Seq(Answers)
    BY <1>3, <1>5, <2>2, <2>4, ConcatProperties
  <2> QED BY <1>1, <2>1, <2>3, <2>4, CoreOutcomes DEF WordsType
<1>7. DOUT \in Words
  <2>1. out.raddr \in Addresses /\ out.data \in Words
    BY DEF WordsType, Answers
  <2>2. ASSUME NEW e PROVE data_corrected(out.data, e) \in Words
    <3>1. ASSUME single_err(out.data, e)
          PROVE  Flip(out.data, {error_position(out.data, e) - 1}) \in Words
      <4>1. error_position(out.data, e) \in 1..64
        BY <3>1 DEF single_err
      <4>2. error_position(out.data, e) - 1 \in DataBits
        BY <4>1 DEF DataBits
      <4> QED BY <2>1, <4>2 DEF Flip, Words
    <3> QED BY <2>1, <3>1 DEF data_corrected
  <2> QED BY <2>1, <2>2 DEF DOUT
<1>8. corrected_data' \in Words /\ data_in' \in Words
  <2>1. ScrubClock(TRUE, ready, NOTFULL, validout_r /\ FETCHING, ecc_single_err,
                   out.raddr, DOUT)
    BY DEF ServerClock
  <2>2. /\ corrected_data' \in {corrected_data, DOUT}
        /\ data_in' \in {data_in, corrected_data}
    BY <2>1 DEF ScrubClock, Idle, WaitIdle, IssueRead, WaitData, CheckEcc, IssueWrite,
       WaitWrite, SamePort, SameRepair, SamePlace
  <2> QED BY <1>7, <2>2 DEF WordsType
<1> QED BY <1>2, <1>3, <1>6, <1>8 DEF WordsType, Words, Answers, Addresses

(* The code of a write is stored in the clock that accepts it.               *)
LEMMA CodesNext ==
  ASSUME WordsType, CodesInv, NEW request \in Requests, ServerClock(request)
  PROVE  CodesInv'
<1> DEFINE Codes == {NoCode} \cup {ecc_out(w) : w \in Words}
<1>1. EccStore(request) /\ Books(request)
  BY DEF ServerClock
<1>2. CASE host_cmd_put_ok(request) /\ request.cmd = "SCW"
  <2>1. /\ request.addr \in HostAddrs /\ request.addr \in Addresses
        /\ request.word \in Words
        /\ Arbiter(request) = <<[cmd |-> request.cmd, addr |-> request.addr]>>
    BY <1>2, Offers, RequestCases
  <2>2. /\ Arbiter(request) # <<>>
        /\ Head(Arbiter(request)).cmd = "SCW"
        /\ Head(Arbiter(request)).addr = request.addr
    BY <1>2, <2>1
  <2>3. StoresCode(Head(Arbiter(request)))
    BY <2>2 DEF StoresCode
  <2>4. intended' = [intended EXCEPT ![request.addr] = request.word]
    BY <1>1, <1>2 DEF Books
  <2>5. CASE request.addr < TRACKED
    <3>1. ecc_storage' = [ecc_storage EXCEPT ![request.addr] = ecc_out(request.word)]
      BY <1>1, <2>2, <2>3, <2>5 DEF EccStore
    <3>2. ecc_storage' \in [Addresses -> Codes]
      BY <2>1, <3>1 DEF CodesInv
    <3>3. ASSUME NEW a \in Addresses, ecc_storage'[a] # NoCode
          PROVE  a \in HostAddrs /\ a < TRACKED /\ ecc_storage'[a] = ecc_out(intended'[a])
      <4>1. CASE a = request.addr
        <5>1. intended'[a] = request.word
          BY <2>1, <2>4, <4>1 DEF WordsType
        <5>2. ecc_storage'[a] = ecc_out(request.word)
          BY <2>1, <3>1, <4>1 DEF CodesInv
        <5> QED BY <2>1, <2>5, <4>1, <5>1, <5>2
      <4>2. CASE a # request.addr
        <5>1. intended'[a] = intended[a]
          BY <2>4, <4>2 DEF WordsType
        <5>2. ecc_storage'[a] = ecc_storage[a]
          BY <3>1, <4>2 DEF CodesInv
        <5> QED BY <3>3, <5>1, <5>2 DEF CodesInv
      <4> QED BY <4>1, <4>2
    <3> QED BY <3>2, <3>3 DEF CodesInv, Words, Addresses
  <2>6. CASE ~(request.addr < TRACKED)
    <3>1. ecc_storage' = ecc_storage
      BY <1>1, <2>2, <2>6 DEF EccStore
    <3>2. ecc_storage[request.addr] = NoCode
      BY <2>1, <2>6 DEF CodesInv
    <3> QED BY <2>1, <2>4, <3>1, <3>2 DEF CodesInv, WordsType, Words, Addresses
  <2> QED BY <2>5, <2>6
<1>3. CASE ~(host_cmd_put_ok(request) /\ request.cmd = "SCW")
  <2>1. intended' = intended
    BY <1>1, <1>3 DEF Books
  <2>2. ecc_storage' = ecc_storage
    <3>1. \/ Arbiter(request) = <<>>
          \/ /\ Arbiter(request) # <<>>
             /\ Head(Arbiter(request)).cmd \in {"SCR", "NOP"}
      BY <1>3, Offers
    <3>2. Arbiter(request) = <<>> \/ ~StoresCode(Head(Arbiter(request)))
      BY <3>1 DEF StoresCode
    <3> QED BY <1>1, <3>2 DEF EccStore
  <2> QED BY <2>1, <2>2 DEF CodesInv, Addresses
<1> QED BY <1>2, <1>3

(* RESET forgets the codes and a fault leaves them alone.                    *)
LEMMA EccNext == EccInv /\ [ServerNext]_everything => EccInv'
<1> SUFFICES ASSUME EccInv, [ServerNext]_everything PROVE EccInv'
  OBVIOUS
<1>1. ASSUME NEW request \in Requests, ServerClock(request) PROVE EccInv'
  BY <1>1, WordsNext, QueueNext, CodesNext DEF EccInv
<1>2. CASE Fault
  <2>1. UNCHANGED <<dataQ, answers, out, intended, corrected_data, data_in, coreQ,
                    ecc_storage>>
    BY <1>2, Zenon DEF Fault, scrub
  <2>2. mem' \in [Addresses -> Words]
    <3>1. PICK a \in HostAddrs, F \in FlipSets : mem' = [mem EXCEPT ![a] = Flip(@, F)]
      BY <1>2, Zenon DEF Fault
    <3>2. a \in Addresses /\ F \in Words
      BY ServerAssumption DEF Addresses, Words
    <3>3. Flip(mem[a], F) \in Words
      BY <3>2 DEF EccInv, WordsType, Words, Flip
    <3> QED BY <3>1, <3>2, <3>3 DEF EccInv, WordsType
  <2> QED BY <2>1, <2>2 DEF EccInv, WordsType, QueueInv, CodesInv, Words, Answers,
      Addresses, Has, OneCommand
<1>3. CASE ServerReset
  <2>1. 0 \in Addresses
    BY ScrubAssumption DEF Addresses
  <2>2. /\ mem' = [a \in Addresses |-> Blank] /\ intended' = [a \in Addresses |-> Blank]
        /\ coreQ' = <<>> /\ dataQ' = <<>> /\ answers' = <<>>
        /\ out' = [raddr |-> 0, data |-> Blank]
        /\ ecc_storage' = [a \in Addresses |-> NoCode]
        /\ corrected_data' = corrected_data /\ data_in' = data_in
    BY <1>3 DEF ServerReset, ScrubReset
  <2>3. WordsType'
    BY <2>1, <2>2, EmptySeq DEF EccInv, WordsType, Words, Answers, Blank, Addresses
  <2>4. QueueInv'
    BY <2>2, EmptySeq DEF QueueInv, Has, OneCommand
  <2>5. CodesInv'
    BY <2>2 DEF CodesInv
  <2> QED BY <2>3, <2>4, <2>5 DEF EccInv
<1>4. CASE UNCHANGED everything
  BY <1>4 DEF everything, server, scrub, EccInv, WordsType, QueueInv, CodesInv, Words,
     Answers, Addresses, Has, OneCommand
<1> QED BY <1>1, <1>2, <1>3, <1>4 DEF ServerNext

LEMMA EccInit == ServerInit => EccInv
<1> SUFFICES ASSUME ServerInit PROVE EccInv
  OBVIOUS
<1>1. 0 \in Addresses
  BY ScrubAssumption DEF Addresses
<1>2. /\ mem = [a \in Addresses |-> Blank] /\ intended = [a \in Addresses |-> Blank]
      /\ coreQ = <<>> /\ dataQ = <<>> /\ answers = <<>>
      /\ out = [raddr |-> 0, data |-> Blank]
      /\ ecc_storage = [a \in Addresses |-> NoCode]
      /\ corrected_data = Blank /\ data_in = Blank
  BY DEF ServerInit, ScrubInit
<1>3. WordsType
  BY <1>1, <1>2, EmptySeq DEF WordsType, Words, Answers, Blank
<1>4. QueueInv
  BY <1>2, EmptySeq DEF QueueInv, Has, OneCommand
<1>5. CodesInv
  BY <1>2 DEF CodesInv
<1> QED BY <1>3, <1>4, <1>5 DEF EccInv

(* The reports about a word read back are exact for one and two wrong bits:  *)
(* for every set of words and faults, memory, burst and queue, and any order *)
(* of clocks, faults and RESETs.                                             *)
THEOREM ReportsAreExact == ServerSpec => []EccExact
<1>1. EccInv => EccExact
  <2> SUFFICES ASSUME EccInv, Checked,
                      Cardinality(Flip(out.data, intended[out.raddr])) <= 2
               PROVE  LET wrong == Cardinality(Flip(out.data, intended[out.raddr]))
                      IN  /\ wrong > 0 <=> ecc_single_err \/ ecc_double_err
                          /\ wrong = 2 => ecc_double_err
    BY Zenon DEF EccExact
  <2> DEFINE d == out.data
             w == intended[out.raddr]
  <2>1. out.raddr \in Addresses /\ d \in SUBSET DataBits
    BY DEF EccInv, WordsType, Answers, Words
  <2>2. w \in SUBSET DataBits
    BY <2>1 DEF EccInv, WordsType, Words
  <2>3. ecc_storage[out.raddr] = ecc_out(w)
    BY <2>1 DEF EccInv, CodesInv, Checked, addr_has_ecc
  <2>4. /\ ecc_single_err <=> single_err(d, ecc_out(w))
        /\ ecc_double_err <=> double_err(d, ecc_out(w))
    BY <2>3, Zenon DEF ecc_single_err, ecc_double_err
  <2> HIDE DEF d, w
  <2>5. Cardinality(Flip(d, w)) <= 2
    BY DEF d, w
  <2>6. LET wrong == Cardinality(Flip(d, w))
            single == single_err(d, ecc_out(w))
            double == double_err(d, ecc_out(w))
        IN  /\ wrong > 0 <=> single \/ double
            /\ wrong = 2 => double
    BY <2>1, <2>2, <2>5, DecoderExact
  <2> QED BY <2>4, <2>6, Zenon DEF d, w
<1> QED BY <1>1, EccInit, EccNext, PTL DEF ServerSpec

-----------------------------------------------------------------------------
(***************************************************************************)
(* The words a read owes the host.                                         *)
(***************************************************************************)
OfRank(a) == a \in HostAddrs => RankOf[a] = RankOf[ADDR]

One(b) == IF b THEN 1 ELSE 0

\* Until its last word is out the host is owed the words of one read, and its
\* ADDR names their rank.
OwedInv ==
  /\ owed \in Nat /\ fetch_pop_r \in BOOLEAN /\ validout_r \in BOOLEAN
  /\ ~(fetch_pop_r /\ validout_r)
  /\ Has(coreQ, "SCR") =>
       owed = READ_WORDS /\ answers = <<>> /\ ~fetch_pop_r /\ ~validout_r
  /\ ~Has(coreQ, "SCR") => owed = Len(answers) + One(fetch_pop_r) + One(validout_r)

RanksInv ==
  /\ ADDR \in Addresses
  /\ \A i \in 1..Len(coreQ) :
       coreQ[i].cmd = "SCR" => coreQ[i].addr = ADDR /\ ADDR \in HostAddrs
  /\ \A i \in 1..Len(answers) : OfRank(answers[i].raddr)
  /\ fetch_pop_r \/ validout_r => OfRank(out.raddr)

\* The model's own count is the register.
FlaggedInv == flagged = uncorrectable_err_cnt

OfflineInv == EccInv /\ RasInv /\ OwedInv /\ RanksInv /\ FlaggedInv

(* Nothing owed, nothing on its way.                                         *)
LEMMA NoneOwed ==
  ASSUME NEW n \in Nat, NEW f \in BOOLEAN, NEW v \in BOOLEAN, n + One(f) + One(v) = 0
  PROVE  n = 0 /\ ~f /\ ~v
  BY DEF One

(* A host that is free is owed nothing.                                      *)
LEMMA FreeHost ==
  ASSUME EccInv, OwedInv, NEW request, HostMay(request), request # NoRequest
  PROVE  /\ NOTFULL /\ owed = 0 /\ AllNops(coreQ) /\ answers = <<>>
         /\ ~fetch_pop_r /\ ~validout_r
<1>1. NOTFULL /\ owed = 0 /\ HostIsFree
  BY DEF HostMay, HostIsFree
<1>2. AllNops(coreQ)
  <2>1. DOMAIN coreQ = 1..Len(coreQ)
    BY LenProperties DEF EccInv, QueueInv
  <2> QED BY <1>1, <2>1 DEF HostIsFree, AllNops
<1>3. owed = Len(answers) + One(fetch_pop_r) + One(validout_r)
  BY <1>2, NopsHaveNone DEF OwedInv
<1>4. Len(answers) \in Nat
  BY LenProperties DEF EccInv, WordsType
<1>5. Len(answers) = 0 /\ ~fetch_pop_r /\ ~validout_r
  BY <1>1, <1>3, <1>4, NoneOwed DEF OwedInv
<1>6. answers = <<>>
  BY <1>5, EmptySeq DEF EccInv, WordsType
<1> QED BY <1>1, <1>2, <1>5, <1>6

(* The count of one clock, in numbers: n words wait, f is fetched, v is out. *)
LEMMA OneClock ==
  ASSUME NEW n \in Nat, NEW f \in BOOLEAN, NEW v \in BOOLEAN, ~(f /\ v),
         NEW p \in BOOLEAN, p => n > 0 /\ ~f
  PROVE  (IF v THEN (n + One(f) + One(v)) - 1 ELSE n + One(f) + One(v))
           = (n - One(p)) + One(p) + One(f)
  BY DEF One

(* What is left of the answers after a clock.                                *)
LEMMA KeptAnswers ==
  ASSUME EccInv
  PROVE  /\ Kept \in Seq(Answers) /\ Kept \o <<>> = Kept
         /\ Len(answers) \in Nat /\ (Pops => Len(answers) > 0 /\ ~fetch_pop_r)
         /\ Len(Kept) = Len(answers) - One(Pops)
         /\ \A i \in 1..Len(Kept) : \E j \in 1..Len(answers) : Kept[i] = answers[j]
         /\ Pops => \E j \in 1..Len(answers) : Head(answers) = answers[j]
<1>1. answers \in Seq(Answers) /\ Len(answers) \in Nat
  BY LenProperties DEF EccInv, WordsType
<1>2. CASE Pops
  <2>1. answers # <<>> /\ ~fetch_pop_r
    BY <1>2 DEF Pops, FETCHING
  <2>2. /\ Kept = Tail(answers) /\ One(Pops) = 1
    BY <1>2 DEF Kept, One
  <2>3. /\ Tail(answers) \in Seq(Answers) /\ Len(Tail(answers)) = Len(answers) - 1
        /\ \A i \in 1..Len(Tail(answers)) : Tail(answers)[i] = answers[i + 1]
    BY <1>1, <2>1, HeadTailProperties, Zenon
  <2>4. Len(answers) > 0
    BY <1>1, <2>1, EmptySeq
  <2>5. Head(answers) = answers[1] /\ 1 \in 1..Len(answers)
    BY <1>1, <2>1, <2>4
  <2>6. \A i \in 1..Len(Tail(answers)) : i + 1 \in 1..Len(answers)
    BY <1>1, <2>3
  <2>7. Kept \o <<>> = Kept
    BY <2>2, <2>3, ConcatEmptySeq
  <2> QED BY <1>1, <2>1, <2>2, <2>3, <2>4, <2>5, <2>6, <2>7
<1>3. CASE ~Pops
  <2>1. Kept = answers /\ One(Pops) = 0
    BY <1>3 DEF Kept, One
  <2>2. Kept \o <<>> = Kept
    BY <1>1, <2>1, ConcatEmptySeq
  <2> QED BY <1>1, <1>3, <2>1, <2>2
<1> QED BY <1>2, <1>3

(* The command that joins, for the reads.                                    *)
LEMMA JoiningRead ==
  ASSUME OfflineInv, NEW request \in Requests, HostMay(request)
  PROVE  /\ Offered(request) \in Seq(Commands) /\ OneCommand(Offered(request))
         /\ AllNops(coreQ) \/ AllNops(Offered(request))
         /\ \A i \in 1..Len(Offered(request)) :
              Offered(request)[i].cmd = "SCR" =>
                /\ request.cmd = "SCR" /\ request # NoRequest
                /\ Offered(request)[i].addr = request.addr
         /\ Has(Offered(request), "SCR") <=>
              host_cmd_put_ok(request) /\ request.cmd = "SCR"
<1> DEFINE o == Offered(request)
<1>1. /\ o \in Seq(Commands) /\ OneCommand(o)
      /\ AllNops(coreQ) \/ AllNops(o)
  BY JoiningCommand DEF OfflineInv, EccInv
<1>2. CASE AllNops(o) /\ ~host_cmd_put_ok(request)
  BY <1>1, <1>2, NopsHaveNone DEF AllNops
<1>3. CASE /\ request # NoRequest /\ host_cmd_put_ok(request)
           /\ o = <<[cmd |-> request.cmd, addr |-> request.addr]>>
  <2>1. /\ Len(o) = 1 /\ o[1].cmd = request.cmd /\ o[1].addr = request.addr
    BY <1>3
  <2>2. 1..Len(o) = {1}
    BY <2>1
  <2> HIDE DEF o
  <2>3. Has(o, "SCR") <=> request.cmd = "SCR"
    BY <2>1, <2>2 DEF Has
  <2> QED BY <1>1, <1>3, <2>1, <2>2, <2>3 DEF o
<1> QED BY <1>2, <1>3, JoiningCommand DEF OfflineInv, EccInv

(* The queue's reads after a clock.                                          *)
LEMMA QueueOutcomes ==
  ASSUME OfflineInv, NEW request \in Requests, ServerClock(request)
  PROVE  /\ validout_r' = fetch_pop_r /\ fetch_pop_r' = Pops
         /\ out' = IF Pops THEN Head(answers) ELSE out
         /\ \/ /\ answers' = Kept
               /\ Has(coreQ', "SCR") <=>
                    Has(coreQ, "SCR") \/ (host_cmd_put_ok(request) /\ request.cmd = "SCR")
               /\ \A i \in 1..Len(coreQ') : coreQ'[i].cmd = "SCR" =>
                    \/ \E j \in 1..Len(coreQ) : coreQ'[i] = coreQ[j]
                    \/ request # NoRequest /\ request.cmd = "SCR"
                       /\ coreQ'[i].addr = request.addr
            \/ /\ coreQ # <<>> /\ Head(coreQ).cmd = "SCR"
               /\ answers' = Kept \o ReadBurst(Head(coreQ).addr)
               /\ ~Has(coreQ', "SCR") /\ request = NoRequest
<1> DEFINE o == Offered(request)
<1>1. PICK execute \in {FALSE, ready /\ coreQ # <<>>} : Core(execute, request)
  BY DEF ServerClock
<1>2. HostMay(request)
  BY DEF ServerClock
<1>3. /\ o \in Seq(Commands) /\ OneCommand(o)
      /\ AllNops(coreQ) \/ AllNops(o)
      /\ \A i \in 1..Len(o) :
           o[i].cmd = "SCR" => /\ request.cmd = "SCR" /\ request # NoRequest
                               /\ o[i].addr = request.addr
      /\ Has(o, "SCR") <=> host_cmd_put_ok(request) /\ request.cmd = "SCR"
  BY <1>2, JoiningRead
<1>4. coreQ \in Seq(Commands) /\ OneCommand(coreQ)
  BY DEF OfflineInv, EccInv, QueueInv
<1>5. Kept \o <<>> = Kept
  BY KeptAnswers DEF OfflineInv
<1>6. ASSUME NEW q \in Seq(Commands), OneCommand(q), AllNops(q) \/ AllNops(o),
             Has(q, "SCR") <=> Has(coreQ, "SCR"),
             \A i \in 1..Len(q) : \E j \in 1..Len(coreQ) : q[i] = coreQ[j],
             coreQ' = q \o o
      PROVE  /\ Has(coreQ', "SCR") <=>
                  Has(coreQ, "SCR") \/ (host_cmd_put_ok(request) /\ request.cmd = "SCR")
             /\ \A i \in 1..Len(coreQ') : coreQ'[i].cmd = "SCR" =>
                  \/ \E j \in 1..Len(coreQ) : coreQ'[i] = coreQ[j]
                  \/ request # NoRequest /\ request.cmd = "SCR"
                     /\ coreQ'[i].addr = request.addr
  <2>1. Has(q \o o, "SCR") <=> Has(q, "SCR") \/ Has(o, "SCR")
    BY <1>3, <1>6, JoinedQueues
  <2>2. ASSUME NEW i \in 1..Len(q \o o)
        PROVE  \/ i \in 1..Len(q) /\ (q \o o)[i] = q[i]
               \/ i - Len(q) \in 1..Len(o) /\ (q \o o)[i] = o[i - Len(q)]
    <3>1. Len(q) \in Nat /\ Len(o) \in Nat
      BY <1>3, LenProperties
    <3>2. /\ Len(q \o o) = Len(q) + Len(o)
          /\ \A n \in 1..(Len(q) + Len(o)) :
               (q \o o)[n] = IF n <= Len(q) THEN q[n] ELSE o[n - Len(q)]
      BY <1>3, ConcatProperties
    <3>3. i \in 1..(Len(q) + Len(o))
      BY <3>2
    <3>4. (i <= Len(q) => i \in 1..Len(q)) /\ (~(i <= Len(q)) => i - Len(q) \in 1..Len(o))
      BY <3>1, <3>3
    <3> QED BY <3>2, <3>3, <3>4, Zenon
  <2>3. Has(coreQ', "SCR") <=> Has(q, "SCR") \/ Has(o, "SCR")
    BY <1>6, <2>1
  <2>4. ASSUME NEW i \in 1..Len(coreQ'), coreQ'[i].cmd = "SCR"
        PROVE  \/ \E j \in 1..Len(coreQ) : coreQ'[i] = coreQ[j]
               \/ request # NoRequest /\ request.cmd = "SCR" /\ coreQ'[i].addr = request.addr
    <3>1. \/ i \in 1..Len(q) /\ coreQ'[i] = q[i]
          \/ i - Len(q) \in 1..Len(o) /\ coreQ'[i] = o[i - Len(q)]
      BY <1>6, <2>2
    <3> QED BY <1>3, <1>6, <2>4, <3>1, Zenon
  <2> QED BY <1>3, <2>3, <2>4, <1>6
<1> HIDE DEF o
<1>7. CASE answers' = Kept \o <<>> /\ coreQ' = coreQ \o o
  <2>1. \A i \in 1..Len(coreQ) : \E j \in 1..Len(coreQ) : coreQ[i] = coreQ[j]
    OBVIOUS
  <2> QED BY <1>1, <1>3, <1>4, <1>5, <1>6, <1>7, <2>1, CoreOutcomes
<1>8. CASE /\ coreQ # <<>> /\ Head(coreQ).cmd # "SCR"
           /\ answers' = Kept \o <<>> /\ coreQ' = Tail(coreQ) \o o
  <2>1. /\ Tail(coreQ) \in Seq(Commands) /\ OneCommand(Tail(coreQ))
        /\ Has(Tail(coreQ), "SCR") <=> Has(coreQ, "SCR")
    BY <1>4, <1>8, ShortenedQueue
  <2>2. \A i \in 1..Len(Tail(coreQ)) : \E j \in 1..Len(coreQ) : Tail(coreQ)[i] = coreQ[j]
    <3>1. /\ Len(Tail(coreQ)) = Len(coreQ) - 1 /\ Len(coreQ) \in Nat
          /\ \A i \in 1..Len(Tail(coreQ)) : Tail(coreQ)[i] = coreQ[i + 1]
      BY <1>4, <1>8, HeadTailProperties, LenProperties
    <3>2. \A i \in 1..Len(Tail(coreQ)) : i + 1 \in 1..Len(coreQ)
      BY <3>1
    <3> QED BY <3>1, <3>2
  <2>3. AllNops(Tail(coreQ)) \/ AllNops(o)
    <3>1. AllNops(coreQ) => AllNops(Tail(coreQ))
      BY <2>2 DEF AllNops
    <3> QED BY <1>3, <3>1
  <2> QED BY <1>1, <1>5, <1>6, <1>8, <2>1, <2>2, <2>3, CoreOutcomes
<1>9. CASE /\ coreQ # <<>> /\ Head(coreQ).cmd = "SCR"
           /\ answers' = Kept \o ReadBurst(Head(coreQ).addr)
           /\ coreQ' = Tail(coreQ) \o o
  <2>1. /\ Tail(coreQ) \in Seq(Commands) /\ OneCommand(Tail(coreQ))
        /\ AllNops(Tail(coreQ)) /\ ~AllNops(coreQ)
    BY <1>4, <1>9, ShortenedQueue DEF AllNops
  <2>2. request = NoRequest /\ AllNops(o)
    BY <1>2, <1>3, <2>1, FreeHost DEF OfflineInv
  <2>3. ~Has(coreQ', "SCR")
    BY <1>3, <1>9, <2>1, <2>2, JoinedQueues, NopsHaveNone
  <2> QED BY <1>1, <1>9, <2>2, <2>3, CoreOutcomes
<1> QED BY <1>1, <1>7, <1>8, <1>9, CoreOutcomes DEF o

(* One clock keeps the count of owed words.                                  *)
LEMMA OwedNext ==
  ASSUME OfflineInv, NEW request \in Requests, ServerClock(request)
  PROVE  OwedInv'
<1> DEFINE asked == host_cmd_put_ok(request) /\ request.cmd = "SCR"
<1>1. /\ validout_r' = fetch_pop_r /\ fetch_pop_r' = Pops
      /\ \/ /\ answers' = Kept
            /\ Has(coreQ', "SCR") <=> Has(coreQ, "SCR") \/ asked
         \/ /\ coreQ # <<>> /\ Head(coreQ).cmd = "SCR"
            /\ answers' = Kept \o ReadBurst(Head(coreQ).addr)
            /\ ~Has(coreQ', "SCR") /\ request = NoRequest
  BY QueueOutcomes
<1>2. owed' = IF asked THEN READ_WORDS ELSE IF validout_r THEN owed - 1 ELSE owed
  BY DEF ServerClock, Books
<1>3. /\ owed \in Nat /\ fetch_pop_r \in BOOLEAN /\ validout_r \in BOOLEAN
      /\ ~(fetch_pop_r /\ validout_r)
      /\ Has(coreQ, "SCR") =>
           owed = READ_WORDS /\ answers = <<>> /\ ~fetch_pop_r /\ ~validout_r
      /\ ~Has(coreQ, "SCR") => owed = Len(answers) + One(fetch_pop_r) + One(validout_r)
  BY DEF OfflineInv, OwedInv
<1>4. Pops \in BOOLEAN /\ (Pops => ~fetch_pop_r)
  BY DEF Pops, FETCHING
<1>5. /\ fetch_pop_r' \in BOOLEAN /\ validout_r' \in BOOLEAN
      /\ ~(fetch_pop_r' /\ validout_r')
  BY <1>1, <1>3, <1>4
<1>6. asked => request # NoRequest
  BY DEF host_cmd_put_ok
<1>7. answers = <<>> => ~Pops /\ Kept = answers
  BY DEF Pops, Kept
<1>8. HostMay(request)
  BY DEF ServerClock
<1> HIDE DEF asked
<1>9. CASE asked
  <2>1. answers = <<>> /\ ~fetch_pop_r /\ ~validout_r
    BY <1>6, <1>8, <1>9, FreeHost DEF OfflineInv
  <2>2. /\ answers' = <<>> /\ ~fetch_pop_r' /\ ~validout_r' /\ Has(coreQ', "SCR")
        /\ owed' = READ_WORDS
    BY <1>1, <1>2, <1>6, <1>7, <1>9, <2>1
  <2> QED BY <1>5, <2>2, ServerAssumption DEF OwedInv
<1>10. CASE ~asked /\ Has(coreQ, "SCR")
  <2>1. /\ owed' = READ_WORDS /\ Kept = <<>> /\ ~fetch_pop_r' /\ ~validout_r'
    BY <1>1, <1>2, <1>3, <1>7, <1>10
  <2>2. CASE answers' = Kept /\ Has(coreQ', "SCR")
    BY <1>5, <2>1, <2>2, ServerAssumption DEF OwedInv
  <2>3. CASE /\ answers' = Kept \o ReadBurst(Head(coreQ).addr)
             /\ ~Has(coreQ', "SCR")
    <3>1. Len(answers') = READ_WORDS
      <4>1. Len(ReadBurst(Head(coreQ).addr)) = READ_WORDS
        BY ServerAssumption DEF ReadBurst
      <4>2. Len(<<>> \o ReadBurst(Head(coreQ).addr)) = READ_WORDS
        BY <4>1, ServerAssumption
      <4> QED BY <2>1, <2>3, <4>2
    <3>2. owed' = Len(answers') + One(fetch_pop_r') + One(validout_r')
      BY <2>1, <3>1, ServerAssumption DEF One
    <3> QED BY <1>5, <2>1, <2>3, <3>2, ServerAssumption DEF OwedInv, One
  <2> QED BY <1>1, <1>10, <2>2, <2>3
<1>11. CASE ~asked /\ ~Has(coreQ, "SCR")
  <2>1. ~(coreQ # <<>> /\ Head(coreQ).cmd = "SCR")
    BY <1>11, ShortenedQueue DEF OfflineInv, EccInv, QueueInv, Has
  <2>2. answers' = Kept /\ ~Has(coreQ', "SCR")
    BY <1>1, <1>11, <2>1
  <2>3. /\ Len(answers) \in Nat /\ (Pops => Len(answers) > 0)
        /\ Len(Kept) = Len(answers) - One(Pops)
    BY KeptAnswers DEF OfflineInv
  <2>4. owed' = (IF validout_r
                   THEN (Len(answers) + One(fetch_pop_r) + One(validout_r)) - 1
                   ELSE Len(answers) + One(fetch_pop_r) + One(validout_r))
    BY <1>2, <1>3, <1>11, Zenon
  <2>5. owed' = (Len(answers) - One(Pops)) + One(Pops) + One(fetch_pop_r)
    BY <1>3, <1>4, <2>3, <2>4, OneClock
  <2>6. owed' = Len(answers') + One(fetch_pop_r') + One(validout_r')
    BY <1>1, <2>2, <2>3, <2>5 DEF One
  <2>7. owed' \in Nat
    <3>1. Len(answers) - One(Pops) \in Nat
      BY <2>3 DEF One
    <3> QED BY <2>5, <3>1 DEF One
  <2> QED BY <1>5, <2>2, <2>6, <2>7 DEF OwedInv, One
<1> QED BY <1>9, <1>10, <1>11

(* ADDR names the rank of the words on their way until they are out.         *)
LEMMA RanksNext ==
  ASSUME BurstsStayInRank, OfflineInv, NEW request \in Requests, ServerClock(request)
  PROVE  RanksInv'
<1>1. ADDR' = HostAddress(request) /\ HostMay(request)
  BY DEF ServerClock, Books
<1>2. HostAddress(request) \in Addresses
  BY RequestCases DEF HostAddress, OfflineInv, RanksInv
<1>3. CASE request = NoRequest
  <2>1. ADDR' = ADDR
    BY <1>1, <1>3 DEF HostAddress
  <2>2. \A a : OfRank(a)' <=> OfRank(a)
    BY <2>1 DEF OfRank
  <2>3. /\ \A i \in 1..Len(Kept) : OfRank(Kept[i].raddr)
        /\ fetch_pop_r' \/ validout_r' => OfRank(out'.raddr)
    BY QueueOutcomes, KeptAnswers DEF OfflineInv, RanksInv
  <2>4. ASSUME coreQ # <<>>, Head(coreQ).cmd = "SCR"
        PROVE  \A i \in 1..Len(ReadBurst(Head(coreQ).addr)) :
                 OfRank(ReadBurst(Head(coreQ).addr)[i].raddr)
    <3>1. Head(coreQ).addr = ADDR /\ ADDR \in HostAddrs
      BY <2>4, ShortenedQueue DEF OfflineInv, EccInv, QueueInv, RanksInv
    <3>2. /\ Len(ReadBurst(ADDR)) = READ_WORDS
          /\ \A i \in 1..READ_WORDS : ReadBurst(ADDR)[i].raddr = (ADDR + i - 1) % ADDRS
      BY ServerAssumption DEF ReadBurst
    <3> QED BY <3>1, <3>2 DEF BurstsStayInRank, OfRank
  <2>5. \A i \in 1..Len(answers') : OfRank(answers'[i].raddr)
    <3>1. CASE answers' = Kept
      BY <2>3, <3>1
    <3>2. CASE /\ coreQ # <<>> /\ Head(coreQ).cmd = "SCR"
               /\ answers' = Kept \o ReadBurst(Head(coreQ).addr)
      <4> DEFINE r == ReadBurst(Head(coreQ).addr)
      <4>1. Kept \in Seq(Answers) /\ r \in Seq(Answers)
        <5>1. Head(coreQ).addr \in Addresses
          <6>1. Head(coreQ) \in Commands
            BY <3>2, ShortenedQueue DEF OfflineInv, EccInv, QueueInv
          <6> QED BY <6>1 DEF Commands
        <5> QED BY <5>1, BurstTypes, KeptAnswers DEF OfflineInv, EccInv
      <4>2. \A i \in 1..Len(r) : OfRank(r[i].raddr)
        BY <2>4, <3>2
      <4> HIDE DEF r
      <4>3. ASSUME NEW i \in 1..Len(Kept \o r) PROVE OfRank((Kept \o r)[i].raddr)
        <5>1. Len(Kept) \in Nat /\ Len(r) \in Nat
          BY <4>1, LenProperties
        <5>2. /\ Len(Kept \o r) = Len(Kept) + Len(r)
              /\ \A n \in 1..(Len(Kept) + Len(r)) :
                   (Kept \o r)[n] = IF n <= Len(Kept) THEN Kept[n] ELSE r[n - Len(Kept)]
          BY <4>1, ConcatProperties
        <5>3. i \in 1..(Len(Kept) + Len(r))
          BY <5>2
        <5>4. /\ i <= Len(Kept) => i \in 1..Len(Kept)
              /\ ~(i <= Len(Kept)) => i - Len(Kept) \in 1..Len(r)
          BY <5>1, <5>3
        <5> QED BY <2>3, <4>2, <5>2, <5>3, <5>4, Zenon
      <4> QED BY <3>2, <4>3 DEF r
    <3> QED BY <3>1, <3>2, QueueOutcomes
  <2>6. \A i \in 1..Len(coreQ') : coreQ'[i].cmd = "SCR" =>
          coreQ'[i].addr = ADDR /\ ADDR \in HostAddrs
    BY <1>3, QueueOutcomes DEF OfflineInv, RanksInv, Has
  <2> QED BY <1>1, <1>2, <2>1, <2>2, <2>3, <2>5, <2>6 DEF RanksInv, Addresses
<1>4. CASE request # NoRequest
  <2>1. ADDR' = request.addr /\ request.addr \in HostAddrs
    BY <1>1, <1>4, RequestCases DEF HostAddress
  <2>2. answers = <<>> /\ ~fetch_pop_r /\ ~validout_r /\ AllNops(coreQ)
    BY <1>1, <1>4, FreeHost DEF OfflineInv
  <2>3. ~Pops /\ Kept = <<>>
    BY <2>2 DEF Pops, Kept
  <2>4. answers' = <<>> /\ ~fetch_pop_r' /\ ~validout_r'
    BY <1>4, <2>2, <2>3, QueueOutcomes
  <2>5. \A i \in 1..Len(coreQ') : coreQ'[i].cmd = "SCR" => coreQ'[i].addr = request.addr
    BY <1>4, <2>2, QueueOutcomes DEF AllNops
  <2> QED BY <1>1, <1>2, <2>1, <2>4, <2>5 DEF RanksInv, Addresses
<1> QED BY <1>3, <1>4

(* A rank is charged with its own words: while a word is out, ADDR still     *)
(* names the rank it was read from.                                          *)
LEMMA FlaggedNext ==
  ASSUME OfflineInv, NEW request \in Requests, ServerClock(request)
  PROVE  FlaggedInv'
<1>1. /\ RasClock(ecc_single_err, ecc_double_err, last_read_addr, err_rank(request))
      /\ flagged' = IF ecc_double_err
                      THEN [flagged EXCEPT ![RankOf[out.raddr]] = @ + 1]
                      ELSE flagged
      /\ HostMay(request)
  BY DEF ServerClock, Books
<1>2. ecc_single_err => ~ecc_double_err
  BY DEF ecc_single_err, ecc_double_err, double_err
<1>3. CASE ecc_double_err
  <2>1. validout_r /\ ecc_storage[out.raddr] # NoCode
    BY <1>3 DEF ecc_double_err, Checked, addr_has_ecc
  <2>2. request = NoRequest
    BY <1>1, <2>1, FreeHost DEF OfflineInv
  <2>3. out.raddr \in HostAddrs
    BY <2>1 DEF OfflineInv, EccInv, WordsType, Answers, CodesInv
  <2>4. RankOf[out.raddr] = err_rank(request)
    BY <2>1, <2>2, <2>3 DEF OfflineInv, RanksInv, OfRank, err_rank, HostAddress
  <2>5. UncorrectableError(last_read_addr, err_rank(request))
    BY <1>1, <1>2, <1>3 DEF RasClock
  <2>6. uncorrectable_err_cnt'
          = [uncorrectable_err_cnt EXCEPT ![err_rank(request)] = @ + 1]
    BY <2>5 DEF UncorrectableError
  <2> QED BY <1>1, <1>3, <2>4, <2>6 DEF OfflineInv, FlaggedInv
<1>4. CASE ~ecc_double_err
  <2>1. uncorrectable_err_cnt' = uncorrectable_err_cnt
    BY <1>1, <1>4 DEF RasClock, CorrectableError, ras, counters
  <2> QED BY <1>1, <1>4, <2>1 DEF OfflineInv, FlaggedInv
<1> QED BY <1>3, <1>4

(* Empty queues and no word: nothing is owed.                                *)
LEMMA NothingThere ==
  /\ ~Has(<<>>, "SCR") /\ Len(<<>>) = 0
  /\ 0 = Len(<<>>) + One(FALSE) + One(FALSE)
<1>1. Len(<<>>) = 0
  BY EmptySeq
<1>2. ~Has(<<>>, "SCR")
  BY <1>1 DEF Has
<1> QED BY <1>1, <1>2 DEF One

(* Every step keeps the books: a clock, a fault, RESET.                      *)
LEMMA OfflineNext ==
  ASSUME BurstsStayInRank
  PROVE  OfflineInv /\ [ServerNext]_everything => OfflineInv'
<1> SUFFICES ASSUME OfflineInv, [ServerNext]_everything PROVE OfflineInv'
  OBVIOUS
<1>1. EccInv' /\ RasInv'
  BY EccNext, RasInvNext DEF OfflineInv
<1>2. ASSUME NEW request \in Requests, ServerClock(request) PROVE OfflineInv'
  BY <1>1, <1>2, OwedNext, RanksNext, FlaggedNext DEF OfflineInv
<1>3. ASSUME UNCHANGED <<owed, fetch_pop_r, validout_r, coreQ, answers, out, ADDR, flagged, ras>>
      PROVE  OfflineInv'
  <2>1. OwedInv'
    BY <1>3 DEF OfflineInv, OwedInv, Has, One
  <2>2. RanksInv'
    BY <1>3 DEF OfflineInv, RanksInv, OfRank, Addresses
  <2>3. FlaggedInv'
    BY <1>3 DEF OfflineInv, FlaggedInv, ras, counters
  <2> QED BY <1>1, <2>1, <2>2, <2>3 DEF OfflineInv
<1>4. Fault => UNCHANGED <<owed, fetch_pop_r, validout_r, coreQ, answers, out, ADDR, flagged, ras>>
  BY Zenon DEF Fault
<1>5. UNCHANGED everything
        => UNCHANGED <<owed, fetch_pop_r, validout_r, coreQ, answers, out, ADDR, flagged, ras>>
  BY DEF everything, server
<1>6. CASE ServerReset
  <2>1. /\ owed' = 0 /\ fetch_pop_r' = FALSE /\ validout_r' = FALSE
        /\ coreQ' = <<>> /\ answers' = <<>> /\ ADDR' = 0
        /\ flagged' = [r \in Ranks |-> 0]
    BY <1>6 DEF ServerReset
  <2>2. uncorrectable_err_cnt' = [r \in Ranks |-> 0]
    BY <1>6 DEF ServerReset, RasReset, NoCounts
  <2>3. OwedInv'
    BY <2>1, NothingThere DEF OwedInv
  <2>4. RanksInv'
    BY <2>1, ScrubAssumption DEF RanksInv, Addresses
  <2>5. FlaggedInv'
    BY <2>1, <2>2 DEF FlaggedInv
  <2> QED BY <1>1, <2>3, <2>4, <2>5 DEF OfflineInv
<1> QED BY <1>2, <1>3, <1>4, <1>5, <1>6 DEF ServerNext

LEMMA OfflineInit == ServerInit => OfflineInv
<1> SUFFICES ASSUME ServerInit PROVE OfflineInv
  OBVIOUS
<1>1. /\ owed = 0 /\ fetch_pop_r = FALSE /\ validout_r = FALSE
      /\ coreQ = <<>> /\ answers = <<>> /\ ADDR = 0
      /\ flagged = [r \in Ranks |-> 0]
      /\ uncorrectable_err_cnt = [r \in Ranks |-> 0]
  BY DEF ServerInit, RasInit, NoCounts
<1>2. OwedInv
  BY <1>1, NothingThere DEF OwedInv
<1>3. RanksInv
  BY <1>1, ScrubAssumption DEF RanksInv, Addresses
<1> QED BY <1>1, <1>2, <1>3, EccInit, RasInvInit DEF OfflineInv, FlaggedInv

(* A rank is offline exactly if it has returned more uncorrectable words     *)
(* than the threshold, charged with its own words only, although the code    *)
(* takes the rank of an error from ADDR: for every memory, burst, threshold  *)
(* and order of requests, faults and RESETs, if no burst of the host reaches *)
(* an address it uses with another rank.                                     *)
THEOREM RanksAreChargedFairly ==
  ASSUME BurstsStayInRank
  PROVE  ServerSpec => []OfflineRanksAreFaulty
<1>1. OfflineInv => OfflineRanksAreFaulty
  BY DEF OfflineInv, FlaggedInv, RasInv, FlagsMatchCounts, OfflineRanksAreFaulty
<1> QED BY <1>1, OfflineInit, OfflineNext, PTL DEF ServerSpec
=============================================================================
