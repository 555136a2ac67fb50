---------------------------- MODULE RasRegisters ----------------------------
(***************************************************************************)
(* ddr2_ras_registers.v: error counters per rank, sticky status, offline   *)
(* ranks.  scrub_count, the diagnostic syndrome and the read multiplexer   *)
(* are left out.                                                           *)
(***************************************************************************)
EXTENDS Naturals, FiniteSets

CONSTANTS
  Ranks,                  \* NUM_RANKS of them
  corr_err_threshold,     \* 1000 in the code
  uncorr_err_threshold    \* 1

ASSUME RasAssumption == corr_err_threshold \in Nat /\ uncorr_err_threshold \in Nat

VARIABLES
  correctable_err_cnt, uncorrectable_err_cnt,
  total_corr_errors, total_uncorr_errors,
  last_err_addr, last_err_rank, last_err_type,
  irq_corr, irq_uncorr, rank_degraded, fatal_error,
  rank_offline            \* the ranks whose bit is set

counters == <<correctable_err_cnt, uncorrectable_err_cnt,
              total_corr_errors, total_uncorr_errors>>
status == <<last_err_addr, last_err_rank, last_err_type,
            irq_corr, irq_uncorr, rank_degraded, fatal_error, rank_offline>>
ras == <<counters, status>>

NoCounts == [r \in Ranks |-> 0]

RasInit ==
  /\ correctable_err_cnt = NoCounts /\ uncorrectable_err_cnt = NoCounts
  /\ total_corr_errors = 0 /\ total_uncorr_errors = 0
  /\ last_err_addr = 0 /\ last_err_rank = 0 /\ last_err_type = "single"
  /\ irq_corr = FALSE /\ irq_uncorr = FALSE
  /\ rank_degraded = FALSE /\ fatal_error = FALSE
  /\ rank_offline = {}

RasReset ==
  /\ correctable_err_cnt' = NoCounts /\ uncorrectable_err_cnt' = NoCounts
  /\ total_corr_errors' = 0 /\ total_uncorr_errors' = 0
  /\ last_err_addr' = 0 /\ last_err_rank' = 0 /\ last_err_type' = "single"
  /\ irq_corr' = FALSE /\ irq_uncorr' = FALSE
  /\ rank_degraded' = FALSE /\ fatal_error' = FALSE
  /\ rank_offline' = {}

LogError(type, at, rank) ==
  last_err_addr' = at /\ last_err_rank' = rank /\ last_err_type' = type

\* Thresholds are compared with the count before this error.
CorrectableError(at, rank) ==
  LET reached == correctable_err_cnt[rank] >= corr_err_threshold
  IN  /\ correctable_err_cnt' = [correctable_err_cnt EXCEPT ![rank] = @ + 1]
      /\ total_corr_errors' = total_corr_errors + 1
      /\ LogError("single", at, rank)
      /\ irq_corr' = (irq_corr \/ reached)
      /\ rank_degraded' = (rank_degraded \/ reached)
      /\ UNCHANGED <<uncorrectable_err_cnt, total_uncorr_errors,
                     irq_uncorr, fatal_error, rank_offline>>

\* Takes the rank offline at the first error already.
FaultyUncorrectableError(at, rank) ==
  /\ uncorrectable_err_cnt' = [uncorrectable_err_cnt EXCEPT ![rank] = @ + 1]
  /\ total_uncorr_errors' = total_uncorr_errors + 1
  /\ LogError("double", at, rank)
  /\ irq_uncorr' = TRUE /\ fatal_error' = TRUE
  /\ rank_degraded' = TRUE
  /\ rank_offline' = rank_offline \cup {rank}
  /\ UNCHANGED <<correctable_err_cnt, total_corr_errors, irq_corr>>

UncorrectableError(at, rank) ==
  LET reached == uncorrectable_err_cnt[rank] >= uncorr_err_threshold
  IN  /\ uncorrectable_err_cnt' = [uncorrectable_err_cnt EXCEPT ![rank] = @ + 1]
      /\ total_uncorr_errors' = total_uncorr_errors + 1
      /\ LogError("double", at, rank)
      /\ irq_uncorr' = TRUE /\ fatal_error' = TRUE
      /\ rank_degraded' = (rank_degraded \/ reached)
      /\ rank_offline' = (IF reached THEN rank_offline \cup {rank} ELSE rank_offline)
      /\ UNCHANGED <<correctable_err_cnt, total_corr_errors, irq_corr>>

\* The decoder raises at most one of the two.
RasClock(single, double, at, rank) ==
  \/ single /\ CorrectableError(at, rank)
  \/ double /\ UncorrectableError(at, rank)
  \/ ~single /\ ~double /\ UNCHANGED ras

-----------------------------------------------------------------------------
\* The errors of a counter, numbered within their rank.
ErrorsOf(f) == UNION {{r} \X (1..f[r]) : r \in Ranks}
TotalOf(f) == Cardinality(ErrorsOf(f))

FlagsMatchCounts ==
  /\ rank_offline = {r \in Ranks : uncorrectable_err_cnt[r] > uncorr_err_threshold}
  /\ irq_corr <=> \E r \in Ranks : correctable_err_cnt[r] > corr_err_threshold
  /\ rank_degraded <=> irq_corr \/ rank_offline # {}
  /\ irq_uncorr <=> total_uncorr_errors > 0
  /\ fatal_error <=> irq_uncorr

(* The status bits and the offline map are functions of the counters: they   *)
(* never miss an error and are never set without one, over any order of      *)
(* errors and ranks.                                                         *)
StatusMatchesCounters ==
  /\ total_corr_errors = TotalOf(correctable_err_cnt)
  /\ total_uncorr_errors = TotalOf(uncorrectable_err_cnt)
  /\ FlagsMatchCounts
=============================================================================
