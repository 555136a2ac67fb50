------------------------------- MODULE Secded -------------------------------
(***************************************************************************)
(* ecc_secded.v as functions on sets of bits.  A word of 64 bits is the    *)
(* set of positions that are 1, a code of 8 bits likewise; the XOR of all  *)
(* bits of a set is the parity of its cardinality.                         *)
(***************************************************************************)
EXTENDS Naturals, FiniteSets, FiniteSetsExt

DataBits == 0..63
ParityBits == 0..6
OverallBit == 7

Flip(S, T) == (S \ T) \cup (T \ S)

Odd(S) == Cardinality(S) % 2 = 1

\* The masks of the parity trees: bit k of the position, and for the last one
\* the whole word.
Covered == [k \in ParityBits |->
              IF k = 6 THEN DataBits ELSE {i \in DataBits : (i \div 2^k) % 2 = 1}]

Parity(d) == {k \in ParityBits : Odd(d \cap Covered[k])}

ecc_out(d) == Parity(d) \cup (IF Odd(d) # Odd(Parity(d)) THEN {OverallBit} ELSE {})

syndrome_bits(d, e) == Flip(Parity(d), e \cap ParityBits)

\* Word, parity bits and overall bit together.
syndrome_parity(d, e) == (Odd(d) # Odd(e \cap ParityBits)) # (OverallBit \in e)

error_position(d, e) == MapThenSumSet(LAMBDA k : 2^k, syndrome_bits(d, e))

NoError(d, e) == syndrome_bits(d, e) = {} /\ ~syndrome_parity(d, e)

single_err(d, e) ==
  /\ error_position(d, e) \in 1..64
  /\ syndrome_parity(d, e)

double_err(d, e) == ~NoError(d, e) /\ ~single_err(d, e)

\* The bit in front of the position the syndrome spells.
data_corrected(d, e) ==
  IF single_err(d, e) THEN Flip(d, {error_position(d, e) - 1}) ELSE d

-----------------------------------------------------------------------------
\* A zero, a word of few bits and a dense one.
SampleWords == {{}, {0, 5, 17, 63}, {i \in DataBits : i % 3 # 0}}

DataFlips == {{i, j} : i, j \in DataBits}

(* No flip of one or two data bits passes unnoticed, two are reported as     *)
(* uncorrectable and leave the word as it was read, and an intact word       *)
(* raises nothing: what the syndrome, the position and the overall parity    *)
(* promise together.                                                         *)
FlipsAreReported ==
  \A d \in SampleWords :
    /\ NoError(d, ecc_out(d))
    /\ \A F \in DataFlips :
         LET r == Flip(d, F)  e == ecc_out(d)
         IN  IF Cardinality(F) = 2
               THEN double_err(r, e) /\ data_corrected(r, e) = r
               ELSE single_err(r, e) \/ double_err(r, e)
=============================================================================
