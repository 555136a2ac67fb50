------------------------------ MODULE MCServer ------------------------------
\* Four addresses in two ranks, bursts of two words, two words two bits apart;
\* bit 0 alone reads as correctable, bits 0 and 1 do not.
EXTENDS ServerController
AddressRanks == [a \in 0..3 |-> a \div 2]
TwoWords == {{}, {5, 17}}
SomeFlips == {{0}, {0, 1}}

\* The code over all single and double flips of the 64 bits.
ASSUME DecoderReportsFlips == FlipsAreReported

\* What the theorem about offline ranks supposes of the host.
ASSUME HostReadsOneRank == BurstsStayInRank
=============================================================================
