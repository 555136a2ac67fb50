--------------------------- MODULE MCEngineOnDram ---------------------------
\* Two banks; one rank, or two where a property compares ranks.
EXTENDS EngineOnDram
=============================================================================
