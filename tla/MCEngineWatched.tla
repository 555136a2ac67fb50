--------------------------- MODULE MCEngineWatched --------------------------
\* One bank, one rank, every command; sizes, timers and refresh period are
\* scaled in the cfg files.
EXTENDS EngineWatched
=============================================================================
