-------------------------- MODULE MCEngineRefresh ---------------------------
\* One bank and one rank; the refresh period is scaled to a little more than the
\* longest command, which keeps its real length.
EXTENDS EngineRefresh

ASSUME SettingsFitHere == SettingsFit
=============================================================================
