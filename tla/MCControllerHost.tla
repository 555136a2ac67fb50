-------------------------- MODULE MCControllerHost --------------------------
\* Small FIFOs and a few commands; the depths and policies are in the cfg files.
EXTENDS ControllerHost
ReadsAndBlocks == {<<"SCR", 0>>, <<"BLW", 1>>}
WritesOnly == {<<"BLW", 0>>}
=============================================================================
