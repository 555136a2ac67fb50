------------------------------- MODULE MCFifo -------------------------------
(* Model values for checking Fifo with TLC. *)
EXTENDS Fifo
CONSTANTS w0, w1, w2
MCValues == {w0, w1, w2}
=============================================================================
