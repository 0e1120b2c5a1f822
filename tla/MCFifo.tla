------------------------------- MODULE MCFifo -------------------------------
(* Three slots, so that the indices wrap at different times.               *)
EXTENDS Fifo
=============================================================================
