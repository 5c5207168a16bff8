---------------------------- MODULE MCRingBuffer ----------------------------
(* RingBuffer for TLC: the threads and updates are model values, the ring  *)
(* is small enough to wrap and to fill within a few pushes.                *)
EXTENDS RingBuffer
=============================================================================
