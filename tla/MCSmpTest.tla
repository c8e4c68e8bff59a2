------------------------------ MODULE MCSmpTest -----------------------------
(* SmpTest with any number of cores up to one more than NUM_CORES and two   *)
(* iterations.                                                              *)
EXTENDS SmpTest
=============================================================================
