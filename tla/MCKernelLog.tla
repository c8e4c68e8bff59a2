----------------------------- MODULE MCKernelLog ----------------------------
(* KernelLog with kernel_main, two user tasks and a ring of three bytes.    *)
EXTENDS KernelLog
=============================================================================
