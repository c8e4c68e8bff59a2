---------------------------- MODULE MCTicketLock ----------------------------
(* TicketLock on small instances: three processors and few ticket values.  *)
EXTENDS TicketLock
=============================================================================
