------------------------------ MODULE FifoLock ------------------------------
(***************************************************************************)
(* What spinlock.rs promises its callers (its module comment, lines 5-7):  *)
(* one holder at a time, and the lock is handed over in the order in which *)
(* it was requested.                                                       *)
(*                                                                         *)
(*   queue     the processors that asked for the lock and have not yet     *)
(*             given it back, in the order in which they asked;            *)
(*   holders   the processors that are inside the critical section.        *)
(***************************************************************************)
EXTENDS Naturals, Sequences

CONSTANT Procs

VARIABLES queue, holders

vars == <<queue, holders>>

Init ==
  /\ queue = <<>>
  /\ holders = {}

\* p asks for the lock: it goes behind everybody that asked before it.
Request(p) ==
  /\ \A i \in 1..Len(queue) : queue[i] # p
  /\ queue' = Append(queue, p)
  /\ UNCHANGED holders

\* The lock is free: whoever has waited longest gets it.
Grant ==
  /\ queue # <<>>
  /\ holders = {}
  /\ holders' = {Head(queue)}
  /\ UNCHANGED queue

\* The holder gives the lock back.
Release ==
  /\ queue # <<>>
  /\ holders = {Head(queue)}
  /\ holders' = {}
  /\ queue' = Tail(queue)

Next == (\E p \in Procs : Request(p)) \/ Grant \/ Release

Safety == Init /\ [][Next]_vars

Spec == Safety /\ WF_vars(Grant) /\ WF_vars(Release)
=============================================================================
