----------------------------- MODULE TicketLock -----------------------------
(***************************************************************************)
(* The ticket spinlock of spinlock.rs, one step per atomic access, so that *)
(* lock(), try_lock() and the guard's drop() of several processors         *)
(* interleave as they do on the real machine.                              *)
(*                                                                         *)
(*   ticket, next   the two AtomicU32 counters (lines 12-16);              *)
(*   my[p]          p's local `ticket` (lock) or `current` (try_lock);     *)
(*   pc[p]          where p is:                                            *)
(*                    "idle"        outside the lock's code                *)
(*                    "lockSpin"    in the loop of lock(), line 36         *)
(*                    "tryTicket"   try_lock has loaded `ticket`, line 43  *)
(*                    "tryNext"     ... and found next equal, line 45      *)
(*                    "trySpin"     in the loop of try_lock, line 52       *)
(*                    "held"        owns a SpinLockGuard                   *)
(*   queue          history only: the processors whose fetch_add or        *)
(*                  compare_exchange took a ticket not yet given back, in  *)
(*                  the order in which they took it.                       *)
(*                                                                         *)
(* The counters are 32 bits wide and wrap; TicketMod is 2^32 in the code   *)
(* and small in the models, so that wrap-around happens.                   *)
(***************************************************************************)
EXTENDS Naturals, Sequences, FiniteSets

CONSTANTS
  Procs,        \* the processors that use the lock
  TicketMod     \* the number of ticket values

\* At most TicketMod processors contend: 2^32 is far above any core count.
ASSUME ProcsAssumption == IsFiniteSet(Procs) /\ Procs # {}
ASSUME TicketAssumption ==
  TicketMod \in Nat \ {0} /\ Cardinality(Procs) <= TicketMod

VARIABLES ticket, next, my, pc, queue

vars == <<ticket, next, my, pc, queue>>

Tickets == 0..(TicketMod - 1)

PCs == {"idle", "lockSpin", "tryTicket", "tryNext", "trySpin", "held"}

\* fetch_add(1) on an AtomicU32, and current + 1 in the release build.
Inc(x) == (x + 1) % TicketMod

new ==
  /\ ticket = 0
  /\ next = 0
  /\ my = [p \in Procs |-> 0]
  /\ pc = [p \in Procs |-> "idle"]
  /\ queue = <<>>

\* lock(), line 35: take the next ticket.
lock(p) ==
  /\ pc[p] = "idle"
  /\ my' = [my EXCEPT ![p] = ticket]
  /\ ticket' = Inc(ticket)
  /\ pc' = [pc EXCEPT ![p] = "lockSpin"]
  /\ queue' = Append(queue, p)
  /\ UNCHANGED next

\* Mutant of spin: `next >= ticket` for `next == ticket`.
spin_ge(p) ==
  /\ pc[p] \in {"lockSpin", "trySpin"}
  /\ next >= my[p]
  /\ pc' = [pc EXCEPT ![p] = "held"]
  /\ UNCHANGED <<ticket, next, my, queue>>

\* Mutant of spin: whoever first sees the lock free gets it.
spin_barging(p) ==
  /\ pc[p] \in {"lockSpin", "trySpin"}
  /\ \A q \in Procs : pc[q] # "held"
  /\ pc' = [pc EXCEPT ![p] = "held"]
  /\ UNCHANGED <<ticket, next, my, queue>>

\* lock() lines 36-39 and try_lock() lines 52-55: the spin loop ends when the
\* lock serves p's ticket.
spin(p) ==
  /\ pc[p] \in {"lockSpin", "trySpin"}
  /\ next = my[p]
  /\ pc' = [pc EXCEPT ![p] = "held"]
  /\ UNCHANGED <<ticket, next, my, queue>>

\* try_lock(), line 43.
try_lock_load_ticket(p) ==
  /\ pc[p] = "idle"
  /\ my' = [my EXCEPT ![p] = ticket]
  /\ pc' = [pc EXCEPT ![p] = "tryTicket"]
  /\ UNCHANGED <<ticket, next, queue>>

\* try_lock(), lines 44-45 and 58: None unless the lock looks free.
try_lock_load_next(p) ==
  /\ pc[p] = "tryTicket"
  /\ pc' = [pc EXCEPT ![p] = IF next = my[p] THEN "tryNext" ELSE "idle"]
  /\ UNCHANGED <<ticket, next, my, queue>>

\* Mutant of try_lock_cas_ok: a plain store for the compare_exchange.
try_lock_cas_ok_store(p) ==
  /\ pc[p] = "tryNext"
  /\ ticket' = Inc(my[p])
  /\ pc' = [pc EXCEPT ![p] = "trySpin"]
  /\ queue' = Append(queue, p)
  /\ UNCHANGED <<next, my>>

\* try_lock(), lines 46-51: the compare_exchange succeeds and takes the
\* ticket that was loaded ...
try_lock_cas_ok(p) ==
  /\ pc[p] = "tryNext"
  /\ ticket = my[p]
  /\ ticket' = Inc(ticket)
  /\ pc' = [pc EXCEPT ![p] = "trySpin"]
  /\ queue' = Append(queue, p)
  /\ UNCHANGED <<next, my>>

\* ... or fails, and try_lock returns None (line 58).
try_lock_cas_fail(p) ==
  /\ pc[p] = "tryNext"
  /\ ticket # my[p]
  /\ pc' = [pc EXCEPT ![p] = "idle"]
  /\ UNCHANGED <<ticket, next, my, queue>>

\* Drop for SpinLockGuard, lines 75-79.
drop(p) ==
  /\ pc[p] = "held"
  /\ next' = Inc(next)
  /\ pc' = [pc EXCEPT ![p] = "idle"]
  /\ queue' = Tail(queue)
  /\ UNCHANGED <<ticket, my>>

Next ==
  \E p \in Procs :
    \/ lock(p)
    \/ spin(p)
    \/ try_lock_load_ticket(p)
    \/ try_lock_load_next(p)
    \/ try_lock_cas_ok(p)
    \/ try_lock_cas_fail(p)
    \/ drop(p)

Safety == new /\ [][Next]_vars

(***************************************************************************)
(* A processor inside lock()/try_lock() keeps executing, and critical      *)
(* sections end.  Nothing forces a processor to ask for the lock.          *)
(***************************************************************************)
Fairness ==
  \A p \in Procs :
    /\ WF_vars(spin(p))
    /\ WF_vars(try_lock_load_next(p))
    /\ WF_vars(try_lock_cas_ok(p))
    /\ WF_vars(try_lock_cas_fail(p))
    /\ WF_vars(drop(p))

Spec == Safety /\ Fairness

-----------------------------------------------------------------------------
TypeOK ==
  /\ ticket \in Tickets
  /\ next \in Tickets
  /\ my \in [Procs -> Tickets]
  /\ pc \in [Procs -> PCs]
  /\ queue \in Seq(Procs)

Holders == {p \in Procs : pc[p] = "held"}

Spinning == {p \in Procs : pc[p] \in {"lockSpin", "trySpin"}}

\* The SpinLockGuard is exclusive: two processors never have one at a time
\* (the reason DerefMut may hand out &mut T, lines 69-73).
MutualExclusion ==
  \A p, q \in Holders : p = q

\* Whoever spins in lock() gets the lock: "threads acquire in the order they
\* request the lock, preventing starvation" (lines 5-7), wrap-around included.
LockObtained ==
  \A p \in Procs : pc[p] = "lockSpin" ~> pc[p] = "held"

\* Ticket x advanced k times (k at most TicketMod).
Off(x, k) == IF x + k < TicketMod THEN x + k ELSE x + k - TicketMod

\* The processors that own a ticket hold consecutive ones, from the ticket being
\* served (next) up to the one to be handed out (ticket), in the order in which
\* they took them; a processor has the guard only while its ticket is served.
\* This is why `next` is allowed to be a plain counter that drop() increments.
TicketOrder ==
  /\ \A i, j \in 1..Len(queue) : i # j => queue[i] # queue[j]
  /\ \A i \in 1..Len(queue) :
       /\ queue[i] \in Spinning \union Holders
       /\ my[queue[i]] = Off(next, i - 1)
  /\ \A p \in Spinning \union Holders : \E i \in 1..Len(queue) : queue[i] = p
  /\ ticket = Off(next, Len(queue))
  /\ \A p \in Holders : my[p] = next

\* What the lock promises, with this module's state in its place.
Fifo == INSTANCE FifoLock WITH holders <- Holders

\* Every behaviour of the ticket lock is one of the FIFO lock.
FifoSpec == Fifo!Spec
=============================================================================
