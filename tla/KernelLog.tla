------------------------------ MODULE KernelLog -----------------------------
(***************************************************************************)
(* The dmesg ring of dmesg.rs under its DMESG_LOCK, filled by every        *)
(* println! of kernel_main and of the system calls and faults of user      *)
(* tasks, on one processor with timer preemption.  The lock is the FIFO    *)
(* lock TicketLock implements; here a waiter that cannot be preempted      *)
(* waits for somebody who cannot run.                                      *)
(*                                                                         *)
(*   current     the thread that has the processor (0 is kernel_main and   *)
(*               then the shell)                                           *)
(*   on[t]       the interrupt flag in t's context                         *)
(*   pc[t]       "run"; in push_byte "spin", "store" or "advance"; in dump *)
(*               "dspin" and, with the lock, "dump"                        *)
(*   dumping     thread 0 is inside dump, past its lock()                  *)
(*   queue       tickets not yet given back: <<t, 1>>, and <<0, 2>> for    *)
(*               the println! inside dump                                  *)
(*   BUF, WRITE_POS, Wrapped   the statics; a byte is its writer's number  *)
(*   recent      history: the last DMESG_BUF_SIZE bytes pushed             *)
(***************************************************************************)
EXTENDS Naturals, Sequences

CONSTANTS
  Users,              \* user tasks
  DMESG_BUF_SIZE      \* 16384

ASSUME KernelLogAssumption ==
  /\ Users \subseteq Nat \ {0}
  /\ DMESG_BUF_SIZE \in Nat \ {0}

Threads == Users \union {0}

\* What BUF holds before anything is written.
Zero == 0

VARIABLES current, on, pc, dumping, queue, BUF, WRITE_POS, Wrapped, recent

ring == <<BUF, WRITE_POS, Wrapped, recent>>
vars == <<current, on, pc, dumping, queue, ring>>

Byte(t) == t + 1

Init ==
  /\ current = 0
  /\ on = [t \in Threads |-> t # 0]
  /\ pc = [t \in Threads |-> "run"]
  /\ dumping = FALSE
  /\ queue = <<>>
  /\ BUF = [i \in 0..(DMESG_BUF_SIZE - 1) |-> Zero]
  /\ WRITE_POS = 0
  /\ Wrapped = FALSE
  /\ recent = <<>>

\* The ticket of the push_byte that t is in.
Ticket(t) == <<t, IF t = 0 /\ dumping THEN 2 ELSE 1>>

\* The lock has come to the ticket x.
Served(x) == queue # <<>> /\ Head(queue) = x

\* kernel_main's sti and cli.
sti_cli ==
  /\ current = 0
  /\ pc[0] = "run"
  /\ on' = [on EXCEPT ![0] = ~@]
  /\ UNCHANGED <<current, pc, dumping, queue, ring>>

\* The current thread prints a byte: _print, push_bytes, push_byte as far as
\* its ticket.  A user task prints from a system call or a fault, which the
\* interrupt gate enters with interrupts off.
print ==
  /\ pc[current] = "run"
  /\ pc' = [pc EXCEPT ![current] = "spin"]
  /\ on' = [on EXCEPT ![current] = current = 0 /\ @]
  /\ queue' = Append(queue, Ticket(current))
  /\ UNCHANGED <<current, dumping, ring>>

\* Mutant of push_byte_locked: the guard does not wait for its turn.
push_byte_locked_barging ==
  /\ pc[current] = "spin"
  /\ pc' = [pc EXCEPT ![current] = "store"]
  /\ UNCHANGED <<current, on, dumping, queue, ring>>

\* DMESG_LOCK serves push_byte's ticket.
push_byte_locked ==
  /\ pc[current] = "spin"
  /\ Served(Ticket(current))
  /\ pc' = [pc EXCEPT ![current] = "store"]
  /\ UNCHANGED <<current, on, dumping, queue, ring>>

\* BUF[WRITE_POS] = b.
push_byte_store ==
  /\ pc[current] = "store"
  /\ BUF' = [BUF EXCEPT ![WRITE_POS] = Byte(current)]
  /\ pc' = [pc EXCEPT ![current] = "advance"]
  /\ UNCHANGED <<current, on, dumping, queue, WRITE_POS, Wrapped, recent>>

\* The new WRITE_POS (lines 24-25).
wrap(pos) == IF pos >= DMESG_BUF_SIZE THEN 0 ELSE pos

\* Mutant of push_byte_advance: push_bytes does not get past its first byte.
push_byte_advance_repeats ==
  /\ pc[current] = "advance"
  /\ WRITE_POS' = (WRITE_POS + 1) % DMESG_BUF_SIZE
  /\ recent' = Append(IF Len(recent) = DMESG_BUF_SIZE THEN Tail(recent) ELSE recent,
                      Byte(current))
  /\ pc' = [pc EXCEPT ![current] = "spin"]
  /\ queue' = Append(Tail(queue), Ticket(current))
  /\ UNCHANGED <<current, on, dumping, BUF, Wrapped>>

\* The rest of push_byte: the guard is dropped and println! returns; if it was
\* dump's, the rest of dump follows and its guard is dropped too.
push_byte_advance ==
  /\ pc[current] = "advance"
  /\ WRITE_POS' = wrap(WRITE_POS + 1)
  /\ Wrapped' = (Wrapped \/ WRITE_POS + 1 >= DMESG_BUF_SIZE)
  /\ recent' = Append(IF Len(recent) = DMESG_BUF_SIZE THEN Tail(recent) ELSE recent,
                      Byte(current))
  /\ pc' = [pc EXCEPT ![current] = "run"]
  /\ on' = [on EXCEPT ![current] = current # 0 \/ @]
  /\ queue' = IF current = 0 /\ dumping THEN Tail(Tail(queue)) ELSE Tail(queue)
  /\ dumping' = (dumping /\ current # 0)
  /\ UNCHANGED <<current, BUF>>

\* The shell's dmesg command: dump asks for the lock ...
dump ==
  /\ current = 0 /\ pc[0] = "run"
  /\ pc' = [pc EXCEPT ![0] = "dspin"]
  /\ queue' = Append(queue, Ticket(0))
  /\ UNCHANGED <<current, on, dumping, ring>>

\* ... gets it ...
dump_locked ==
  /\ current = 0 /\ pc[0] = "dspin"
  /\ Served(Ticket(0))
  /\ pc' = [pc EXCEPT ![0] = "dump"]
  /\ dumping' = TRUE
  /\ UNCHANGED <<current, on, queue, ring>>

\* ... and prints its first line, whose push_byte asks for the lock too.
dump_println ==
  /\ current = 0 /\ pc[0] = "dump"
  /\ pc' = [pc EXCEPT ![0] = "spin"]
  /\ queue' = Append(queue, Ticket(0))
  /\ UNCHANGED <<current, on, dumping, ring>>

\* The timer interrupts the current thread and switches to t.
timer_switch(t) ==
  /\ on[current]
  /\ t # current
  /\ current' = t
  /\ UNCHANGED <<on, pc, dumping, queue, ring>>

Step ==
  \/ push_byte_locked \/ push_byte_store \/ push_byte_advance
  \/ dump_locked \/ dump_println

Next ==
  \/ sti_cli \/ print \/ dump
  \/ Step
  \/ \E t \in Threads : timer_switch(t)

(***************************************************************************)
(* A thread inside push_byte or dump keeps executing while it has the      *)
(* processor, and the scheduler comes back to every thread as long as      *)
(* timer interrupts are taken.                                             *)
(***************************************************************************)
Spec ==
  /\ Init /\ [][Next]_vars
  /\ \A t \in Threads : SF_vars(current = t /\ Step)
  /\ \A t \in Threads : SF_vars(timer_switch(t))

-----------------------------------------------------------------------------
\* The bytes dump would print, oldest first (dmesg.rs, lines 46-55).
Dumped ==
  LET total == IF Wrapped THEN DMESG_BUF_SIZE ELSE WRITE_POS
      start == IF Wrapped THEN WRITE_POS ELSE 0
  IN  [i \in 1..total |-> BUF[(start + i - 1) % DMESG_BUF_SIZE]]

\* Between two pushes the ring holds "the most recent DMESG_BUF_SIZE bytes of
\* output" (dmesg.rs:41), in order, however the prints of threads interleave.
DumpIsRecent ==
  (\A t \in Threads : pc[t] # "advance") => Dumped = recent

\* The current thread waits with interrupts off for a lock that somebody else was
\* promised first, or thread 0 waits in dump's println! for dump's own guard.
Stuck ==
  \/ pc[current] \in {"spin", "dspin"} /\ ~on[current] /\ Head(queue)[1] # current
  \/ pc[0] = "spin" /\ dumping

\* Every println! and dmesg gets DMESG_LOCK and returns ("preventing starvation",
\* spinlock.rs:7), except in those two situations.
ReturnsUnlessStuck ==
  \A t \in Threads : pc[t] \in {"spin", "dspin"} ~> (pc[t] = "run" \/ Stuck)
=============================================================================
