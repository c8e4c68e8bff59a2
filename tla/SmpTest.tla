------------------------------ MODULE SmpTest -------------------------------
(***************************************************************************)
(* The spinlock contention test of smp_test.rs, which the boot processor   *)
(* runs on its way to the heap and the shell (main.rs:231-239), and        *)
(* wake_aps / ap_entry of smp.rs that bring the other processors to it.    *)
(* Both spinlocks are used through what TicketLock is shown to implement:  *)
(* the FIFO lock.                                                          *)
(*                                                                         *)
(*   arrive    the APs that the trampoline takes to ap_entry; none for the *)
(*             trampoline of smp.rs:142-152, whose code is CLI; HLT         *)
(*   next      the AP wake_aps comes to next                               *)
(*   pc[c]     where core c is                                             *)
(*   i[c]      iterations of contention_worker's loop c has left           *)
(*   tmp[c]    the counter value c has loaded and not yet stored           *)
(*   counter, done         the values SHARED_COUNTER and CORES_DONE guard  *)
(*   cq, ch, dq, dh        queue and holder of their locks                 *)
(*   verdict   what report_result printed                                  *)
(***************************************************************************)
EXTENDS Naturals, Sequences, FiniteSets

CONSTANTS
  CpuCount,    \* processors in the MADT; core 0 is the BSP
  NoStack,     \* APs for whose stack allocate_frame finds no frame
  NUM_CORES,   \* 4
  ITERATIONS   \* 1,000,000

ASSUME SmpTestAssumption ==
  /\ CpuCount \in Nat \ {0}
  /\ NoStack \subseteq 1..(CpuCount - 1)
  /\ NUM_CORES \in Nat /\ ITERATIONS \in Nat \ {0}

Cores == 0..(CpuCount - 1)

VARIABLES arrive, next, pc, i, tmp, counter, done, cq, ch, dq, dh, verdict

clock == <<cq, ch>>
dlock == <<dq, dh>>
vars == <<arrive, next, pc, i, tmp, counter, done, clock, dlock, verdict>>

CounterLock == INSTANCE FifoLock WITH Procs <- Cores, queue <- cq, holders <- ch
DoneLock == INSTANCE FifoLock WITH Procs <- Cores, queue <- dq, holders <- dh

Init ==
  /\ arrive \in SUBSET (1..(CpuCount - 1) \ NoStack)
  /\ next = 1
  /\ pc = [c \in Cores |-> IF c = 0 THEN "wake" ELSE "off"]
  /\ i = [c \in Cores |-> ITERATIONS]
  /\ tmp = [c \in Cores |-> 0]
  /\ counter = 0 /\ done = 0
  /\ CounterLock!Init /\ DoneLock!Init
  /\ verdict = "none"

Goto(c, from, to) ==
  /\ pc[c] = from
  /\ pc' = [pc EXCEPT ![c] = to]

\* wake_aps: INIT-SIPI-SIPI to the next AP, which starts in the trampoline; an
\* AP that gets no stack is left alone.
wake_ap ==
  /\ next < CpuCount
  /\ pc[0] = "wake"
  /\ pc' = IF next \in NoStack THEN pc ELSE [pc EXCEPT ![next] = "trampoline"]
  /\ next' = next + 1
  /\ UNCHANGED <<arrive, i, tmp, counter, done, clock, dlock, verdict>>

\* wake_aps returns and kernel_main calls contention_worker(0).
wake_done ==
  /\ next = CpuCount
  /\ Goto(0, "wake", "loop")
  /\ UNCHANGED <<arrive, next, i, tmp, counter, done, clock, dlock, verdict>>

\* The trampoline blob: to ap_entry and contention_worker, or CLI; HLT.
trampoline(c) ==
  /\ Goto(c, "trampoline", IF c \in arrive THEN "loop" ELSE "halt")
  /\ UNCHANGED <<arrive, next, i, tmp, counter, done, clock, dlock, verdict>>

\* SHARED_COUNTER.lock(): in the loop of contention_worker ...
worker_lock(c) ==
  /\ i[c] > 0
  /\ Goto(c, "loop", "wait")
  /\ CounterLock!Request(c)
  /\ UNCHANGED <<arrive, next, i, tmp, counter, done, dlock, verdict>>

\* Mutant of worker_load: the counter is read without the lock.
worker_load_unlocked(c) ==
  /\ Goto(c, "wait", "store")
  /\ tmp' = [tmp EXCEPT ![c] = counter]
  /\ CounterLock!Grant \/ UNCHANGED clock
  /\ UNCHANGED <<arrive, next, i, counter, done, dlock, verdict>>

\* ... it is granted and *guard is loaded ...
worker_load(c) ==
  /\ Goto(c, "wait", "store")
  /\ CounterLock!Grant /\ c \in ch'
  /\ tmp' = [tmp EXCEPT ![c] = counter]
  /\ UNCHANGED <<arrive, next, i, counter, done, dlock, verdict>>

\* ... stored, and the guard dropped.
worker_store(c) ==
  /\ Goto(c, "store", "loop")
  /\ counter' = tmp[c] + 1
  /\ i' = [i EXCEPT ![c] = @ - 1]
  /\ CounterLock!Release
  /\ UNCHANGED <<arrive, next, tmp, done, dlock, verdict>>

\* After the loop: CORES_DONE.lock() ...
worker_done_lock(c) ==
  /\ i[c] = 0
  /\ Goto(c, "loop", "done_wait")
  /\ DoneLock!Request(c)
  /\ UNCHANGED <<arrive, next, i, tmp, counter, done, clock, verdict>>

worker_done_granted(c) ==
  /\ Goto(c, "done_wait", "done_inc")
  /\ DoneLock!Grant /\ c \in dh'
  /\ UNCHANGED <<arrive, next, i, tmp, counter, done, clock, dq, verdict>>

\* ... *done += 1, and the guard dropped.  An AP then halts for ever; the BSP
\* goes on to report_result.
worker_done(c) ==
  /\ Goto(c, "done_inc", IF c = 0 THEN "report" ELSE "idle")
  /\ done' = done + 1
  /\ DoneLock!Release
  /\ UNCHANGED <<arrive, next, i, tmp, counter, clock, verdict>>

\* report_result's loop: CORES_DONE.lock() ...
report_lock ==
  /\ Goto(0, "report", "report_wait")
  /\ DoneLock!Request(0)
  /\ UNCHANGED <<arrive, next, i, tmp, counter, done, clock, verdict>>

report_granted ==
  /\ Goto(0, "report_wait", "report_check")
  /\ DoneLock!Grant /\ 0 \in dh'
  /\ UNCHANGED <<arrive, next, i, tmp, counter, done, clock, dq, verdict>>

\* Mutant of report_check: one core too few is enough.
report_check_early ==
  /\ Goto(0, "report_check", IF done + 1 >= NUM_CORES THEN "final" ELSE "report")
  /\ DoneLock!Release
  /\ UNCHANGED <<arrive, next, i, tmp, counter, done, clock, verdict>>

\* ... leave the loop or try again; either way the guard is dropped.
report_check ==
  /\ Goto(0, "report_check", IF done >= NUM_CORES THEN "final" ELSE "report")
  /\ DoneLock!Release
  /\ UNCHANGED <<arrive, next, i, tmp, counter, done, clock, verdict>>

final_lock ==
  /\ Goto(0, "final", "final_wait")
  /\ CounterLock!Request(0)
  /\ UNCHANGED <<arrive, next, i, tmp, counter, done, dlock, verdict>>

final_granted ==
  /\ Goto(0, "final_wait", "final_read")
  /\ CounterLock!Grant /\ 0 \in ch'
  /\ UNCHANGED <<arrive, next, i, tmp, counter, done, cq, dlock, verdict>>

\* final_value is compared with NUM_CORES * ITERATIONS and boot goes on.
final_report ==
  /\ Goto(0, "final_read", "boot")
  /\ CounterLock!Release
  /\ verdict' = IF counter = NUM_CORES * ITERATIONS THEN "PASS" ELSE "FAIL"
  /\ UNCHANGED <<arrive, next, i, tmp, counter, done, dlock>>

Core(c) ==
  \/ trampoline(c)
  \/ worker_lock(c) \/ worker_load(c) \/ worker_store(c)
  \/ worker_done_lock(c) \/ worker_done_granted(c) \/ worker_done(c)

Bsp ==
  \/ wake_ap \/ wake_done
  \/ report_lock \/ report_granted \/ report_check
  \/ final_lock \/ final_granted \/ final_report

Next == Bsp \/ \E c \in Cores : Core(c)

\* Every processor keeps executing.
Spec ==
  /\ Init /\ [][Next]_vars
  /\ WF_vars(Bsp)
  /\ \A c \in Cores : WF_vars(Core(c))

-----------------------------------------------------------------------------
\* What the loops of all cores still owe, with what the counter has, is always
\* all of it: no increment is lost between a load and its store.
NoLostIncrement ==
  LET Made[n \in 0..CpuCount] ==
        IF n = 0 THEN 0 ELSE Made[n - 1] + (ITERATIONS - i[n - 1])
  IN  counter = Made[CpuCount]

Running == Cardinality(arrive) + 1

\* "Reads the final value and reports PASS/FAIL" and "If the lock is correct, the final value
\* is exactly N * 1,000,000" (smp_test.rs): with exactly NUM_CORES processors report_result
\* says PASS and the boot goes on, with more it says something, and with fewer, as when the
\* trampoline halts the APs, it waits for ever.
ReportedIfAllArrive ==
  /\ Running = NUM_CORES => <>(verdict = "PASS")
  /\ Running > NUM_CORES => <>(verdict # "none")
  /\ Running < NUM_CORES => [](verdict = "none")
=============================================================================
