----------------------------- MODULE Scheduler ------------------------------
(***************************************************************************)
(* The preemptive round-robin scheduler of task.rs with the timer of       *)
(* timer.rs, on one processor.  System calls, faults and the timer handler *)
(* enter through interrupt gates and run with interrupts off, so each is   *)
(* one step; the places where the kernel itself re-enables interrupts and  *)
(* waits (sleep_until, syscall_yield, the end of exit_current_task) are    *)
(* separate steps, between which timer ticks arrive.                       *)
(*                                                                         *)
(*   CURRENT_TASK, state[t], page_table_root[t]   the fields of TASKS      *)
(*   cr3, rsp0      the loaded page table and the task whose kernel stack  *)
(*                  TSS.RSP0 points at                                     *)
(*   pc[t]          what t's saved context will do when it runs:           *)
(*                    "run"    its own code (user code; kernel_main for 0) *)
(*                    "sleep"  the hlt loop of sleep_until                 *)
(*                    "yield"  the hlt loop of syscall_yield               *)
(*                    "dead"   the hlt loop that ends exit_current_task    *)
(*                    "none"   the slot has never been used                *)
(*   phase          TICKS % 10                                             *)
(*   asked[t]       the milliseconds of t's Sleep call                     *)
(*   slept[t]       ticks since that call, up to ms_to_ticks(asked[t]):    *)
(*                  TICKS >= wake_tick is slept[t] = ms_to_ticks(asked[t]) *)
(*   live           page-table roots in use (built and not yet freed)      *)
(*   waited[t]      history only: the switches that passed over t since it *)
(*                  became Ready                                           *)
(***************************************************************************)
EXTENDS Naturals, FiniteSets

CONSTANTS
  MAX_TASKS,      \* slots of the task table (256)
  SWITCH_TICKS,   \* a context switch every so many ticks (10)
  MS_PER_TICK,    \* milliseconds per tick (10)
  SleepMs,        \* arguments of the Sleep calls
  Roots,          \* physical addresses a user's page-table root can have
  KernelRoot      \* the kernel's own page table (KERNEL_PML4_PA)

\* page_table_root of a slot never used (UNUSED_TASK).
NoRoot == 0

ASSUME SchedulerAssumption ==
  /\ MAX_TASKS \in Nat \ {0}
  /\ SWITCH_TICKS \in Nat \ {0}
  /\ MS_PER_TICK \in Nat \ {0}
  /\ SleepMs \subseteq Nat
  /\ KernelRoot \notin Roots
  /\ NoRoot \notin Roots \union {KernelRoot}

VARIABLES
  CURRENT_TASK, state, page_table_root, cr3, rsp0, pc,
  phase, asked, slept, live, waited

vars == <<CURRENT_TASK, state, page_table_root, cr3, rsp0, pc,
          phase, asked, slept, live, waited>>

Tasks == 0..(MAX_TASKS - 1)

TaskState == {"Unused", "Ready", "Running", "Sleeping"}

PCs == {"none", "run", "sleep", "yield", "dead"}

\* Mutant of ms_to_ticks: rounds down.
ms_to_ticks_floor(ms) == ms \div MS_PER_TICK

\* timer.rs: ceiling division.
ms_to_ticks(ms) == (ms + MS_PER_TICK - 1) \div MS_PER_TICK

\* How far the scan of timer_handler_rust gets from c before it looks at t: it
\* starts one behind c and looks at c itself last.
ScanPos(c, t) == IF t > c THEN t - c ELSE t + MAX_TASKS - c

\* Mutant of ScanStops: every scan starts at slot 0.
ScanStops_from_zero(st, n) ==
  \/ st[n] = "Ready" /\ \A t \in Tasks : st[t] = "Ready" => n <= t
  \/ n = 0 /\ \A t \in Tasks : st[t] # "Ready"

\* The scan stops at n: the first Ready task after the current one, and task 0
\* when there is none.
ScanStops(st, n) ==
  \/ /\ st[n] = "Ready"
     /\ \A t \in Tasks :
          st[t] = "Ready" => ScanPos(CURRENT_TASK, n) <= ScanPos(CURRENT_TASK, t)
  \/ /\ n = 0
     /\ \A t \in Tasks : st[t] # "Ready"

-----------------------------------------------------------------------------
\* The task table when kernel_main has called init_scheduler (configurations
\* with run_verification), or has not: then slot 0 is as UNUSED_TASK left it
\* while kernel_main runs in it, and no task is ever spawned.
init_scheduler ==
  /\ CURRENT_TASK = 0
  /\ \E run_verification \in BOOLEAN :
       /\ state = [t \in Tasks |->
                     IF t = 0 /\ run_verification THEN "Running" ELSE "Unused"]
       /\ page_table_root = [t \in Tasks |->
                     IF t = 0 /\ run_verification THEN KernelRoot ELSE NoRoot]
  /\ cr3 = KernelRoot
  /\ rsp0 = 0
  /\ pc = [t \in Tasks |-> IF t = 0 THEN "run" ELSE "none"]
  /\ phase = 0
  /\ asked = [t \in Tasks |-> 0]
  /\ slept = [t \in Tasks |-> 0]
  /\ live = {}
  /\ waited = [t \in Tasks |-> 0]

\* spawn_userspace, called by kernel_main (task 0, after init_scheduler) with a
\* fresh page table: the first Unused slot becomes a Ready task.
spawn_userspace(i, root) ==
  /\ CURRENT_TASK = 0
  /\ page_table_root[0] = KernelRoot
  /\ i # 0
  /\ state[i] = "Unused"
  /\ \A j \in Tasks : 0 < j /\ j < i => state[j] # "Unused"
  /\ root \notin live
  /\ page_table_root' = [page_table_root EXCEPT ![i] = root]
  /\ live' = live \union {root}
  /\ pc' = [pc EXCEPT ![i] = "run"]
  /\ state' = [state EXCEPT ![i] = "Ready"]
  /\ waited' = [waited EXCEPT ![i] = 0]
  /\ UNCHANGED <<CURRENT_TASK, cr3, rsp0, phase, asked, slept>>

\* The ticks of all sleepers, after one more tick.
Slept1 ==
  [t \in Tasks |-> IF state[t] = "Sleeping" /\ slept[t] < ms_to_ticks(asked[t])
                     THEN slept[t] + 1 ELSE slept[t]]

\* Mutant of Woken: nobody is woken.
Woken_never == state

\* The wake-up loop at the head of timer_handler_rust; it leaves out task 0.
Woken ==
  [t \in Tasks |-> IF /\ t # 0
                      /\ state[t] = "Sleeping"
                      /\ Slept1[t] >= ms_to_ticks(asked[t])
                     THEN "Ready" ELSE state[t]]

\* timer_handler_rust on the nine ticks of ten that only wake sleepers.
timer_tick ==
  /\ phase + 1 < SWITCH_TICKS
  /\ phase' = phase + 1
  /\ slept' = Slept1
  /\ state' = Woken
  /\ UNCHANGED <<CURRENT_TASK, page_table_root, cr3, rsp0, pc, asked, live, waited>>

\* The task table the scan looks at: the current task goes back to Ready, if it
\* has not put itself to sleep, yielded or exited.
Preempted ==
  [Woken EXCEPT ![CURRENT_TASK] = IF @ = "Running" THEN "Ready" ELSE @]

\* Mutant of switch_to: nothing to preempt unless the current task is Running.
switch_to_if_running(next_task) ==
  /\ IF state[CURRENT_TASK] = "Running"
       THEN ScanStops(Preempted, next_task) ELSE next_task = CURRENT_TASK
  /\ state' = IF state[CURRENT_TASK] = "Running"
                THEN [Preempted EXCEPT ![next_task] = "Running"] ELSE Woken
  /\ CURRENT_TASK' = next_task
  /\ cr3' = IF next_task = CURRENT_TASK THEN cr3 ELSE page_table_root[next_task]
  /\ rsp0' = IF next_task = CURRENT_TASK THEN rsp0 ELSE next_task
  /\ waited' = [t \in Tasks |-> IF Preempted[t] # "Ready" \/ t = next_task THEN 0
                                  ELSE IF state[CURRENT_TASK] = "Running"
                                  THEN waited[t] + 1 ELSE waited[t]]

\* timer_handler_rust on the tick that switches: the scan picks next_task and,
\* when it is another one, installs its page table and its kernel stack.
switch_to(next_task) ==
  /\ ScanStops(Preempted, next_task)
  /\ state' = [Preempted EXCEPT ![next_task] = "Running"]
  /\ CURRENT_TASK' = next_task
  /\ cr3' = IF next_task = CURRENT_TASK THEN cr3 ELSE page_table_root[next_task]
  /\ rsp0' = IF next_task = CURRENT_TASK THEN rsp0 ELSE next_task
  /\ waited' = [t \in Tasks |-> IF Preempted[t] = "Ready" /\ t # next_task
                                  THEN waited[t] + 1 ELSE 0]

timer_switch ==
  /\ phase + 1 = SWITCH_TICKS
  /\ phase' = 0
  /\ slept' = Slept1
  /\ \E next_task \in Tasks : switch_to(next_task)
  /\ UNCHANGED <<page_table_root, pc, asked, live>>

\* A user task calls Sleep: syscall_sleep, task::sleep, sleep_ms and sleep_until
\* up to its hlt loop.
sleep_until(ms) ==
  /\ CURRENT_TASK # 0
  /\ pc[CURRENT_TASK] = "run"
  /\ state' = [state EXCEPT ![CURRENT_TASK] = "Sleeping"]
  /\ pc' = [pc EXCEPT ![CURRENT_TASK] = "sleep"]
  /\ asked' = [asked EXCEPT ![CURRENT_TASK] = ms]
  /\ slept' = [slept EXCEPT ![CURRENT_TASK] = 0]
  /\ waited' = [waited EXCEPT ![CURRENT_TASK] = 0]
  /\ UNCHANGED <<CURRENT_TASK, page_table_root, cr3, rsp0, phase, live>>

\* The hlt loop of sleep_until ends, and the Sleep call returns to its caller.
sleep_returns ==
  /\ pc[CURRENT_TASK] = "sleep"
  /\ state[CURRENT_TASK] # "Sleeping"
  /\ pc' = [pc EXCEPT ![CURRENT_TASK] = "run"]
  /\ UNCHANGED <<CURRENT_TASK, state, page_table_root, cr3, rsp0, phase,
                 asked, slept, live, waited>>

\* A user task calls Yield: syscall_yield up to its hlt loop.
syscall_yield ==
  /\ CURRENT_TASK # 0
  /\ pc[CURRENT_TASK] = "run"
  /\ state' = [state EXCEPT ![CURRENT_TASK] = "Ready"]
  /\ pc' = [pc EXCEPT ![CURRENT_TASK] = "yield"]
  /\ UNCHANGED <<CURRENT_TASK, page_table_root, cr3, rsp0, phase, asked, slept,
                 live, waited>>

\* The hlt loop of syscall_yield ends.
yield_returns ==
  /\ pc[CURRENT_TASK] = "yield"
  /\ state[CURRENT_TASK] = "Running"
  /\ pc' = [pc EXCEPT ![CURRENT_TASK] = "run"]
  /\ UNCHANGED <<CURRENT_TASK, state, page_table_root, cr3, rsp0, phase,
                 asked, slept, live, waited>>

\* Mutant of exit_current_task: the user's page table stays loaded.
exit_current_task_keeps_cr3 ==
  /\ CURRENT_TASK # 0
  /\ pc[CURRENT_TASK] = "run"
  /\ live' = live \ {page_table_root[CURRENT_TASK]}
  /\ state' = [state EXCEPT ![CURRENT_TASK] = "Unused"]
  /\ pc' = [pc EXCEPT ![CURRENT_TASK] = "dead"]
  /\ waited' = [waited EXCEPT ![CURRENT_TASK] = 0]
  /\ UNCHANGED <<CURRENT_TASK, page_table_root, cr3, rsp0, phase, asked, slept>>

\* exit_current_task, from the Exit call or from a user-mode page fault or #GP:
\* free the page tables, give up the slot, go back to the kernel's page table
\* and halt until the timer switches away.  (For task 0 it only returns -1.)
exit_current_task ==
  /\ CURRENT_TASK # 0
  /\ pc[CURRENT_TASK] = "run"
  /\ live' = IF page_table_root[CURRENT_TASK] \in {page_table_root[0], NoRoot}
               THEN live ELSE live \ {page_table_root[CURRENT_TASK]}
  /\ state' = [state EXCEPT ![CURRENT_TASK] = "Unused"]
  /\ cr3' = page_table_root[0]
  /\ pc' = [pc EXCEPT ![CURRENT_TASK] = "dead"]
  /\ waited' = [waited EXCEPT ![CURRENT_TASK] = 0]
  /\ UNCHANGED <<CURRENT_TASK, page_table_root, rsp0, phase, asked, slept>>

\* syscall_execve of a user task that reaches the end of replace_address_space:
\* the old page tables are freed, then new ones are built (possibly at the same
\* address), recorded and loaded.
replace_address_space(root) ==
  /\ CURRENT_TASK # 0
  /\ pc[CURRENT_TASK] = "run"
  /\ LET kept == live \ {page_table_root[CURRENT_TASK]}
     IN  /\ root \notin kept
         /\ live' = kept \union {root}
  /\ page_table_root' = [page_table_root EXCEPT ![CURRENT_TASK] = root]
  /\ cr3' = root
  /\ UNCHANGED <<CURRENT_TASK, state, rsp0, pc, phase, asked, slept, waited>>

Next ==
  \/ \E i \in Tasks, root \in Roots : spawn_userspace(i, root)
  \/ timer_tick
  \/ timer_switch
  \/ \E ms \in SleepMs : sleep_until(ms)
  \/ sleep_returns
  \/ syscall_yield
  \/ yield_returns
  \/ exit_current_task
  \/ \E root \in Roots : replace_address_space(root)

Safety == init_scheduler /\ [][Next]_vars

(***************************************************************************)
(* The timer keeps interrupting: every section that runs with interrupts   *)
(* off is bounded.  A hlt loop that finds its condition true when its task *)
(* runs again leaves the loop before the next switch, ten ticks later;     *)
(* hence strong fairness, the condition holds only while the task has the  *)
(* processor.  User code owes nothing: it may compute for ever.            *)
(***************************************************************************)
Fairness ==
  /\ WF_vars(timer_tick)
  /\ WF_vars(timer_switch)
  /\ \A t \in Tasks : SF_vars(CURRENT_TASK = t /\ sleep_returns)
  /\ \A t \in Tasks : SF_vars(CURRENT_TASK = t /\ yield_returns)

Spec == Safety /\ Fairness

-----------------------------------------------------------------------------
TypeOK ==
  /\ CURRENT_TASK \in Tasks
  /\ state \in [Tasks -> TaskState]
  /\ page_table_root \in [Tasks -> Roots \union {KernelRoot, NoRoot}]
  /\ cr3 \in Roots \union {KernelRoot}
  /\ rsp0 \in Tasks
  /\ pc \in [Tasks -> PCs]
  /\ phase \in 0..(SWITCH_TICKS - 1)
  /\ asked \in [Tasks -> SleepMs \union {0}]
  /\ slept \in [Tasks -> Nat]
  /\ live \subseteq Roots
  /\ waited \in [Tasks -> Nat]

Occupied == {t \in Tasks : t # 0 /\ state[t] # "Unused"}

\* At most one task is Running and it is the current one, although yield, sleep,
\* exit and wake-up all change the state of the task that has the processor.
OneRunning ==
  \A t \in Tasks : state[t] = "Running" => t = CURRENT_TASK

\* The loaded page table is always the current task's own ("If we load the wrong
\* CR3, one task can corrupt another's memory silently", task.rs:398), or the
\* kernel's for task 0 and once the task has exited; it has not been freed; and
\* no two tasks share one.
AddressSpaces ==
  /\ cr3 = IF CURRENT_TASK = 0 \/ pc[CURRENT_TASK] = "dead"
             THEN KernelRoot ELSE page_table_root[CURRENT_TASK]
  /\ cr3 \in live \union {KernelRoot}
  /\ \A t \in Occupied : page_table_root[t] \in live
  /\ \A t, u \in Occupied : t # u => page_table_root[t] # page_table_root[u]

\* A trap out of user code lands on the current task's own kernel stack: RSP0 is
\* the one timer_handler_rust wrote at the switch to this task (task.rs:409).
TrapStack ==
  CURRENT_TASK # 0 => rsp0 = CURRENT_TASK

\* Both: the context of the current task is loaded, and nobody else's.
ContextLoaded == AddressSpaces /\ TrapStack

\* Round robin: a Ready task is passed over by fewer switches than there are
\* task slots, whatever the others spawn, sleep, yield and exit meanwhile.
BoundedWait ==
  \A t \in Tasks : state[t] = "Ready" => waited[t] < MAX_TASKS

\* Why the properties above hold together: the slots' states agree with what
\* their contexts do, the kernel's root is recorded before any task exists, and
\* a Ready task's count of missed switches is paid for by the distance the scan
\* still has to go to reach it.
SchedulerInv ==
  /\ pc[0] = "run"
  /\ page_table_root[0] \in {KernelRoot, NoRoot}
  /\ page_table_root[0] = NoRoot => /\ Occupied = {} /\ CURRENT_TASK = 0
                                    /\ state[0] \in {"Unused", "Running"}
  /\ page_table_root[0] = KernelRoot => state[0] \in {"Ready", "Running"}
  /\ \A t \in Tasks \ {0} : state[t] = "Unused" <=> pc[t] \in {"dead", "none"}
  /\ \A t \in Tasks : state[t] = "Sleeping" => pc[t] = "sleep"
  /\ \A t \in Tasks : pc[t] = "sleep" /\ state[t] # "Sleeping"
                         => slept[t] >= ms_to_ticks(asked[t])
  /\ pc[CURRENT_TASK] # "none"
  /\ \A t \in Tasks : IF state[t] = "Ready"
                       THEN waited[t] + ScanPos(CURRENT_TASK, t) <= MAX_TASKS
                       ELSE waited[t] = 0

\* A task that has exited, and a slot never used, never gets the processor
\* back: the hlt loop that ends exit_current_task is left for good.
DeadStayDead ==
  [][\A t \in Tasks :
       pc[t] \in {"dead", "none"} /\ CURRENT_TASK # t => CURRENT_TASK' # t]_vars

\* Sleep(ms) does not return before ms milliseconds of ticks have gone by,
\* rounding in ms_to_ticks included.
SleepsLongEnough ==
  [][\A t \in Tasks :
       pc[t] = "sleep" /\ pc'[t] = "run" => slept[t] * MS_PER_TICK >= asked[t]]_vars

\* Nobody starves: a Ready task gets the processor.
ReadyRuns ==
  \A t \in Tasks : state[t] = "Ready" ~> CURRENT_TASK = t

\* Sleep and Yield return to their caller.
CallsReturn ==
  \A t \in Tasks : pc[t] \in {"sleep", "yield"} ~> pc[t] = "run"
=============================================================================
