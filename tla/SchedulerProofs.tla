-------------------------- MODULE SchedulerProofs ---------------------------
(***************************************************************************)
(* The scheduler's invariants, proved for every number of task slots,      *)
(* every switch period and every set of sleep times.                       *)
(***************************************************************************)
EXTENDS Scheduler, TLAPS

IInv == TypeOK /\ OneRunning /\ AddressSpaces /\ TrapStack /\ SchedulerInv

\* The scan reaches every slot within MAX_TASKS steps, the current one last.
LEMMA ScanRange ==
  ASSUME NEW c \in Tasks, NEW t \in Tasks
  PROVE  /\ ScanPos(c, t) \in 1..MAX_TASKS
         /\ ScanPos(c, c) = MAX_TASKS
BY SchedulerAssumption DEF Tasks, ScanPos

\* Moving the processor from c to n brings the scan closer to every t behind n.
LEMMA ScanCloser ==
  ASSUME NEW c \in Tasks, NEW n \in Tasks, NEW t \in Tasks, n # t,
         ScanPos(c, n) <= ScanPos(c, t)
  PROVE  ScanPos(n, t) + 1 <= ScanPos(c, t)
BY SchedulerAssumption DEF Tasks, ScanPos

LEMMA TicksRoundUp ==
  ASSUME NEW ms \in Nat
  PROVE  ms_to_ticks(ms) \in Nat /\ ms_to_ticks(ms) * MS_PER_TICK >= ms
BY SchedulerAssumption DEF ms_to_ticks

LEMMA InitIInv == init_scheduler => IInv
<1> SUFFICES ASSUME init_scheduler
             PROVE  IInv
  OBVIOUS
<1> USE SchedulerAssumption DEF init_scheduler, Tasks
<1>1. TypeOK
  BY DEF TypeOK, TaskState, PCs
<1>2. OneRunning /\ TrapStack
  BY DEF OneRunning, TrapStack
<1>3. AddressSpaces
  BY DEF AddressSpaces, Occupied
<1>4. SchedulerInv
  BY DEF SchedulerInv, Occupied, ms_to_ticks
<1> QED
  BY <1>1, <1>2, <1>3, <1>4 DEF IInv

LEMMA SpawnIInv ==
  ASSUME IInv, NEW i \in Tasks, NEW root \in Roots, spawn_userspace(i, root)
  PROVE  IInv'
<1> USE DEF IInv, spawn_userspace
<1>1. TypeOK'
  BY DEF TypeOK, TaskState, PCs
<1>2. OneRunning' /\ TrapStack'
  BY DEF OneRunning, TrapStack, TypeOK
<1>3. Occupied' = Occupied \union {i} /\ i \notin Occupied
  BY DEF Occupied, TypeOK
<1>4. AddressSpaces'
  BY <1>3, SchedulerAssumption DEF AddressSpaces, TypeOK
<1>5. SchedulerInv'
  <2>1. i # CURRENT_TASK
    OBVIOUS
  <2>2. ScanPos(CURRENT_TASK, i) <= MAX_TASKS /\ ScanPos(CURRENT_TASK, i) \in Nat
    BY ScanRange, SchedulerAssumption DEF TypeOK
  <2>3. \A t \in Tasks : IF state'[t] = "Ready"
                       THEN waited'[t] + ScanPos(CURRENT_TASK', t) <= MAX_TASKS
                       ELSE waited'[t] = 0
    BY <2>2 DEF SchedulerInv, TypeOK
  <2> QED
    BY <2>1, <2>3, <1>3, SchedulerAssumption DEF SchedulerInv, TypeOK
<1> QED
  BY <1>1, <1>2, <1>4, <1>5

\* What the wake-up loop does to one slot.
LEMMA WakeUp ==
  ASSUME TypeOK
  PROVE  /\ Slept1 \in [Tasks -> Nat]
         /\ Woken \in [Tasks -> TaskState]
         /\ \A t \in Tasks :
              \/ Woken[t] = state[t]
              \/ /\ t # 0
                 /\ state[t] = "Sleeping"
                 /\ Woken[t] = "Ready"
                 /\ Slept1[t] >= ms_to_ticks(asked[t])
         /\ \A t \in Tasks : state[t] # "Sleeping" => Slept1[t] = slept[t]
<1>1. \A t \in Tasks : ms_to_ticks(asked[t]) \in Nat
  BY TicksRoundUp, SchedulerAssumption DEF TypeOK
<1>2. Slept1 \in [Tasks -> Nat]
  BY <1>1 DEF Slept1, TypeOK
<1>3. Woken \in [Tasks -> TaskState]
  BY DEF Woken, TypeOK, TaskState
<1> QED
  BY <1>1, <1>2, <1>3 DEF Slept1, Woken

\* Everything but the tick's own variables is as before, and the new states
\* differ from the old ones only in sleepers that became Ready.
LEMMA TickIInv ==
  ASSUME IInv, timer_tick
  PROVE  IInv'
<1> USE DEF IInv, timer_tick
<1>1. TypeOK'
  BY WakeUp, SchedulerAssumption DEF TypeOK
<1>2. \A t \in Tasks :
        \/ state'[t] = state[t]
        \/ /\ t # 0
           /\ state[t] = "Sleeping"
           /\ state'[t] = "Ready"
           /\ slept'[t] >= ms_to_ticks(asked[t])
  BY WakeUp
<1>3. OneRunning' /\ TrapStack'
  BY <1>2 DEF OneRunning, TrapStack, TypeOK
<1>4. Occupied' = Occupied
  BY <1>2 DEF Occupied
<1>5. AddressSpaces'
  BY <1>4 DEF AddressSpaces
<1>6. SchedulerInv'
  <2>1. 0 \in Tasks
    BY SchedulerAssumption DEF Tasks
  <2>2. state'[0] = state[0]
    BY <2>1, <1>2
  <2>3. \A t \in Tasks \ {0} : state'[t] = "Unused" <=> pc'[t] \in {"dead", "none"}
    BY <1>2 DEF SchedulerInv
  <2>4. \A t \in Tasks : state'[t] = "Sleeping" => pc'[t] = "sleep"
    BY <1>2 DEF SchedulerInv
  <2>5. \A t \in Tasks : pc'[t] = "sleep" /\ state'[t] # "Sleeping"
                          => slept'[t] >= ms_to_ticks(asked'[t])
    BY <1>2, WakeUp DEF SchedulerInv
  <2>6. \A t \in Tasks : IF state'[t] = "Ready"
                       THEN waited'[t] + ScanPos(CURRENT_TASK', t) <= MAX_TASKS
                       ELSE waited'[t] = 0
    <3> SUFFICES ASSUME NEW t \in Tasks
                 PROVE  IF state'[t] = "Ready"
                          THEN waited[t] + ScanPos(CURRENT_TASK, t) <= MAX_TASKS
                          ELSE waited[t] = 0
      OBVIOUS
    <3>1. CASE state'[t] = state[t]
      BY <3>1 DEF SchedulerInv
    <3>2. CASE state[t] = "Sleeping" /\ state'[t] = "Ready"
      <4>1. waited[t] = 0
        BY <3>2 DEF SchedulerInv
      <4>2. ScanPos(CURRENT_TASK, t) \in 1..MAX_TASKS
        BY ScanRange DEF TypeOK
      <4> QED
        BY <4>1, <4>2, <3>2, SchedulerAssumption
    <3> QED
      BY <3>1, <3>2, <1>2
  <2> QED
    BY <2>2, <2>3, <2>4, <2>5, <2>6, <1>4 DEF SchedulerInv
<1> QED
  BY <1>1, <1>3, <1>5, <1>6

LEMMA SwitchIInv ==
  ASSUME IInv, timer_switch
  PROVE  IInv'
<1> USE DEF IInv
<1>1. PICK n \in Tasks : switch_to(n)
  BY DEF timer_switch
<1>2. 0 \in Tasks /\ CURRENT_TASK \in Tasks
  BY SchedulerAssumption DEF TypeOK, Tasks
<1>3. Preempted \in [Tasks -> TaskState]
  BY WakeUp DEF Preempted, TaskState, TypeOK
<1>4. \A t \in Tasks :
        \/ Preempted[t] = state[t]
        \/ /\ t # 0 /\ state[t] = "Sleeping" /\ Preempted[t] = "Ready"
           /\ Slept1[t] >= ms_to_ticks(asked[t])
        \/ t = CURRENT_TASK /\ state[t] = "Running" /\ Preempted[t] = "Ready"
  BY <1>2, WakeUp DEF Preempted
<1>5. \A t \in Tasks : Preempted[t] # "Running"
  <2>1. Preempted[CURRENT_TASK] # "Running"
    BY <1>2, WakeUp DEF Preempted
  <2> QED
    BY <2>1, <1>4 DEF OneRunning
<1>6. /\ state' \in [Tasks -> TaskState]
      /\ state'[n] = "Running"
      /\ \A t \in Tasks : t # n => state'[t] = Preempted[t]
  BY <1>1, <1>3 DEF switch_to, TaskState
<1>7. CURRENT_TASK' = n
  BY <1>1 DEF switch_to
<1>8. n = 0 \/ state[n] # "Unused"
  BY <1>1, <1>4 DEF switch_to, ScanStops
<1>9. \A t \in Tasks : t # 0 => (state'[t] = "Unused" <=> state[t] = "Unused")
  BY <1>4, <1>6, <1>8
<1>10. Occupied' = Occupied
  BY <1>9 DEF Occupied
<1>11. pc[n] \notin {"dead", "none"}
  BY <1>2, <1>8 DEF SchedulerInv
<1>12. page_table_root[0] = NoRoot => n = 0
  <2>1. SUFFICES ASSUME page_table_root[0] = NoRoot, n # 0
                 PROVE  FALSE
    OBVIOUS
  <2>2. n \notin Occupied
    BY <2>1 DEF SchedulerInv
  <2> QED
    BY <2>1, <2>2, <1>8 DEF Occupied
<1>13. TypeOK'
  BY <1>1, <1>6, <1>7, <1>2, <1>8, <1>12, WakeUp, SchedulerAssumption
     DEF TypeOK, timer_switch, switch_to, AddressSpaces, SchedulerInv, Occupied
<1>14. OneRunning'
  BY <1>5, <1>6, <1>7 DEF OneRunning
<1>15. TrapStack'
  BY <1>1 DEF TrapStack, switch_to
<1>16. AddressSpaces'
  <2>1. CASE n = CURRENT_TASK
    <3>1. cr3' = cr3 /\ CURRENT_TASK' = CURRENT_TASK
      BY <2>1, <1>1 DEF switch_to
    <3> QED
      BY <3>1, <1>10 DEF AddressSpaces, timer_switch
  <2>2. CASE n # CURRENT_TASK
    <3>1. cr3' = page_table_root[n]
      BY <2>2, <1>1 DEF switch_to
    <3>2. n = 0 => page_table_root[n] = KernelRoot
      BY <2>2 DEF SchedulerInv
    <3>3. n # 0 => n \in Occupied
      BY <1>8 DEF Occupied
    <3> QED
      BY <3>1, <3>2, <3>3, <1>7, <1>10, <1>11 DEF AddressSpaces, timer_switch
  <2> QED
    BY <2>1, <2>2
<1>17. SchedulerInv'
  <2> USE DEF timer_switch
  <2>1. pc' = pc /\ page_table_root' = page_table_root /\ asked' = asked /\ slept' = Slept1
    OBVIOUS
  <2>2. page_table_root'[0] = NoRoot => /\ Occupied' = {} /\ CURRENT_TASK' = 0
                                        /\ state'[0] \in {"Unused", "Running"}
    BY <2>1, <1>6, <1>7, <1>10, <1>12 DEF SchedulerInv
  <2>3. page_table_root'[0] = KernelRoot => state'[0] \in {"Ready", "Running"}
    BY <2>1, <1>2, <1>4, <1>6 DEF SchedulerInv
  <2>4. \A t \in Tasks \ {0} : state'[t] = "Unused" <=> pc'[t] \in {"dead", "none"}
    BY <2>1, <1>9 DEF SchedulerInv
  <2>5. \A t \in Tasks : state'[t] = "Sleeping" => pc'[t] = "sleep"
    BY <2>1, <1>4, <1>6 DEF SchedulerInv
  <2>6. \A t \in Tasks : pc'[t] = "sleep" /\ state'[t] # "Sleeping"
                          => slept'[t] >= ms_to_ticks(asked'[t])
    <3> SUFFICES ASSUME NEW t \in Tasks, pc[t] = "sleep", state'[t] # "Sleeping"
                 PROVE  Slept1[t] >= ms_to_ticks(asked[t])
      BY <2>1
    <3>1. Preempted[t] # "Sleeping"
      BY <1>1, <1>6, <1>5, SchedulerAssumption, <1>2 DEF switch_to, ScanStops, SchedulerInv
    <3> QED
      BY <3>1, <1>4, WakeUp DEF SchedulerInv
  <2>7. \A t \in Tasks : IF state'[t] = "Ready"
                       THEN waited'[t] + ScanPos(CURRENT_TASK', t) <= MAX_TASKS
                       ELSE waited'[t] = 0
    <3> SUFFICES ASSUME NEW t \in Tasks
                 PROVE  IF state'[t] = "Ready"
                          THEN waited'[t] + ScanPos(n, t) <= MAX_TASKS
                          ELSE waited'[t] = 0
      BY <1>7
    <3>1. CASE t = n \/ Preempted[t] # "Ready"
      BY <3>1, <1>1, <1>6 DEF switch_to
    <3>2. CASE t # n /\ Preempted[t] = "Ready"
      <4>1. waited'[t] = waited[t] + 1 /\ state'[t] = "Ready"
        BY <3>2, <1>1, <1>6 DEF switch_to
      <4>2. ScanPos(CURRENT_TASK, n) <= ScanPos(CURRENT_TASK, t)
        BY <3>2, <1>1 DEF switch_to, ScanStops
      <4>3. ScanPos(n, t) + 1 <= ScanPos(CURRENT_TASK, t)
        BY <4>2, <3>2, <1>2, ScanCloser
      <4>4. waited[t] + ScanPos(CURRENT_TASK, t) <= MAX_TASKS
        <5>1. CASE state[t] = "Ready"
          BY <5>1 DEF SchedulerInv
        <5>2. CASE state[t] # "Ready"
          <6>1. waited[t] = 0
            BY <5>2 DEF SchedulerInv
          <6>2. ScanPos(CURRENT_TASK, t) \in 1..MAX_TASKS
            BY <1>2, ScanRange
          <6> QED
            BY <6>1, <6>2, SchedulerAssumption
        <5> QED
          BY <5>1, <5>2
      <4>5. waited[t] \in Nat /\ ScanPos(n, t) \in Nat /\ ScanPos(CURRENT_TASK, t) \in Nat
        BY <1>2, ScanRange, SchedulerAssumption DEF TypeOK
      <4> QED
        BY <4>1, <4>3, <4>4, <4>5, SchedulerAssumption
    <3> QED
      BY <3>1, <3>2
  <2> QED
    BY <2>1, <2>2, <2>3, <2>4, <2>5, <2>6, <2>7, <1>7, <1>11 DEF SchedulerInv
<1> QED
  BY <1>13, <1>14, <1>15, <1>16, <1>17

LEMMA SleepIInv ==
  ASSUME IInv, NEW ms \in SleepMs, sleep_until(ms)
  PROVE  IInv'
<1> USE DEF IInv, sleep_until
<1>1. TypeOK'
  BY DEF TypeOK, TaskState, PCs
<1>2. OneRunning' /\ TrapStack'
  BY DEF OneRunning, TrapStack, TypeOK
<1>3. state[CURRENT_TASK] # "Unused" /\ CURRENT_TASK \in Tasks
  BY DEF SchedulerInv, TypeOK
<1>4. Occupied' = Occupied
  BY <1>3 DEF Occupied, TypeOK
<1>5. AddressSpaces'
  BY <1>3, <1>4 DEF AddressSpaces, TypeOK
<1>6. SchedulerInv'
  <2>11. /\ pc'[0] = "run" /\ pc'[CURRENT_TASK'] # "none"
         /\ page_table_root'[0] \in {KernelRoot, NoRoot}
         /\ page_table_root'[0] = NoRoot => /\ Occupied' = {} /\ CURRENT_TASK' = 0
                                            /\ state'[0] \in {"Unused", "Running"}
         /\ page_table_root'[0] = KernelRoot => state'[0] \in {"Ready", "Running"}
    BY <1>3, <1>4 DEF SchedulerInv, TypeOK
  <2>12. \A t \in Tasks \ {0} : state'[t] = "Unused" <=> pc'[t] \in {"dead", "none"}
    BY <1>3, <1>4 DEF SchedulerInv, TypeOK
  <2>13. \A t \in Tasks : state'[t] = "Sleeping" => pc'[t] = "sleep"
    BY <1>3, <1>4 DEF SchedulerInv, TypeOK
  <2>14. \A t \in Tasks : pc'[t] = "sleep" /\ state'[t] # "Sleeping"
                          => slept'[t] >= ms_to_ticks(asked'[t])
    BY <1>3, <1>4 DEF SchedulerInv, TypeOK
  <2>15. \A t \in Tasks : IF state'[t] = "Ready"
                         THEN waited'[t] + ScanPos(CURRENT_TASK', t) <= MAX_TASKS
                         ELSE waited'[t] = 0
    BY <1>3, <1>4 DEF SchedulerInv, TypeOK
  <2> QED
    BY <2>11, <2>12, <2>13, <2>14, <2>15 DEF SchedulerInv
<1> QED
  BY <1>1, <1>2, <1>5, <1>6

LEMMA YieldIInv ==
  ASSUME IInv, syscall_yield
  PROVE  IInv'
<1> USE DEF IInv, syscall_yield
<1>1. TypeOK'
  BY DEF TypeOK, TaskState, PCs
<1>2. OneRunning' /\ TrapStack'
  BY DEF OneRunning, TrapStack, TypeOK
<1>3. state[CURRENT_TASK] # "Unused" /\ CURRENT_TASK \in Tasks
  BY DEF SchedulerInv, TypeOK
<1>4. Occupied' = Occupied
  BY <1>3 DEF Occupied, TypeOK
<1>5. AddressSpaces'
  BY <1>3, <1>4 DEF AddressSpaces, TypeOK
<1>6. SchedulerInv'
  <2>1. waited[CURRENT_TASK] + ScanPos(CURRENT_TASK, CURRENT_TASK) <= MAX_TASKS
    BY <1>3, ScanRange, SchedulerAssumption DEF SchedulerInv, TypeOK
  <2>11. /\ pc'[0] = "run" /\ pc'[CURRENT_TASK'] # "none"
         /\ page_table_root'[0] \in {KernelRoot, NoRoot}
         /\ page_table_root'[0] = NoRoot => /\ Occupied' = {} /\ CURRENT_TASK' = 0
                                            /\ state'[0] \in {"Unused", "Running"}
         /\ page_table_root'[0] = KernelRoot => state'[0] \in {"Ready", "Running"}
    BY <1>3, <1>4 DEF SchedulerInv, TypeOK
  <2>12. \A t \in Tasks \ {0} : state'[t] = "Unused" <=> pc'[t] \in {"dead", "none"}
    BY <1>3, <1>4 DEF SchedulerInv, TypeOK
  <2>13. \A t \in Tasks : state'[t] = "Sleeping" => pc'[t] = "sleep"
    BY <1>3, <1>4 DEF SchedulerInv, TypeOK
  <2>14. \A t \in Tasks : pc'[t] = "sleep" /\ state'[t] # "Sleeping"
                          => slept'[t] >= ms_to_ticks(asked'[t])
    BY <1>3, <1>4 DEF SchedulerInv, TypeOK
  <2>15. \A t \in Tasks : IF state'[t] = "Ready"
                         THEN waited'[t] + ScanPos(CURRENT_TASK', t) <= MAX_TASKS
                         ELSE waited'[t] = 0
    BY <2>1, <1>3 DEF SchedulerInv, TypeOK
  <2> QED
    BY <2>11, <2>12, <2>13, <2>14, <2>15 DEF SchedulerInv
<1> QED
  BY <1>1, <1>2, <1>5, <1>6

LEMMA ReturnIInv ==
  ASSUME IInv, sleep_returns \/ yield_returns
  PROVE  IInv'
<1> USE DEF IInv, sleep_returns, yield_returns
<1>1. TypeOK'
  BY DEF TypeOK, PCs
<1>2. OneRunning' /\ TrapStack'
  BY DEF OneRunning, TrapStack, TypeOK
<1>3. state[CURRENT_TASK] # "Unused" /\ CURRENT_TASK \in Tasks /\ CURRENT_TASK # 0
  BY DEF SchedulerInv, TypeOK
<1>4. Occupied' = Occupied
  BY <1>3 DEF Occupied, TypeOK
<1>5. AddressSpaces'
  BY <1>3, <1>4 DEF AddressSpaces, TypeOK
<1>6. SchedulerInv'
  <2>1. /\ state[CURRENT_TASK] # "Sleeping"
        /\ pc' = [pc EXCEPT ![CURRENT_TASK] = "run"]
        /\ UNCHANGED <<CURRENT_TASK, state, page_table_root, slept, asked, waited>>
    OBVIOUS
  <2>2. \A t \in Tasks : pc'[t] = IF t = CURRENT_TASK THEN "run" ELSE pc[t]
    BY <2>1 DEF TypeOK
  <2>3. \A t \in Tasks : IF state'[t] = "Ready"
                       THEN waited'[t] + ScanPos(CURRENT_TASK', t) <= MAX_TASKS
                       ELSE waited'[t] = 0
    BY <2>1 DEF SchedulerInv
  <2>11. /\ pc'[0] = "run" /\ pc'[CURRENT_TASK'] # "none"
         /\ page_table_root'[0] \in {KernelRoot, NoRoot}
         /\ page_table_root'[0] = NoRoot => /\ Occupied' = {} /\ CURRENT_TASK' = 0
                                            /\ state'[0] \in {"Unused", "Running"}
         /\ page_table_root'[0] = KernelRoot => state'[0] \in {"Ready", "Running"}
    BY <2>1, <2>2, <1>3, <1>4, SchedulerAssumption DEF SchedulerInv, Tasks
  <2>12. \A t \in Tasks \ {0} : state'[t] = "Unused" <=> pc'[t] \in {"dead", "none"}
    BY <2>1, <2>2, <1>3, <1>4, SchedulerAssumption DEF SchedulerInv, Tasks
  <2>13. \A t \in Tasks : state'[t] = "Sleeping" => pc'[t] = "sleep"
    BY <2>1, <2>2, <1>3, <1>4, SchedulerAssumption DEF SchedulerInv, Tasks
  <2>14. \A t \in Tasks : pc'[t] = "sleep" /\ state'[t] # "Sleeping"
                          => slept'[t] >= ms_to_ticks(asked'[t])
    BY <2>1, <2>2, <1>3, <1>4, SchedulerAssumption DEF SchedulerInv, Tasks
  <2> QED
    BY <2>11, <2>12, <2>13, <2>14, <2>3 DEF SchedulerInv
<1> QED
  BY <1>1, <1>2, <1>5, <1>6

LEMMA ExitIInv ==
  ASSUME IInv, exit_current_task
  PROVE  IInv'
<1> USE DEF IInv, exit_current_task
<1>1. CURRENT_TASK \in Occupied /\ CURRENT_TASK \in Tasks
  BY DEF SchedulerInv, TypeOK, Occupied
<1>2. page_table_root[0] = KernelRoot
  BY SchedulerAssumption, <1>1 DEF SchedulerInv
<1>3. page_table_root[CURRENT_TASK] \in live /\ live \subseteq Roots
  BY <1>1 DEF AddressSpaces, TypeOK
<1>4. live' = live \ {page_table_root[CURRENT_TASK]}
  BY <1>2, <1>3, SchedulerAssumption
<1>5. TypeOK'
  BY <1>2, <1>4 DEF TypeOK, TaskState, PCs
<1>6. OneRunning' /\ TrapStack'
  BY DEF OneRunning, TrapStack, TypeOK
<1>7. Occupied' = Occupied \ {CURRENT_TASK}
  BY DEF Occupied, TypeOK
<1>8. AddressSpaces'
  BY <1>1, <1>2, <1>4, <1>7 DEF AddressSpaces, TypeOK
<1>9. SchedulerInv'
  <2>11. /\ pc'[0] = "run" /\ pc'[CURRENT_TASK'] # "none"
         /\ page_table_root'[0] \in {KernelRoot, NoRoot}
         /\ page_table_root'[0] = NoRoot => /\ Occupied' = {} /\ CURRENT_TASK' = 0
                                            /\ state'[0] \in {"Unused", "Running"}
         /\ page_table_root'[0] = KernelRoot => state'[0] \in {"Ready", "Running"}
    BY <1>1, <1>7 DEF SchedulerInv, TypeOK, Occupied
  <2>12. \A t \in Tasks \ {0} : state'[t] = "Unused" <=> pc'[t] \in {"dead", "none"}
    BY <1>1, <1>7 DEF SchedulerInv, TypeOK, Occupied
  <2>13. \A t \in Tasks : state'[t] = "Sleeping" => pc'[t] = "sleep"
    BY <1>1, <1>7 DEF SchedulerInv, TypeOK, Occupied
  <2>14. \A t \in Tasks : pc'[t] = "sleep" /\ state'[t] # "Sleeping"
                          => slept'[t] >= ms_to_ticks(asked'[t])
    BY <1>1, <1>7 DEF SchedulerInv, TypeOK, Occupied
  <2>15. \A t \in Tasks : IF state'[t] = "Ready"
                         THEN waited'[t] + ScanPos(CURRENT_TASK', t) <= MAX_TASKS
                         ELSE waited'[t] = 0
    BY <1>1, <1>7 DEF SchedulerInv, TypeOK, Occupied
  <2> QED
    BY <2>11, <2>12, <2>13, <2>14, <2>15 DEF SchedulerInv
<1> QED
  BY <1>5, <1>6, <1>8, <1>9

LEMMA ExecIInv ==
  ASSUME IInv, NEW root \in Roots, replace_address_space(root)
  PROVE  IInv'
<1> USE DEF IInv, replace_address_space
<1>1. CURRENT_TASK \in Occupied /\ CURRENT_TASK \in Tasks
  BY DEF SchedulerInv, TypeOK, Occupied
<1>2. TypeOK'
  BY DEF TypeOK
<1>3. OneRunning' /\ TrapStack'
  BY DEF OneRunning, TrapStack, TypeOK
<1>4. Occupied' = Occupied
  BY DEF Occupied
<1>5. AddressSpaces'
  BY <1>1, <1>4 DEF AddressSpaces, TypeOK, Occupied
<1>6. SchedulerInv'
  <2>11. /\ pc'[0] = "run" /\ pc'[CURRENT_TASK'] # "none"
         /\ page_table_root'[0] \in {KernelRoot, NoRoot}
         /\ page_table_root'[0] = NoRoot => /\ Occupied' = {} /\ CURRENT_TASK' = 0
                                            /\ state'[0] \in {"Unused", "Running"}
         /\ page_table_root'[0] = KernelRoot => state'[0] \in {"Ready", "Running"}
    BY <1>1, <1>4 DEF SchedulerInv, TypeOK
  <2>12. \A t \in Tasks \ {0} : state'[t] = "Unused" <=> pc'[t] \in {"dead", "none"}
    BY <1>1, <1>4 DEF SchedulerInv, TypeOK
  <2>13. \A t \in Tasks : state'[t] = "Sleeping" => pc'[t] = "sleep"
    BY <1>1, <1>4 DEF SchedulerInv, TypeOK
  <2>14. \A t \in Tasks : pc'[t] = "sleep" /\ state'[t] # "Sleeping"
                          => slept'[t] >= ms_to_ticks(asked'[t])
    BY <1>1, <1>4 DEF SchedulerInv, TypeOK
  <2>15. \A t \in Tasks : IF state'[t] = "Ready"
                         THEN waited'[t] + ScanPos(CURRENT_TASK', t) <= MAX_TASKS
                         ELSE waited'[t] = 0
    BY <1>1, <1>4 DEF SchedulerInv, TypeOK
  <2> QED
    BY <2>11, <2>12, <2>13, <2>14, <2>15 DEF SchedulerInv
<1> QED
  BY <1>2, <1>3, <1>5, <1>6

LEMMA NextIInv == IInv /\ [Next]_vars => IInv'
<1> SUFFICES ASSUME IInv, [Next]_vars
             PROVE  IInv'
  OBVIOUS
<1>1. CASE UNCHANGED vars
  BY <1>1 DEF vars, IInv, TypeOK, OneRunning, AddressSpaces, TrapStack,
              SchedulerInv, Occupied
<1> QED
  BY <1>1, SpawnIInv, TickIInv, SwitchIInv, SleepIInv, YieldIInv, ReturnIInv,
     ExitIInv, ExecIInv DEF Next

-----------------------------------------------------------------------------
\* The inductive invariant holds in every reachable state of the scheduler.
THEOREM SchedulerInvariant == Safety => [](TypeOK /\ SchedulerInv)
<1>1. Safety => []IInv
  BY InitIInv, NextIInv, PTL DEF Safety
<1> QED
  BY <1>1, PTL DEF IInv

\* At most one task is Running, and it is CURRENT_TASK.
THEOREM OnlyCurrentRuns == Safety => []OneRunning
BY InitIInv, NextIInv, PTL DEF Safety, IInv

\* CR3 always holds the current task's own, unfreed page table (or the
\* kernel's), and RSP0 its own kernel stack: a switch never mixes two tasks.
THEOREM TasksAreIsolated == Safety => []ContextLoaded
<1>1. Safety => []IInv
  BY InitIInv, NextIInv, PTL DEF Safety
<1> QED
  BY <1>1, PTL DEF IInv, ContextLoaded

\* A count of passes with a scan still ahead is below the number of tasks.
LEMMA PassesBelow ==
  ASSUME NEW w \in Nat, NEW m \in Nat, NEW s \in 1..m, w + s <= m
  PROVE  w < m
OBVIOUS

\* A Ready task is passed over by fewer than MAX_TASKS switches.
THEOREM RoundRobinBound == Safety => []BoundedWait
<1>1. IInv => BoundedWait
  <2> SUFFICES ASSUME IInv, NEW t \in Tasks, state[t] = "Ready"
               PROVE  waited[t] < MAX_TASKS
    BY DEF BoundedWait
  <2>1. ScanPos(CURRENT_TASK, t) \in 1..MAX_TASKS
    BY ScanRange DEF IInv, TypeOK
  <2>2. waited[t] + ScanPos(CURRENT_TASK, t) <= MAX_TASKS /\ waited[t] \in Nat
    BY DEF IInv, SchedulerInv, TypeOK
  <2>3. MAX_TASKS \in Nat
    BY SchedulerAssumption
  <2> QED
    BY <2>1, <2>2, <2>3, PassesBelow, Zenon
<1> QED
  BY <1>1, InitIInv, NextIInv, PTL DEF Safety

\* No switch ever resumes a task that has exited or a slot that was never used.
THEOREM ExitIsFinal == Safety => DeadStayDead
<1>1. IInv /\ [Next]_vars =>
        [\A t \in Tasks :
           pc[t] \in {"dead", "none"} /\ CURRENT_TASK # t => CURRENT_TASK' # t]_vars
  <2> SUFFICES ASSUME IInv, Next,
                      NEW t \in Tasks, pc[t] \in {"dead", "none"}, CURRENT_TASK # t
               PROVE  CURRENT_TASK' # t
    OBVIOUS
  <2>1. t # 0 /\ state[t] = "Unused"
    BY DEF IInv, SchedulerInv
  <2>2. CASE timer_switch
    <3>1. PICK n \in Tasks : switch_to(n)
      BY <2>2 DEF timer_switch
    <3>2. Preempted[t] = "Unused"
      BY <2>1, WakeUp DEF Preempted, Woken, IInv, TypeOK
    <3>3. n # t
      BY <3>1, <3>2, <2>1 DEF switch_to, ScanStops
    <3> QED
      BY <3>1, <3>3 DEF switch_to
  <2>3. CASE ~timer_switch
    BY <2>3 DEF Next, spawn_userspace, timer_tick, sleep_until, sleep_returns,
                syscall_yield, yield_returns, exit_current_task, replace_address_space
  <2> QED
    BY <2>2, <2>3
<1>2. Safety => []IInv
  BY InitIInv, NextIInv, PTL DEF Safety
<1> QED
  BY <1>1, <1>2, PTL DEF Safety, DeadStayDead

\* Ticks in order are in order as milliseconds.
LEMMA TicksInOrder ==
  ASSUME NEW a \in Nat, NEW b \in Nat, NEW m \in Nat, a >= b
  PROVE  a * m >= b * m
<1>1. PICK d \in Nat : a = b + d
  <2>1. a - b \in Nat /\ a = b + (a - b)
    OBVIOUS
  <2> QED
    BY <2>1, Zenon
<1>2. b * m \in Nat /\ d * m \in Nat
  OBVIOUS
<1>3. a * m = b * m + d * m
  BY <1>1
<1> QED
  BY <1>2, <1>3

\* Sleep never returns early: not before the milliseconds asked for have passed
\* in whole ticks, for every tick length and every sleep time.
THEOREM SleepIsLongEnough == Safety => SleepsLongEnough
<1>1. IInv /\ [Next]_vars =>
        [\A t \in Tasks :
           pc[t] = "sleep" /\ pc'[t] = "run" => slept[t] * MS_PER_TICK >= asked[t]]_vars
  <2> SUFFICES ASSUME IInv, Next,
                      NEW t \in Tasks, pc[t] = "sleep", pc'[t] = "run"
               PROVE  slept[t] * MS_PER_TICK >= asked[t]
    OBVIOUS
  <2>1. /\ state[t] # "Unused"
        /\ asked[t] \in Nat
        /\ slept[t] \in Nat
    <3>1. t # 0
      BY DEF IInv, SchedulerInv
    <3>2. state[t] # "Unused"
      BY <3>1 DEF IInv, SchedulerInv
    <3>3. asked[t] \in SleepMs \union {0} /\ slept[t] \in Nat
      BY DEF IInv, TypeOK
    <3>4. SleepMs \union {0} \subseteq Nat
      BY SchedulerAssumption
    <3>5. asked[t] \in Nat
      BY <3>3, <3>4, Zenon
    <3> QED
      BY <3>2, <3>3, <3>5
  <2>2. sleep_returns /\ CURRENT_TASK = t
    BY <2>1, ZenonT(30) DEF Next, spawn_userspace, timer_tick, timer_switch, sleep_until,
                sleep_returns, syscall_yield, yield_returns, exit_current_task,
                replace_address_space, IInv, TypeOK
  <2>3. slept[t] >= ms_to_ticks(asked[t])
    BY <2>2 DEF sleep_returns, IInv, SchedulerInv
  <2>4. ms_to_ticks(asked[t]) \in Nat /\ ms_to_ticks(asked[t]) * MS_PER_TICK >= asked[t]
    BY <2>1, TicksRoundUp
  <2>5. slept[t] * MS_PER_TICK >= ms_to_ticks(asked[t]) * MS_PER_TICK
    <3>1. MS_PER_TICK \in Nat
      BY SchedulerAssumption
    <3> QED
      BY <2>1, <2>3, <2>4, <3>1, TicksInOrder, Zenon
  <2>6. slept[t] * MS_PER_TICK \in Nat /\ ms_to_ticks(asked[t]) * MS_PER_TICK \in Nat
    BY <2>1, <2>4, SchedulerAssumption
  <2> QED
    BY <2>1, <2>4, <2>5, <2>6
<1>2. Safety => []IInv
  BY InitIInv, NextIInv, PTL DEF Safety
<1> QED
  BY <1>1, <1>2, PTL DEF Safety, SleepsLongEnough
=============================================================================
