-------------------------- MODULE TaskMemoryProofs --------------------------
(***************************************************************************)
(* Tasks keep their frames to themselves, for every number of slots and    *)
(* frames, every size of program and every order of spawns, switches,      *)
(* exits and execve calls, up to the two events that upset names.          *)
(***************************************************************************)
EXTENDS TaskMemory, TLAPS

SpawnFrames == spawn.tabs \union spawn.data
Unrecorded(t) == spawn.step = "published" /\ spawn.slot = t

MemoryType ==
  /\ used \subseteq AllFrames
  /\ live \subseteq Slots
  /\ tabs \in [Slots -> SUBSET AllFrames]
  /\ data \in [Slots -> SUBSET AllFrames]
  /\ recorded \in [Slots -> SUBSET AllFrames]
  /\ spawn \in [step : {"idle", "built", "published"}, on : BOOLEAN, slot : Slots \union {0},
                tabs : SUBSET AllFrames, data : SUBSET AllFrames]
  /\ exec \in {"no", "freed"}
  /\ exec = "freed" => current \in live

\* What makes Isolation inductive: the frames of a spawn on its way belong to nobody else
\* either, what a slot records is the task's own unless its spawn has not come to that, and
\* the tables the processor walks are the kernel's or the current task's.
Owners ==
  /\ Kernel \subseteq used
  /\ \A t \in live : FramesOf(t) \subseteq used \ Kernel
  /\ \A t, u \in live : t # u => FramesOf(t) \intersect FramesOf(u) = {}
  /\ spawn.step = "built" =>
       /\ SpawnFrames \subseteq used \ Kernel
       /\ \A t \in live : FramesOf(t) \intersect SpawnFrames = {}
  /\ spawn.step = "published" =>
       /\ spawn.slot \in live
       /\ tabs[spawn.slot] = spawn.tabs /\ data[spawn.slot] = spawn.data
  /\ \A t \in live : recorded[t] \subseteq data[t] \/ Unrecorded(t)
  /\ exec = "freed" => recorded[current] = {} /\ ~Unrecorded(current)
  /\ exec = "no" => loaded = Kernel \/ (current \in live /\ loaded = tabs[current])

MemoryInv == MemoryType /\ (upset = "none" => Owners)

\* allocate_frame hands out frames that were free.
LEMMA LowestSubset ==
  ASSUME NEW S, NEW n
  PROVE  Lowest(S, n) \subseteq S
BY DEF Lowest

\* The frames of a new image are free ones, tables and data apart.
LEMMA NewFrames ==
  ASSUME NEW n
  PROVE  /\ NewTables \subseteq AllFrames \ used
         /\ NewData(n) \subseteq AllFrames \ used
         /\ NewTables \intersect NewData(n) = {}
<1>1. NewTables \subseteq Free
  BY LowestSubset DEF NewTables
<1>2. NewData(n) \subseteq Free
  BY LowestSubset DEF NewData
<1> QED
  BY <1>1, <1>2 DEF Free, NewData

\* The machine starts with the kernel's frames taken and no task.
LEMMA MemoryInit ==
  Init => MemoryInv
BY TaskMemoryAssumption
DEF Init, MemoryInv, MemoryType, Owners, Idle, AllFrames, FramesOf, Unrecorded

\* No step after which nothing is upset follows one after which something was.
LEMMA UpsetStays ==
  [Next]_vars /\ upset' = "none" => upset = "none"
<1> SUFFICES ASSUME [Next]_vars, upset' = "none" PROVE upset = "none"
  OBVIOUS
<1> USE DEF faults
<1>1. CASE \E who \in Spawners, on \in Interrupts, n \in Pages : spawn_build(who, on, n)
  BY <1>1 DEF spawn_build
<1>2. CASE spawn_publish \/ spawn_no_slot \/ spawn_record
  BY <1>2 DEF spawn_publish, spawn_no_slot, spawn_record
<1>3. CASE \E t \in Slots \union {0} : timer_switch(t)
  BY <1>3 DEF timer_switch
<1>4. CASE exit_current_task \/ exec_free
  BY <1>4 DEF exit_current_task, exec_free, Upset
<1>5. CASE \E n \in Pages : exec_build(n)
  BY <1>5 DEF exec_build
<1>6. CASE UNCHANGED vars
  BY <1>6 DEF vars
<1> QED
  BY <1>1, <1>2, <1>3, <1>4, <1>5, <1>6 DEF Next

\* Every action keeps the types, whatever was upset before.
LEMMA TypeStep ==
  MemoryType /\ [Next]_vars => MemoryType'
<1> SUFFICES ASSUME MemoryType, [Next]_vars PROVE MemoryType'
  OBVIOUS
<1> USE DEF MemoryType
<1>1. ASSUME NEW who \in Spawners, NEW on \in Interrupts, NEW n \in Pages,
             spawn_build(who, on, n)
      PROVE  MemoryType'
  <2>1. on \in BOOLEAN
    BY TaskMemoryAssumption
  <2>2. CASE create_user_page_tables(n)
    BY <1>1, <2>1, <2>2, NewFrames DEF spawn_build, create_user_page_tables, alloc_table_or_halt
  <2>3. CASE alloc_table_or_halt(n)
    BY <1>1, <2>3, NewFrames, <2>1 DEF spawn_build, create_user_page_tables, alloc_table_or_halt
  <2> QED
    BY <1>1, <2>2, <2>3 DEF spawn_build
<1>2. CASE spawn_publish
  <2>1. PICK i \in Slots \ live :
          /\ live' = live \union {i}
          /\ tabs' = [tabs EXCEPT ![i] = spawn.tabs]
          /\ data' = [data EXCEPT ![i] = spawn.data]
          /\ spawn' = [spawn EXCEPT !.step = "published", !.slot = i]
    BY <1>2 DEF spawn_publish
  <2>2. spawn' \in [step : {"idle", "built", "published"}, on : BOOLEAN,
                    slot : Slots \union {0}, tabs : SUBSET AllFrames, data : SUBSET AllFrames]
    BY <2>1
  <2> QED
    BY <1>2, <2>1, <2>2 DEF spawn_publish
<1>3. CASE spawn_no_slot
  BY <1>3 DEF spawn_no_slot, Idle
<1>4. CASE spawn_record
  <2>1. Lowest(spawn.data, MAX_USER_FRAMES) \subseteq AllFrames
    BY LowestSubset
  <2> QED
    BY <1>4, <2>1 DEF spawn_record, Idle
<1>5. ASSUME NEW t \in Slots \union {0}, timer_switch(t)
      PROVE  MemoryType'
  BY <1>5 DEF timer_switch
<1>6. CASE exit_current_task
  BY <1>6 DEF exit_current_task
<1>7. CASE exec_free
  BY <1>7 DEF exec_free
<1>8. ASSUME NEW n \in Pages, exec_build(n)
      PROVE  MemoryType'
  <2>1. CASE create_user_page_tables(n)
    <3>1. \A k : Lowest(Lowest(NewData(n), n), k) \subseteq NewData(n)
      BY LowestSubset
    <3> QED
      BY <1>8, <2>1, <3>1, NewFrames DEF exec_build, create_user_page_tables, alloc_table_or_halt
  <2>2. CASE alloc_table_or_halt(n)
    BY <1>8, <2>2 DEF exec_build, create_user_page_tables, alloc_table_or_halt
  <2> QED
    BY <1>8, <2>1, <2>2 DEF exec_build
<1>9. CASE UNCHANGED vars
  BY <1>9 DEF vars
<1> QED
  BY <1>1, <1>2, <1>3, <1>4, <1>5, <1>6, <1>7, <1>8, <1>9 DEF Next

\* A spawn takes free frames, publishes them in a free slot, records them.
LEMMA SpawnStep ==
  ASSUME MemoryType, Owners,
         \/ \E who \in Spawners, on \in Interrupts, n \in Pages : spawn_build(who, on, n)
         \/ spawn_publish \/ spawn_no_slot \/ spawn_record
  PROVE  Owners'
<1> USE DEF MemoryType
<1>1. ASSUME NEW who \in Spawners, NEW on \in Interrupts, NEW n \in Pages,
             spawn_build(who, on, n)
      PROVE  Owners'
  <2>1. \A t \in live : FramesOf(t)' = FramesOf(t)
    BY <1>1 DEF spawn_build, FramesOf
  <2>2. used \subseteq used'
    BY <1>1 DEF spawn_build, create_user_page_tables, alloc_table_or_halt
  <2>3. CASE create_user_page_tables(n)
    <3>1. spawn'.step = "built" /\ SpawnFrames' = NewTables \union NewData(n)
      BY <1>1, <2>3 DEF spawn_build, create_user_page_tables, alloc_table_or_halt, SpawnFrames
    <3>2. SpawnFrames' \subseteq used' /\ SpawnFrames' \intersect used = {}
      BY <2>3, <3>1, NewFrames DEF create_user_page_tables
    <3>3. spawn = Idle /\ \A t : ~Unrecorded(t)
      BY <1>1 DEF spawn_build, Idle, Unrecorded
    <3> QED
      BY <1>1, <2>1, <2>2, <3>1, <3>2, <3>3 DEF Owners, spawn_build, Unrecorded
  <2>4. CASE alloc_table_or_halt(n)
    <3>1. spawn' = spawn
      BY <1>1, <2>4 DEF spawn_build, create_user_page_tables, alloc_table_or_halt
    <3>2. SpawnFrames' = SpawnFrames /\ \A t : Unrecorded(t)' = Unrecorded(t)
      BY <3>1 DEF SpawnFrames, Unrecorded
    <3>3. /\ live' = live /\ tabs' = tabs /\ data' = data /\ recorded' = recorded
          /\ loaded' = loaded /\ exec' = exec /\ current' = current
      BY <1>1 DEF spawn_build
    <3> QED
      BY <2>1, <2>2, <3>1, <3>2, <3>3 DEF Owners
  <2> QED
    BY <1>1, <2>3, <2>4 DEF spawn_build
<1>2. CASE spawn_publish
  <2>1. PICK i \in Slots \ live :
          /\ live' = live \union {i}
          /\ tabs' = [tabs EXCEPT ![i] = spawn.tabs]
          /\ data' = [data EXCEPT ![i] = spawn.data]
          /\ spawn' = [spawn EXCEPT !.step = "published", !.slot = i]
    BY <1>2 DEF spawn_publish
  <2>2. spawn.step = "built" /\ current = 0 /\ current \notin live
    BY <1>2, TaskMemoryAssumption DEF spawn_publish
  <2>3. spawn'.step = "published" /\ spawn'.slot = i /\ spawn'.data = spawn.data
    BY <2>1
  <2>4. exec = "no" /\ exec' = "no"
    BY <1>2, <2>2 DEF spawn_publish
  <2>5. \A t \in live : FramesOf(t)' = FramesOf(t)
    BY <2>1, <2>4 DEF FramesOf
  <2>6. FramesOf(i)' = SpawnFrames
    BY <2>1, <2>4 DEF FramesOf, SpawnFrames
  <2>7. /\ \A t \in live' : FramesOf(t)' \subseteq used' \ Kernel
        /\ \A t, u \in live' : t # u => FramesOf(t)' \intersect FramesOf(u)' = {}
    <3>1. used' = used /\ live' = live \union {i}
      BY <1>2, <2>1 DEF spawn_publish
    <3>2. /\ SpawnFrames \subseteq used \ Kernel
          /\ \A t \in live : FramesOf(t) \subseteq used \ Kernel
          /\ \A t \in live : FramesOf(t) \intersect SpawnFrames = {}
          /\ \A t, u \in live : t # u => FramesOf(t) \intersect FramesOf(u) = {}
      BY <2>2 DEF Owners
    <3>3. \A t \in live' : FramesOf(t)' \subseteq used' \ Kernel
      BY <2>5, <2>6, <3>1, <3>2
    <3>4. ASSUME NEW t \in live', NEW u \in live', t # u
          PROVE  FramesOf(t)' \intersect FramesOf(u)' = {}
      <4>1. CASE t = i
        BY <2>5, <2>6, <3>1, <3>2, <3>4, <4>1
      <4>2. CASE u = i
        BY <2>5, <2>6, <3>1, <3>2, <3>4, <4>2
      <4> QED
        BY <2>5, <3>1, <3>2, <3>4, <4>1, <4>2
    <3> QED
      BY <3>3, <3>4
  <2>8. \A t \in live' : recorded'[t] \subseteq data'[t] \/ Unrecorded(t)'
    BY <1>2, <2>1, <2>2, <2>3 DEF Owners, spawn_publish, Unrecorded
  <2>9. /\ Kernel \subseteq used'
        /\ loaded' = Kernel
    BY <1>2, <2>2, <2>4 DEF Owners, spawn_publish
  <2>10. /\ spawn'.slot \in live'
         /\ tabs'[spawn'.slot] = spawn'.tabs /\ data'[spawn'.slot] = spawn'.data
    BY <2>1, <2>3
  <2> QED
    BY <2>3, <2>4, <2>7, <2>8, <2>9, <2>10 DEF Owners
<1>3. CASE spawn_no_slot
  <2>1. \A t : ~Unrecorded(t) /\ ~Unrecorded(t)'
    BY <1>3 DEF spawn_no_slot, Unrecorded, Idle
  <2> QED
    BY <1>3, <2>1 DEF Owners, spawn_no_slot, FramesOf, Idle
<1>4. CASE spawn_record
  <2>1. spawn'.step = "idle" /\ \A t : ~Unrecorded(t)'
    BY <1>4 DEF spawn_record, Unrecorded, Idle
  <2>2. Lowest(spawn.data, MAX_USER_FRAMES) \subseteq data[spawn.slot]
    BY <1>4, LowestSubset DEF Owners, spawn_record
  <2>3. \A t \in live' : recorded'[t] \subseteq data'[t]
    BY <1>4, <2>2 DEF Owners, spawn_record, Unrecorded
  <2>4. exec = "no"
    BY <1>4, TaskMemoryAssumption DEF spawn_record
  <2> QED
    BY <1>4, <2>1, <2>3, <2>4 DEF Owners, spawn_record, FramesOf
<1> QED
  BY <1>1, <1>2, <1>3, <1>4

\* An exit or an execve that upsets nothing frees only frames of the current task.
LEMMA FreesOwn ==
  ASSUME MemoryType, Owners, upset' = "none", Upset, current \in live, exec = "no"
  PROVE  /\ recorded[current] \union free_user_page_tables(current) \subseteq FramesOf(current)
         /\ ~Unrecorded(current)
<1>1. kernel_pts = {} /\ ~Unrecorded(current)
  BY DEF Upset, Unrecorded
<1> QED
  BY <1>1 DEF Owners, FramesOf, free_user_page_tables

\* The other steps: switches, exits and execve.
LEMMA TaskStep ==
  ASSUME MemoryType, Owners, upset' = "none",
         \/ \E t \in Slots \union {0} : timer_switch(t)
         \/ exit_current_task \/ exec_free
         \/ \E n \in Pages : exec_build(n)
  PROVE  Owners'
<1> USE DEF MemoryType
<1>1. ASSUME NEW t \in Slots \union {0}, timer_switch(t)
      PROVE  Owners'
  <2>1. loaded' = Kernel \/ (current' \in live' /\ loaded' = tabs'[current'])
    BY <1>1 DEF timer_switch
  <2> QED
    BY <1>1, <2>1 DEF Owners, timer_switch, FramesOf, SpawnFrames, Unrecorded
<1>2. CASE exit_current_task
  <2>1. current \in live /\ exec = "no" /\ Upset
    BY <1>2 DEF exit_current_task
  <2>2. used \ FramesOf(current) \subseteq used' /\ used' \subseteq used
    BY <1>2, <2>1, FreesOwn DEF exit_current_task
  <2>3. ~Unrecorded(current)
    BY <2>1, FreesOwn
  <2>4. \A t \in live' : t \in live /\ t # current /\ FramesOf(t)' = FramesOf(t)
    BY <1>2, <2>1 DEF exit_current_task, FramesOf
  <2>5. spawn' = spawn /\ SpawnFrames' = SpawnFrames /\ \A t : Unrecorded(t)' = Unrecorded(t)
    BY <1>2 DEF exit_current_task, SpawnFrames, Unrecorded
  <2>6. /\ Kernel \subseteq used'
        /\ \A t \in live' : FramesOf(t)' \subseteq used' \ Kernel
    BY <2>1, <2>2, <2>4 DEF Owners
  <2>7. spawn'.step = "built" =>
          /\ SpawnFrames' \subseteq used' \ Kernel
          /\ \A t \in live' : FramesOf(t)' \intersect SpawnFrames' = {}
    BY <2>1, <2>2, <2>4, <2>5 DEF Owners
  <2>8. spawn'.step = "published" => spawn'.slot \in live' /\ data'[spawn'.slot] = spawn'.data
    BY <1>2, <2>1, <2>3, <2>5 DEF Owners, exit_current_task, Unrecorded
  <2>9. \A t \in live' : recorded'[t] \subseteq data'[t] \/ Unrecorded(t)'
    BY <1>2, <2>4, <2>5 DEF Owners, exit_current_task
  <2> QED
    BY <1>2, <2>1, <2>4, <2>6, <2>7, <2>8, <2>9 DEF Owners, exit_current_task
<1>3. CASE exec_free
  <2>1. current \in live /\ exec = "no" /\ Upset /\ current' = current
    BY <1>3 DEF exec_free
  <2>2. used \ FramesOf(current) \subseteq used' /\ used' \subseteq used
    BY <1>3, <2>1, FreesOwn DEF exec_free
  <2>3. ~Unrecorded(current)
    BY <2>1, FreesOwn
  <2>4. FramesOf(current)' = {} /\ \A t \in live \ {current} : FramesOf(t)' = FramesOf(t)
    BY <1>3, <2>1 DEF exec_free, FramesOf
  <2>5. spawn' = spawn /\ SpawnFrames' = SpawnFrames /\ \A t : Unrecorded(t)' = Unrecorded(t)
    BY <1>3 DEF exec_free, SpawnFrames, Unrecorded
  <2>6. /\ Kernel \subseteq used'
        /\ \A t \in live : FramesOf(t)' \subseteq used' \ Kernel
        /\ \A t, u \in live : t # u => FramesOf(t)' \intersect FramesOf(u)' = {}
    BY <2>1, <2>2, <2>4 DEF Owners
  <2>7. spawn'.step = "built" =>
          /\ SpawnFrames' \subseteq used' \ Kernel
          /\ \A t \in live : FramesOf(t)' \intersect SpawnFrames' = {}
    <3>1. \A t \in live : FramesOf(t)' \subseteq FramesOf(t)
      BY <2>1, <2>4
    <3>2. spawn'.step = spawn.step /\ SpawnFrames' = SpawnFrames
      BY <2>5
    <3>3. ASSUME spawn.step = "built" PROVE SpawnFrames \subseteq used' \ Kernel
      <4>1. /\ SpawnFrames \subseteq used \ Kernel
            /\ FramesOf(current) \intersect SpawnFrames = {}
        BY <2>1, <3>3 DEF Owners
      <4> QED
        BY <2>2, <4>1
    <3>4. ASSUME spawn.step = "built", NEW t \in live
          PROVE  FramesOf(t)' \intersect SpawnFrames = {}
      BY <3>1, <3>4 DEF Owners
    <3> QED
      BY <3>2, <3>3, <3>4
  <2>8. recorded'[current] = {} /\ \A t \in live \ {current} : recorded'[t] = recorded[t]
    BY <1>3, <2>1 DEF exec_free
  <2>9. \A t \in live : recorded'[t] \subseteq data[t] \/ Unrecorded(t)
    BY <2>1, <2>8 DEF Owners
  <2> QED
    BY <1>3, <2>3, <2>5, <2>6, <2>7, <2>8, <2>9 DEF Owners, exec_free
<1>4. ASSUME NEW n \in Pages, exec_build(n)
      PROVE  Owners'
  <2>1. exec = "freed" /\ current \in live /\ current' = current /\ live' = live
    BY <1>4 DEF exec_build
  <2>2. spawn' = spawn /\ SpawnFrames' = SpawnFrames /\ \A t : Unrecorded(t)' = Unrecorded(t)
    BY <1>4 DEF exec_build, SpawnFrames, Unrecorded
  <2>3. CASE create_user_page_tables(n)
    <3>1. /\ tabs' = [tabs EXCEPT ![current] = NewTables]
          /\ data' = [data EXCEPT ![current] = NewData(n)]
          /\ recorded' = [recorded EXCEPT ![current] =
                            @ \union Lowest(Lowest(NewData(n), n),
                                            MAX_USER_FRAMES - Cardinality(@))]
          /\ loaded' = NewTables
          /\ exec' = "no"
          /\ used' = used \union NewTables \union NewData(n)
      BY <1>4, <2>3 DEF exec_build, create_user_page_tables, alloc_table_or_halt
    <3>2. /\ FramesOf(current)' = NewTables \union NewData(n)
          /\ \A t \in live \ {current} : FramesOf(t)' = FramesOf(t)
      BY <2>1, <3>1 DEF FramesOf
    <3>3. FramesOf(current)' \subseteq used' /\ FramesOf(current)' \intersect used = {}
      BY <3>1, <3>2, NewFrames
    <3>4. /\ Kernel \subseteq used'
          /\ \A t \in live : FramesOf(t)' \subseteq used' \ Kernel
          /\ \A t, u \in live : t # u => FramesOf(t)' \intersect FramesOf(u)' = {}
      <4>1. Kernel \subseteq used' /\ \A t \in live : FramesOf(t)' \subseteq used' \ Kernel
        BY <2>1, <3>1, <3>2, <3>3 DEF Owners
      <4>2. \A t \in live \ {current} : FramesOf(t)' \subseteq used
        BY <3>2 DEF Owners
      <4>3. \A t, u \in live : t # u => FramesOf(t)' \intersect FramesOf(u)' = {}
        BY <2>1, <3>2, <3>3, <4>2 DEF Owners
      <4> QED
        BY <4>1, <4>3
    <3>5. spawn'.step = "built" =>
            /\ SpawnFrames' \subseteq used' \ Kernel
            /\ \A t \in live : FramesOf(t)' \intersect SpawnFrames' = {}
      BY <2>1, <2>2, <3>1, <3>2, <3>3 DEF Owners
    <3>6. recorded'[current] \subseteq NewData(n)
      BY <2>1, <3>1, LowestSubset DEF Owners
    <3>7. \A t \in live : recorded'[t] \subseteq data'[t] \/ Unrecorded(t)'
      BY <2>1, <2>2, <3>1, <3>6 DEF Owners
    <3>8. spawn'.step = "published" =>
            /\ spawn'.slot \in live
            /\ tabs'[spawn'.slot] = spawn'.tabs /\ data'[spawn'.slot] = spawn'.data
      BY <2>1, <2>2, <3>1 DEF Owners, Unrecorded
    <3>9. loaded' = tabs'[current]
      BY <2>1, <3>1
    <3> QED
      BY <2>1, <3>1, <3>4, <3>5, <3>7, <3>8, <3>9 DEF Owners
  <2>4. CASE alloc_table_or_halt(n)
    <3>1. /\ UNCHANGED <<tabs, data, recorded, loaded, exec>>
          /\ used \subseteq used'
      BY <1>4, <2>4 DEF exec_build, create_user_page_tables, alloc_table_or_halt
    <3>2. \A t \in live : FramesOf(t)' = FramesOf(t)
      BY <2>1, <3>1 DEF FramesOf
    <3> QED
      BY <2>1, <2>2, <3>1, <3>2 DEF Owners
  <2> QED
    BY <1>4, <2>3, <2>4 DEF exec_build
<1> QED
  BY <1>1, <1>2, <1>3, <1>4

\* The ownership invariant, for every value of the constants.
THEOREM MemoryInvariant ==
  Spec => []MemoryInv
<1>1. MemoryInv /\ [Next]_vars => MemoryInv'
  <2> SUFFICES ASSUME MemoryInv, [Next]_vars PROVE MemoryInv'
    OBVIOUS
  <2>1. MemoryType'
    BY TypeStep DEF MemoryInv
  <2>2. ASSUME upset' = "none" PROVE Owners'
    <3>1. MemoryType /\ Owners
      BY <2>2, UpsetStays DEF MemoryInv
    <3>2. CASE UNCHANGED vars
      <4>1. /\ used' = used /\ live' = live /\ tabs' = tabs /\ data' = data
            /\ recorded' = recorded /\ spawn' = spawn /\ current' = current
            /\ exec' = exec /\ loaded' = loaded
        BY <3>2 DEF vars
      <4>2. /\ SpawnFrames' = SpawnFrames
            /\ \A t : FramesOf(t)' = FramesOf(t) /\ Unrecorded(t)' = Unrecorded(t)
        BY <4>1 DEF FramesOf, SpawnFrames, Unrecorded
      <4>3. Unrecorded(current)' = Unrecorded(current)
        BY <4>1 DEF Unrecorded
      <4> QED
        BY <3>1, <4>1, <4>2, <4>3, Zenon DEF Owners
    <3> QED
      BY <2>2, <3>1, <3>2, SpawnStep, TaskStep DEF Next
  <2> QED
    BY <2>1, <2>2 DEF MemoryInv
<1> QED
  BY <1>1, MemoryInit, PTL DEF Spec

\* No frame of a live task is free, another task's or the kernel's (spawn_userspace,
\* exit_current_task, replace_address_space).
THEOREM TasksKeepFrames ==
  Spec => []Isolation
<1>1. MemoryInv => Isolation
  BY DEF MemoryInv, Owners, Isolation
<1> QED
  BY <1>1, MemoryInvariant, PTL

\* Outside execve CR3 holds tables that are in use (exit_current_task switches to the
\* kernel's before it frees).
THEOREM WalkedTablesInUse ==
  Spec => []LoadedTablesLive
<1>1. MemoryInv => LoadedTablesLive
  BY DEF MemoryInv, Owners, LoadedTablesLive, FramesOf
<1> QED
  BY <1>1, MemoryInvariant, PTL

-----------------------------------------------------------------------------
\* The kernel's frames that no step may free: all of them until a kernel page table was.
Untouchable == IF upset = "kernel_pt" THEN Kernel \ kernel_pts ELSE Kernel

\* What makes KernelKept inductive: no task, no record and no spawn on its way has such a
\* frame, also after the events that end Isolation.
KernelInv ==
  /\ upset = "kernel_pt" => kernel_pts # {}
  /\ Untouchable \subseteq used
  /\ \A t \in Slots : (tabs[t] \union data[t] \union recorded[t]) \intersect Untouchable = {}
  /\ SpawnFrames \intersect Untouchable = {}

\* Frames handed out were free, so they are none of those.
LEMMA KernelBuild ==
  ASSUME MemoryType, KernelInv, NEW n
  PROVE  (NewTables \union NewData(n)) \intersect Untouchable = {}
BY NewFrames DEF KernelInv

\* The spawn then holds the new image, or has come to nothing.
LEMMA BuildFrames ==
  ASSUME NEW who, NEW on, NEW n, spawn_build(who, on, n)
  PROVE  SpawnFrames' = SpawnFrames \/ SpawnFrames' = NewTables \union NewData(n)
<1>1. \/ spawn' = [step |-> "built", on |-> on, slot |-> 0,
                  tabs |-> NewTables, data |-> NewData(n)]
      \/ spawn' = spawn
  BY DEF spawn_build
<1>2. CASE spawn' = spawn
  BY <1>2 DEF SpawnFrames
<1>3. CASE spawn' # spawn
  BY <1>1, <1>3 DEF SpawnFrames
<1> QED
  BY <1>2, <1>3

LEMMA KernelStep ==
  ASSUME MemoryType, KernelInv, [Next]_vars
  PROVE  KernelInv'
<1> USE DEF MemoryType, KernelInv, faults
<1>1. ASSUME NEW who \in Spawners, NEW on \in Interrupts, NEW n \in Pages,
             spawn_build(who, on, n)
      PROVE  KernelInv'
  <2>1. /\ upset' = upset /\ kernel_pts' = kernel_pts /\ used \subseteq used'
        /\ tabs' = tabs /\ data' = data /\ recorded' = recorded
        /\ SpawnFrames' = SpawnFrames \/ SpawnFrames' = NewTables \union NewData(n)
    <3>1. used \subseteq used'
      BY <1>1 DEF spawn_build, create_user_page_tables, alloc_table_or_halt
    <3>2. SpawnFrames' = SpawnFrames \/ SpawnFrames' = NewTables \union NewData(n)
      BY <1>1, BuildFrames
    <3> QED
      BY <1>1, <3>1, <3>2 DEF spawn_build
  <2> QED
    BY <2>1, KernelBuild DEF Untouchable
<1>2. CASE spawn_publish
  <2>1. PICK i \in Slots \ live :
          /\ tabs' = [tabs EXCEPT ![i] = spawn.tabs]
          /\ data' = [data EXCEPT ![i] = spawn.data]
          /\ spawn' = [spawn EXCEPT !.step = "published", !.slot = i]
    BY <1>2 DEF spawn_publish
  <2>2. SpawnFrames' = SpawnFrames
    BY <2>1 DEF SpawnFrames
  <2>3. \A t \in Slots : tabs'[t] \subseteq tabs[t] \union SpawnFrames
                        /\ data'[t] \subseteq data[t] \union SpawnFrames
    BY <2>1 DEF SpawnFrames
  <2> QED
    BY <1>2, <2>2, <2>3 DEF spawn_publish, Untouchable
<1>3. CASE spawn_no_slot
  BY <1>3 DEF spawn_no_slot, Untouchable, SpawnFrames, Idle
<1>4. CASE spawn_record
  <2>1. SpawnFrames' = {}
    BY <1>4 DEF spawn_record, SpawnFrames, Idle
  <2>2. \A t \in Slots : recorded'[t] \subseteq recorded[t] \union SpawnFrames
    BY <1>4, LowestSubset DEF spawn_record, SpawnFrames
  <2> QED
    BY <1>4, <2>1, <2>2 DEF spawn_record, Untouchable
<1>5. ASSUME NEW t \in Slots \union {0}, timer_switch(t)
      PROVE  KernelInv'
  BY <1>5 DEF timer_switch, Untouchable, SpawnFrames
<1>6. CASE exit_current_task \/ exec_free
  <2>1. /\ used' = used \ (recorded[current] \union tabs[current] \union kernel_pts)
        /\ Upset /\ kernel_pts' = kernel_pts /\ spawn' = spawn /\ current \in Slots
    BY <1>6 DEF exit_current_task, exec_free, free_user_page_tables
  <2>2. \A t \in Slots : /\ tabs'[t] \subseteq tabs[t] /\ data'[t] \subseteq data[t]
                         /\ recorded'[t] \subseteq recorded[t]
    BY <1>6 DEF exit_current_task, exec_free
  <2>3. /\ upset' = "kernel_pt" => kernel_pts # {}
        /\ Untouchable' \subseteq Untouchable /\ Untouchable' \intersect kernel_pts = {}
    BY <2>1 DEF Upset, Untouchable
  <2>4. Untouchable' \subseteq used'
    BY <2>1, <2>3
  <2>5. SpawnFrames' = SpawnFrames
    BY <2>1 DEF SpawnFrames
  <2> QED
    BY <2>1, <2>2, <2>3, <2>4, <2>5
<1>7. ASSUME NEW n \in Pages, exec_build(n)
      PROVE  KernelInv'
  <2>1. /\ upset' = upset /\ kernel_pts' = kernel_pts /\ spawn' = spawn
        /\ current \in Slots
    BY <1>7 DEF exec_build
  <2>2. used \subseteq used'
    BY <1>7 DEF exec_build, create_user_page_tables, alloc_table_or_halt
  <2>3. \A k : Lowest(Lowest(NewData(n), n), k) \subseteq NewData(n)
    BY LowestSubset
  <2>4. \A t \in Slots : /\ tabs'[t] \subseteq tabs[t] \union NewTables
                         /\ data'[t] \subseteq data[t] \union NewData(n)
                         /\ recorded'[t] \subseteq recorded[t] \union NewData(n)
    BY <1>7, <2>1, <2>3 DEF exec_build
  <2>5. Untouchable' = Untouchable /\ SpawnFrames' = SpawnFrames
    BY <2>1 DEF Untouchable, SpawnFrames
  <2> QED
    BY <2>1, <2>2, <2>4, <2>5, KernelBuild
<1>8. CASE UNCHANGED vars
  BY <1>8 DEF vars, Untouchable, SpawnFrames
<1> QED
  BY <1>1, <1>2, <1>3, <1>4, <1>5, <1>6, <1>7, <1>8 DEF Next

\* No exit, fault or execve frees a frame of the kernel, in any behaviour, but the page
\* tables that free_user_page_tables meets below the copied kernel entries.
THEOREM KernelFramesKept ==
  Spec => []KernelKept
<1>1. Init => MemoryType /\ KernelInv
  <2> SUFFICES ASSUME Init PROVE MemoryType /\ KernelInv
    OBVIOUS
  <2>1. MemoryType
    BY MemoryInit DEF MemoryInv
  <2>2. Untouchable = Kernel /\ SpawnFrames = {}
    BY DEF Init, Untouchable, SpawnFrames, Idle
  <2> QED
    BY <2>1, <2>2 DEF Init, KernelInv
<1>2. MemoryType /\ KernelInv /\ [Next]_vars => MemoryType' /\ KernelInv'
  BY TypeStep, KernelStep
<1>3. KernelInv => KernelKept
  BY DEF KernelInv, KernelKept, Untouchable
<1> QED
  BY <1>1, <1>2, <1>3, PTL DEF Spec

-----------------------------------------------------------------------------
\* The used frames that somebody answers for.
Owned == Kernel \union (UNION {FramesOf(t) : t \in live}) \union SpawnFrames

\* A step leaks what it takes without owning it and what it keeps without owning it any more.
LEMMA LeakedByStep ==
  ASSUME used' \ used \subseteq Owned', Owned \intersect used' \subseteq Owned' \union Unnamed
  PROVE  Leaked' \ Leaked \subseteq Unnamed
<1>1. Leaked = used \ Owned /\ Leaked' = used' \ Owned'
  BY DEF Leaked, Owned, SpawnFrames
<1> QED
  BY <1>1

\* Who stays and keeps its frames still answers for them.
LEMMA StillOwned ==
  ASSUME live' = live, \A t \in live : FramesOf(t)' = FramesOf(t)
  PROVE  Owned \subseteq Owned' \union SpawnFrames /\ SpawnFrames' \subseteq Owned'
<1>1. ASSUME NEW f \in Owned, f \notin SpawnFrames
      PROVE  f \in Owned'
  <2>1. CASE f \in Kernel
    BY <2>1 DEF Owned
  <2>2. ASSUME NEW t \in live, f \in FramesOf(t)
        PROVE  f \in Owned'
    <3>1. t \in live' /\ f \in FramesOf(t)'
      BY <2>2
    <3> QED
      BY <3>1 DEF Owned
  <2> QED
    BY <1>1, <2>1, <2>2 DEF Owned
<1> QED
  BY <1>1 DEF Owned

LEMMA SpawnLeaks ==
  ASSUME MemoryType, Owners, ~halted',
         \/ \E who \in Spawners, on \in Interrupts, n \in Pages : spawn_build(who, on, n)
         \/ spawn_publish \/ spawn_no_slot \/ spawn_record
  PROVE  Leaked' \ Leaked \subseteq Unnamed
<1> USE DEF MemoryType
<1>1. ASSUME NEW who \in Spawners, NEW on \in Interrupts, NEW n \in Pages,
             spawn_build(who, on, n)
      PROVE  Leaked' \ Leaked \subseteq Unnamed
  <2>1. /\ used' = used \union NewTables \union NewData(n)
        /\ SpawnFrames' = NewTables \union NewData(n) /\ SpawnFrames = {}
    <3>1. /\ create_user_page_tables(n) /\ spawn = Idle
          /\ spawn' = [step |-> "built", on |-> on, slot |-> 0,
                       tabs |-> NewTables, data |-> NewData(n)]
      BY <1>1 DEF spawn_build, alloc_table_or_halt
    <3> QED
      BY <3>1 DEF create_user_page_tables, SpawnFrames, Idle
  <2>2. live' = live /\ \A t \in live : FramesOf(t)' = FramesOf(t)
    BY <1>1 DEF spawn_build, FramesOf
  <2>3. Owned \intersect used' \subseteq Owned' \union Unnamed
    BY <2>1, <2>2, StillOwned
  <2> QED
    BY <2>1, <2>2, <2>3, StillOwned, LeakedByStep
<1>2. CASE spawn_publish
  <2>1. used' = used /\ SpawnFrames' = SpawnFrames /\ live \subseteq live'
    BY <1>2 DEF spawn_publish, SpawnFrames
  <2>2. \A t \in live : FramesOf(t)' = FramesOf(t)
    BY <1>2 DEF spawn_publish, FramesOf
  <2>3. Owned \intersect used' \subseteq Owned' \union Unnamed
    BY <2>1, <2>2 DEF Owned
  <2> QED
    BY <2>1, <2>3, LeakedByStep DEF Owned
<1>3. CASE spawn_no_slot
  <2>1. used' = used /\ live' = live /\ SpawnFrames \subseteq Unnamed
    BY <1>3 DEF spawn_no_slot, SpawnFrames, Unnamed
  <2>2. \A t \in live : FramesOf(t)' = FramesOf(t)
    BY <1>3 DEF spawn_no_slot, FramesOf
  <2>3. Owned \intersect used' \subseteq Owned' \union Unnamed
    BY <2>1, <2>2, StillOwned
  <2> QED
    BY <2>1, <2>3, LeakedByStep DEF Owned
<1>4. CASE spawn_record
  <2>1. used' = used /\ live' = live /\ \E i \in live : SpawnFrames = FramesOf(i)
    BY <1>4, TaskMemoryAssumption DEF Owners, spawn_record, SpawnFrames, FramesOf
  <2>2. \A t \in live : FramesOf(t)' = FramesOf(t)
    BY <1>4 DEF spawn_record, FramesOf
  <2>3. \A i \in live : FramesOf(i)' \subseteq Owned'
    BY <2>1 DEF Owned
  <2>4. Owned \intersect used' \subseteq Owned' \union Unnamed
    BY <2>1, <2>2, <2>3, StillOwned
  <2> QED
    BY <2>1, <2>4, LeakedByStep
<1> QED
  BY <1>1, <1>2, <1>3, <1>4

LEMMA TaskLeaks ==
  ASSUME MemoryType, Owners, ~halted',
         \/ \E t \in Slots \union {0} : timer_switch(t)
         \/ exit_current_task \/ exec_free
         \/ \E n \in Pages : exec_build(n)
  PROVE  Leaked' \ Leaked \subseteq Unnamed
<1> USE DEF MemoryType
<1>1. ASSUME NEW t \in Slots \union {0}, timer_switch(t)
      PROVE  Leaked' \ Leaked \subseteq Unnamed
  <2>1. used' = used /\ live' = live /\ SpawnFrames' = SpawnFrames
    BY <1>1 DEF timer_switch, SpawnFrames
  <2>2. \A u \in live : FramesOf(u)' = FramesOf(u)
    BY <1>1 DEF timer_switch, FramesOf
  <2>3. Owned \intersect used' \subseteq Owned' \union Unnamed
    BY <2>1, <2>2 DEF Owned
  <2> QED
    BY <2>1, <2>3, LeakedByStep DEF Owned
<1>2. CASE exit_current_task \/ exec_free
  <2>1. /\ used' \subseteq used \ (recorded[current] \union tabs[current])
        /\ SpawnFrames' = SpawnFrames /\ current \in live
    BY <1>2 DEF exit_current_task, exec_free, free_user_page_tables, SpawnFrames
  <2>2. FramesOf(current) = tabs[current] \union data[current]
    BY <1>2 DEF exit_current_task, exec_free, FramesOf
  <2>3. FramesOf(current) \intersect used' \subseteq Unnamed
    BY <2>1, <2>2 DEF Unnamed
  <2>4. \A t \in live \ {current} : t \in live' /\ FramesOf(t)' = FramesOf(t)
    BY <1>2 DEF exit_current_task, exec_free, FramesOf
  <2> QED
    BY <2>1, <2>3, <2>4, LeakedByStep DEF Owned
<1>3. ASSUME NEW n \in Pages, exec_build(n)
      PROVE  Leaked' \ Leaked \subseteq Unnamed
  <2>1. /\ used' = used \union NewTables \union NewData(n)
        /\ SpawnFrames' = SpawnFrames /\ live' = live /\ current \in live
    BY <1>3 DEF exec_build, create_user_page_tables, alloc_table_or_halt, SpawnFrames
  <2>2. FramesOf(current)' = NewTables \union NewData(n) /\ current' = current
    BY <1>3, <2>1 DEF exec_build, FramesOf, alloc_table_or_halt
  <2>3. FramesOf(current) = {}
    BY <1>3 DEF exec_build, FramesOf
  <2>4. \A t \in live \ {current} : FramesOf(t)' = FramesOf(t)
    BY <1>3 DEF exec_build, FramesOf, alloc_table_or_halt
  <2>5. NewTables \union NewData(n) \subseteq Owned'
    BY <2>1, <2>2 DEF Owned
  <2> QED
    BY <2>1, <2>3, <2>4, <2>5, LeakedByStep DEF Owned
<1> QED
  BY <1>1, <1>2, <1>3

\* Every frame that an exit, a fault, an execve or a spawn leaves behind is one that nothing
\* names: the image create_process found no slot for, or a data frame that the task's slot
\* had no room, or no entry, for.
THEOREM LeaksAreUnrecorded ==
  Spec => LeaksOnlyUnrecorded
<1>1. MemoryInv /\ [Next]_vars
        => [upset = "none" /\ ~halted' => Leaked' \ Leaked \subseteq Unnamed]_vars
  <2> SUFFICES ASSUME MemoryInv, [Next]_vars, vars' # vars, upset = "none", ~halted'
               PROVE  Leaked' \ Leaked \subseteq Unnamed
    OBVIOUS
  <2> QED
    BY SpawnLeaks, TaskLeaks DEF MemoryInv, Next
<1> QED
  BY <1>1, MemoryInvariant, PTL DEF Spec, LeaksOnlyUnrecorded
=============================================================================
