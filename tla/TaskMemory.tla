----------------------------- MODULE TaskMemory -----------------------------
(***************************************************************************)
(* Who owns which physical frame while user tasks come and go: the page    *)
(* tables built and freed by paging.rs, the data frames that task.rs       *)
(* records in a task's slot, and the exits, faults and execve calls that   *)
(* give them back.                                                         *)
(*                                                                         *)
(*   used          frames marked in the bitmap                             *)
(*   current       CURRENT_TASK                                            *)
(*   live          slots in use                                            *)
(*   tabs[t]       table frames below t's page_table_root, root included   *)
(*   data[t]       data frames those tables map for t                      *)
(*   recorded[t]   user_data_frames[0 .. user_data_frame_count] of slot t; *)
(*                 exit does not reset it                                  *)
(*   loaded        the table frames the processor walks (CR3)              *)
(*   spawn         kernel_main's progress in a spawn: its step, whether    *)
(*                 interrupts are on, the tables and data frames built,    *)
(*                 the slot                                                *)
(*   exec          the current task's progress in replace_address_space    *)
(*   halted        alloc_table_or_halt found no frame                      *)
(*   kernel_pts    the kernel's page tables that its PDs point at          *)
(*   upset         "none", or the exit or execve that freed what it should *)
(*                 not: "kernel_pt" those tables, "early" what the slot's  *)
(*                 previous occupant had recorded                          *)
(*                                                                         *)
(* A hierarchy of NT tables stands for PML4, PDPT, PDs and PTs.  All       *)
(* frames lie in one bitmap word, where allocate_frame returns the lowest  *)
(* free one.  Scheduling is any choice among live tasks; segments are page *)
(* aligned.                                                                *)
(***************************************************************************)
EXTENDS Naturals, FiniteSets

CONSTANTS
  Slots,            \* task slots 1 .. MAX_TASKS - 1
  MAX_FRAMES,       \* frames the allocator manages
  Kernel,           \* frames of the kernel and its own tables
  KernelPTs,        \* those of Kernel that map_page_uc makes PTs of
  NT,               \* tables of one hierarchy
  MAX_USER_FRAMES,  \* 32
  Pages,            \* numbers of pages a program's segments can have
  Spawners,         \* of "spawn_userspace_task", "create_process"
  Interrupts,       \* may interrupts be on during a spawn: subset of BOOLEAN
  Execs             \* does any task call execve

ASSUME TaskMemoryAssumption ==
  /\ Slots \subseteq Nat \ {0} /\ IsFiniteSet(Slots) /\ MAX_FRAMES \in Nat
  /\ Kernel \subseteq 0..(MAX_FRAMES - 1) /\ KernelPTs \subseteq Kernel
  /\ NT \in Nat \ {0} /\ MAX_USER_FRAMES \in Nat /\ Pages \subseteq Nat
  /\ Spawners \subseteq {"spawn_userspace_task", "create_process"}
  /\ Interrupts \subseteq BOOLEAN /\ Execs \in BOOLEAN

VARIABLES
  used, current, live, tabs, data, recorded, loaded, spawn, exec, halted,
  kernel_pts, upset

faults == <<kernel_pts, upset>>
vars == <<used, current, live, tabs, data, recorded, loaded, spawn, exec, halted, faults>>

AllFrames == 0..(MAX_FRAMES - 1)

\* The n lowest frames of S.
Lowest(S, n) == {f \in S : Cardinality({g \in S : g < f}) < n}

Free == AllFrames \ used

Idle == [step |-> "idle", on |-> FALSE, slot |-> 0, tabs |-> {}, data |-> {}]

Init ==
  /\ used = Kernel
  /\ current = 0
  /\ live = {}
  /\ tabs = [t \in Slots |-> {}]
  /\ data = [t \in Slots |-> {}]
  /\ recorded = [t \in Slots |-> {}]
  /\ loaded = Kernel
  /\ spawn = Idle
  /\ exec = "no"
  /\ halted = FALSE
  /\ kernel_pts \in {{}, KernelPTs}
  /\ upset = "none"

\* Frames for the tables, the segments' pages and the stack page, in the order
\* create_user_page_tables asks for them.
NewTables == Lowest(Free, NT)
NewData(n) == Lowest(Free, NT + n + 1) \ NewTables

\* create_user_page_tables for a program of n pages takes its frames ...
create_user_page_tables(n) ==
  /\ Cardinality(Free) >= NT + n + 1
  /\ used' = used \union NewTables \union NewData(n)
  /\ UNCHANGED halted

\* ... or stops the machine when they run out (alloc_table_or_halt).
alloc_table_or_halt(n) ==
  /\ Cardinality(Free) < NT + n + 1
  /\ used' = AllFrames
  /\ halted' = TRUE

\* spawn_userspace_task and create_process up to the call of spawn_userspace.
\* Only the first looks for a free slot before it takes frames.
spawn_build(who, on, n) ==
  /\ ~halted
  /\ current = 0
  /\ spawn = Idle
  /\ who = "spawn_userspace_task" => live # Slots
  /\ \/ /\ create_user_page_tables(n)
        /\ spawn' = [step |-> "built", on |-> on, slot |-> 0,
                     tabs |-> NewTables, data |-> NewData(n)]
     \/ /\ alloc_table_or_halt(n)
        /\ UNCHANGED spawn
  /\ UNCHANGED <<current, live, tabs, data, recorded, loaded, exec, faults>>

\* spawn_userspace as far as line 212: the first unused slot becomes Ready.
spawn_publish ==
  /\ ~halted
  /\ current = 0
  /\ spawn.step = "built"
  /\ \E i \in Slots \ live :
       /\ \A j \in Slots \ live : i <= j
       /\ live' = live \union {i}
       /\ tabs' = [tabs EXCEPT ![i] = spawn.tabs]
       /\ data' = [data EXCEPT ![i] = spawn.data]
       /\ spawn' = [spawn EXCEPT !.step = "published", !.slot = i]
  /\ UNCHANGED <<used, current, recorded, loaded, exec, halted, faults>>

\* spawn_userspace returns Err: there is no slot.  Nobody gives the frames back.
spawn_no_slot ==
  /\ ~halted
  /\ current = 0
  /\ spawn.step = "built"
  /\ live = Slots
  /\ spawn' = Idle
  /\ UNCHANGED <<used, current, live, tabs, data, recorded, loaded, exec, halted, faults>>

\* Lines 214-218: the data frames are recorded, as many as the array holds.
spawn_record ==
  /\ ~halted
  /\ current = 0
  /\ spawn.step = "published"
  /\ recorded' = [recorded EXCEPT ![spawn.slot] = Lowest(spawn.data, MAX_USER_FRAMES)]
  /\ spawn' = Idle
  /\ UNCHANGED <<used, current, live, tabs, data, loaded, exec, halted, faults>>

\* A timer interrupt switches to another task: from user code, from an exited
\* task, and from kernel_main while interrupts are on.
timer_switch(t) ==
  /\ ~halted
  /\ exec = "no"
  /\ current = 0 => spawn = Idle \/ spawn.on
  /\ t \in live \union {0}
  /\ current' = t
  /\ loaded' = IF t = 0 THEN Kernel ELSE tabs[t]
  /\ UNCHANGED <<used, live, tabs, data, recorded, spawn, exec, halted, faults>>

\* Mutant of free_user_page_tables: the walk meets the kernel's own tables.
free_all_tables(t) == tabs[t] \union Kernel

\* Mutant of free_user_page_tables: only the root is freed.
free_root_only(t) == Lowest(tabs[t], 1)

\* What a task gives back: the frames recorded for it, then every table that
\* free_user_page_tables meets, those copied from the kernel's PDs included.
free_user_page_tables(t) == tabs[t] \union kernel_pts

\* What an exit or execve of the current task frees besides its own frames.
Upset ==
  upset' = IF kernel_pts # {} THEN "kernel_pt"
           ELSE IF spawn.step = "published" /\ spawn.slot = current THEN "early"
           ELSE upset

\* Mutant of exit_current_task: CR3 keeps the user's root.
exit_current_task_keeps_cr3 ==
  /\ ~halted
  /\ exec = "no"
  /\ current \in live
  /\ used' = used \ (recorded[current] \union free_user_page_tables(current))
  /\ live' = live \ {current}
  /\ tabs' = [tabs EXCEPT ![current] = {}]
  /\ data' = [data EXCEPT ![current] = {}]
  /\ Upset
  /\ UNCHANGED <<current, recorded, loaded, spawn, exec, halted, kernel_pts>>

\* exit_current_task, from Exit or a fault.
exit_current_task ==
  /\ ~halted
  /\ exec = "no"
  /\ current \in live
  /\ used' = used \ (recorded[current] \union free_user_page_tables(current))
  /\ live' = live \ {current}
  /\ tabs' = [tabs EXCEPT ![current] = {}]
  /\ data' = [data EXCEPT ![current] = {}]
  /\ loaded' = Kernel
  /\ Upset
  /\ UNCHANGED <<current, recorded, spawn, exec, halted, kernel_pts>>

\* Mutant of exec_free: user_data_frame_count is not reset.
exec_free_keeps_record ==
  /\ ~halted
  /\ Execs
  /\ exec = "no"
  /\ current \in live
  /\ used' = used \ (recorded[current] \union free_user_page_tables(current))
  /\ exec' = "freed"
  /\ Upset
  /\ UNCHANGED <<current, live, tabs, data, recorded, loaded, spawn, halted, kernel_pts>>

\* replace_address_space, step 1: free the old image.
exec_free ==
  /\ ~halted
  /\ Execs
  /\ exec = "no"
  /\ current \in live
  /\ used' = used \ (recorded[current] \union free_user_page_tables(current))
  /\ recorded' = [recorded EXCEPT ![current] = {}]
  /\ exec' = "freed"
  /\ Upset
  /\ UNCHANGED <<current, live, tabs, data, loaded, spawn, halted, kernel_pts>>

\* Steps 2-6: build the new one while CR3 still holds the old root, record the
\* segments' frames (not the stack's), load the new root.
exec_build(n) ==
  /\ ~halted
  /\ exec = "freed"
  /\ \/ /\ create_user_page_tables(n)
        /\ tabs' = [tabs EXCEPT ![current] = NewTables]
        /\ data' = [data EXCEPT ![current] = NewData(n)]
        /\ recorded' = [recorded EXCEPT ![current] =
                          @ \union Lowest(Lowest(NewData(n), n),
                                          MAX_USER_FRAMES - Cardinality(@))]
        /\ loaded' = NewTables
        /\ exec' = "no"
     \/ /\ alloc_table_or_halt(n)
        /\ UNCHANGED <<tabs, data, recorded, loaded, exec>>
  /\ UNCHANGED <<current, live, spawn, faults>>

Next ==
  \/ \E who \in Spawners, on \in Interrupts, n \in Pages : spawn_build(who, on, n)
  \/ spawn_publish
  \/ spawn_no_slot
  \/ spawn_record
  \/ \E t \in Slots \union {0} : timer_switch(t)
  \/ exit_current_task
  \/ exec_free
  \/ \E n \in Pages : exec_build(n)

Spec == Init /\ [][Next]_vars

-----------------------------------------------------------------------------
\* A live task's frames, except those execve has just given back.
FramesOf(t) == IF exec = "freed" /\ t = current THEN {} ELSE tabs[t] \union data[t]

\* "Isolation comes from fresh per-task page tables" (main.rs:112): no frame of a live task
\* is free for the allocator, another task's, or the kernel's, whatever has exited, faulted
\* or called execve before.  It takes a task that the timer runs before spawn_userspace has
\* recorded its frames, and that exits or calls execve there, to break it; or the loss of a
\* kernel page table.
Isolation ==
  upset = "none" =>
    /\ \A t \in live : FramesOf(t) \subseteq used \ Kernel
    /\ \A t, u \in live : t # u => FramesOf(t) \intersect FramesOf(u) = {}

\* "only the user's cloned PDPTs, PDs, and PTs are freed" (paging.rs:371-372): the kernel's
\* frames stay the kernel's, whatever else has gone wrong.  The code falls short of it by the
\* page tables the kernel's own PDs point at, as the LAPIC's after map_page_uc, which the
\* first exit or execve frees, and by no other frame.
KernelKept ==
  Kernel \ used \subseteq IF upset = "kernel_pt" THEN kernel_pts ELSE {}

\* Outside execve the processor never walks page tables that have been freed:
\* through them it "would read garbage and hang the scheduler" (task.rs:474-477).
LoadedTablesLive ==
  upset = "none" /\ exec = "no" => loaded \subseteq used

\* Used frames that nobody will ever give back.
Leaked ==
  used \ (Kernel \union (UNION {FramesOf(t) : t \in live}) \union spawn.tabs \union spawn.data)

\* What the code has no record of: the image that create_process finds no slot for, and the
\* data frames of the current task that its slot does not name (those over
\* MAX_USER_FRAMES, and the stack page of an execve).
Unnamed ==
  (IF spawn.step = "built" /\ live = Slots THEN spawn.tabs \union spawn.data ELSE {})
    \union (IF current \in live THEN data[current] \ recorded[current] ELSE {})

\* "Frame count matches boot value (zero leak)" (main.rs:511), as far as it goes: a step
\* leaks no frame but those it has no record of.
LeaksOnlyUnrecorded ==
  [][upset = "none" /\ ~halted' => Leaked' \ Leaked \subseteq Unnamed]_vars
=============================================================================
