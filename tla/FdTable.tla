------------------------------ MODULE FdTable -------------------------------
(***************************************************************************)
(* The file descriptor table of fd_table.rs and the calls of               *)
(* linux_compat.rs that use it, on top of the VFS.  FD_TABLE is one flat   *)
(* array: entry task_id * MAX_FDS + fd has the node and the offset of      *)
(* descriptor fd of the task in slot task_id, or is Unused.  Offsets are   *)
(* machine words: lseek adds with wrapping, and a write that ends past     *)
(* what the heap can hold, or past the last word, panics the kernel.       *)
(***************************************************************************)
EXTENDS Vfs

CONSTANTS
  Tasks,     \* task slots, without 0
  MAX_FDS,   \* descriptors of a task (32)
  W,         \* values of a usize (2^64)
  HEAP,      \* bytes the heap can give to a file
  Seeks      \* offsets passed to lseek, as usize

ASSUME FdTableAssumption ==
  /\ Tasks \subseteq Nat \ {0} /\ MAX_FDS \in Nat \ {0}
  /\ W \in Nat \ {0} /\ W % 2 = 0 /\ Seeks \subseteq 0..(W - 1)
  /\ HEAP \in Nat /\ HEAP < W \div 2 /\ \A n \in Lengths : n <= HEAP

VARIABLES FD_TABLE, panicked

fdVars == <<FD_TABLE, panicked>>
vars == <<nodes, FD_TABLE, panicked>>

Fds == 0..(MAX_FDS - 1)
\* Descriptors that calls are made with, one of them out of range.
AnyFds == 0..MAX_FDS
Unused == [node |-> 0, offset |-> 0]

\* Task 0 has entries, too, and never uses them.
Entries == 0..((MAX_FDS * (1 + CHOOSE t \in Tasks : \A u \in Tasks : u <= t)) - 1)
fd_index(t, fd) == t * MAX_FDS + fd
Entry(t, fd) == FD_TABLE[fd_index(t, fd)]

Init ==
  /\ VfsInit
  /\ FD_TABLE = [e \in Entries |-> Unused]
  /\ panicked = FALSE

\* Mutant of is_open: the number is compared with the wrong relation.
is_open_past(t, fd) == fd <= MAX_FDS /\ fd_index(t, fd) \in Entries /\ Entry(t, fd).node # 0

\* The checks that close, node, dup, dup2 and lseek begin with.
is_open(t, fd) == fd < MAX_FDS /\ Entry(t, fd).node # 0

\* The first free entry (open lines 43-46, dup lines 133-135).
free_fds(t) == {fd \in Fds : Entry(t, fd).node = 0}
lowest_unused(t) == CHOOSE fd \in free_fds(t) : \A g \in free_fds(t) : fd <= g

\* sys_openat of the node a path leads to, file or directory.
sys_openat(t, i) ==
  /\ free_fds(t) # {}
  /\ FD_TABLE' = [FD_TABLE EXCEPT ![fd_index(t, lowest_unused(t))] =
                    [node |-> i, offset |-> 0]]
  /\ UNCHANGED <<nodes, panicked>>

sys_close(t, fd) ==
  /\ is_open(t, fd)
  /\ FD_TABLE' = [FD_TABLE EXCEPT ![fd_index(t, fd)] = Unused]
  /\ UNCHANGED <<nodes, panicked>>

\* dup and dup2: the copy has an offset of its own from then on.
sys_dup(t, fd) ==
  /\ is_open(t, fd)
  /\ free_fds(t) # {}
  /\ FD_TABLE' = [FD_TABLE EXCEPT ![fd_index(t, lowest_unused(t))] = Entry(t, fd)]
  /\ UNCHANGED <<nodes, panicked>>

sys_dup2(t, fd, new) ==
  /\ is_open(t, fd)
  /\ new < MAX_FDS
  /\ FD_TABLE' = [FD_TABLE EXCEPT ![fd_index(t, new)] = Entry(t, fd)]
  /\ UNCHANGED <<nodes, panicked>>

\* wrapping_add; a negative offset comes as its two's complement.
add_offset(base, offset) == (base + offset) % W

\* lseek from the start (0), the offset (1) or the end of the file (2).
sys_lseek(t, fd, offset, whence) ==
  /\ is_open(t, fd)
  /\ LET base == CASE whence = 0 -> 0
                   [] whence = 1 -> Entry(t, fd).offset
                   [] whence = 2 -> nodes[Entry(t, fd).node].size
     IN  FD_TABLE' = [FD_TABLE EXCEPT ![fd_index(t, fd)].offset = add_offset(base, offset)]
  /\ UNCHANGED <<nodes, panicked>>

\* Descriptors 1 and 2 are the console to sys_read and sys_write, whatever openat
\* put there; the others must be open, on a file.
Console == {1, 2}
on_file(t, fd) ==
  /\ fd \notin Console
  /\ is_open(t, fd)
  /\ nodes[Entry(t, fd).node].kind = "File"

\* sys_read of up to n bytes.
sys_read(t, fd, n) ==
  /\ on_file(t, fd)
  /\ LET e == Entry(t, fd)
         size == nodes[e.node].size
         got == IF e.offset >= size THEN 0
                ELSE IF n < size - e.offset THEN n ELSE size - e.offset
     IN  FD_TABLE' = [FD_TABLE EXCEPT ![fd_index(t, fd)].offset = @ + got]
  /\ UNCHANGED <<nodes, panicked>>

\* sys_write of n bytes, to a deleted node just the same: the node grows to the end
\* of the write ...
sys_write(t, fd, n) ==
  /\ on_file(t, fd)
  /\ LET e == Entry(t, fd)
         end == e.offset + n
     IN  /\ end <= HEAP
         /\ nodes' = [nodes EXCEPT ![e.node].size = IF end > @ THEN end ELSE @]
         /\ FD_TABLE' = [FD_TABLE EXCEPT ![fd_index(t, fd)].offset = end]
  /\ UNCHANGED panicked

\* ... or resize asks for more than the heap or a Vec can hold, or the end has
\* wrapped round and the slice is out of range.
sys_write_panics(t, fd, n) ==
  /\ on_file(t, fd)
  /\ Entry(t, fd).offset + n > HEAP
  /\ panicked' = TRUE
  /\ UNCHANGED <<nodes, FD_TABLE>>

Call(t) ==
  \/ \E i \in Resolved : sys_openat(t, i)
  \/ \E fd \in AnyFds :
       \/ sys_close(t, fd) \/ sys_dup(t, fd)
       \/ \E new \in AnyFds : sys_dup2(t, fd, new)
       \/ \E offset \in Seeks, whence \in 0..2 : sys_lseek(t, fd, offset, whence)
       \/ \E n \in Lengths : sys_read(t, fd, n) \/ sys_write(t, fd, n) \/ sys_write_panics(t, fd, n)

\* After a panic the machine halts.
Next ==
  /\ ~panicked
  /\ \/ VfsNext /\ UNCHANGED fdVars
     \/ \E t \in Tasks : Call(t)

Spec == Init /\ [][Next]_vars

-----------------------------------------------------------------------------
\* The flat table keeps tasks apart: a call of one task leaves the descriptors of
\* every other task alone.
FdsPrivate ==
  [][\A t \in Tasks :
       (\E u \in Tasks \ {t}, fd \in Fds : Entry(u, fd)' # Entry(u, fd)) => ~Call(t)]_vars
=============================================================================
